-------------------------- MODULE CheckpointsProofs --------------------------
(***************************************************************************)
(* Proofs about Checkpoints: for any number of processes, requests, files  *)
(* and images, every image a saved record refers to is in the store.       *)
(***************************************************************************)
EXTENDS Checkpoints, FiniteSetTheorems, TLAPS

\* Putting an entry into a record gives a record.
LEMMA PutRecord ==
  ASSUME NEW record, IsRecord(record), NEW f \in Covered, NEW e \in Entry
  PROVE  /\ IsRecord(Put(record, f, e))
         /\ DOMAIN Put(record, f, e) = DOMAIN record \cup {f}
<1>1. PICK S \in SUBSET Covered : record \in [S -> Entry]
  BY DEF IsRecord
<1>2. Put(record, f, e) \in [S \cup {f} -> Entry]
  BY <1>1 DEF Put
<1>3. QED
  BY <1>1, <1>2 DEF IsRecord, Put

\* Changing an entry of a record gives a record.
LEMMA ExceptRecord ==
  ASSUME NEW record, IsRecord(record), NEW f \in DOMAIN record, NEW e \in Entry
  PROVE  IsRecord([record EXCEPT ![f] = e])
BY DEF IsRecord

\* A settled entry is an entry and refers to no new image.
LEMMA SettledEntry ==
  ASSUME NEW e \in Entry, NEW phase \in Phases
  PROVE  /\ Settled(e, phase) \in Entry
         /\ Settled(e, phase).after = e.after
         /\ ImagesOf(Settled(e, phase)) \subseteq ImagesOf(e)
BY DEF Settled, Entry, Phases, ImagesOf, Present, AnyImage

\* What resolve() makes of an entry refers to images the entry refers to.
LEMMA ResolveEntry ==
  ASSUME NEW e \in Entry, NEW image \in AnyImage, ~Conflict(e, image)
  PROVE  /\ Resolve(e, image) \in Entry
         /\ ImagesOf(Resolve(e, image)) \subseteq ImagesOf(e)
         /\ Present(Resolve(e, image).after) \subseteq ImagesOf(e)
<1>1. CASE e.phase = "pendingWrite"
  <2>1. image \in {e.after, e.previous}
    BY <1>1 DEF Conflict
  <2> DEFINE d == [e EXCEPT !.after = image]
  <2>2. d \in Entry /\ d.after = image /\ ImagesOf(d) \subseteq ImagesOf(e)
    BY <2>1 DEF Entry, ImagesOf, Present, AnyImage
  <2>3. Resolve(e, image) = Settled(d, "applied")
    BY <1>1 DEF Resolve
  <2>4. "applied" \in Phases
    BY DEF Phases
  <2>5. QED
    BY <2>1, <2>2, <2>3, <2>4, SettledEntry DEF ImagesOf
<1>2. CASE e.phase = "restoring" /\ image = e.before
  <2>1. Resolve(e, image) = Settled(e, "restored")
    BY <1>2 DEF Resolve
  <2>2. "restored" \in Phases
    BY DEF Phases
  <2>3. QED
    BY <2>1, <2>2, SettledEntry DEF ImagesOf
<1>3. CASE e.phase # "pendingWrite" /\ ~(e.phase = "restoring" /\ image = e.before)
  <2>1. Resolve(e, image) = e
    BY <1>3 DEF Resolve
  <2>2. QED
    BY <2>1 DEF ImagesOf
<1>4. QED
  BY <1>1, <1>2, <1>3

\* The images of a record are the images of its entries.
LEMMA NamedEntries ==
  ASSUME NEW record, NEW S
  PROVE  Named(record) \subseteq S <=>
           \A f \in DOMAIN record : ImagesOf(record[f]) \subseteq S
BY DEF Named

\* Announcing a restore keeps the record's files and refers to no new image.
LEMMA AnnouncedRecord ==
  ASSUME NEW record, IsRecord(record), NEW selected, selected \subseteq DOMAIN record,
         files \in [Path -> AnyImage], Preflight(record, selected)
  PROVE  /\ IsRecord(Announced(record, selected))
         /\ DOMAIN Announced(record, selected) = DOMAIN record
         /\ Named(Announced(record, selected)) \subseteq Named(record)
<1> DEFINE a == Announced(record, selected)
<1>1. PICK S \in SUBSET Covered : record \in [S -> Entry]
  BY DEF IsRecord
<1>2. DOMAIN a = S
  BY <1>1 DEF Announced
<1>3. ASSUME NEW f \in S
      PROVE  a[f] \in Entry /\ ImagesOf(a[f]) \subseteq ImagesOf(record[f])
  <2>1. CASE f \notin selected
    BY <1>1, <2>1 DEF Announced
  <2>2. CASE f \in selected
    <3> DEFINE e == Resolve(record[f], files[f])
    <3>1. files[f] \in AnyImage
      BY <1>1, CheckpointsAssumption
    <3>2. e \in Entry /\ ImagesOf(e) \subseteq ImagesOf(record[f])
      BY <1>1, <2>2, <3>1, ResolveEntry DEF Preflight
    <3>3. a[f] = IF e.phase = "restored" THEN e ELSE [e EXCEPT !.phase = "restoring"]
      BY <1>1, <2>2 DEF Announced
    <3> HIDE DEF e
    <3>4. QED
      BY <3>2, <3>3 DEF Entry, Phases, ImagesOf
  <2>3. QED
    BY <2>1, <2>2
<1>4. a \in [S -> Entry]
  BY <1>1, <1>3 DEF Announced
<1>5. Named(a) \subseteq Named(record)
  BY <1>1, <1>2, <1>3 DEF Named
<1>6. QED
  BY <1>1, <1>2, <1>4, <1>5 DEF IsRecord

\* The record of a new request.
LEMMA EmptyRecord ==
  IsRecord(<<>>) /\ DOMAIN <<>> = {} /\ Named(<<>>) = {}
<1>1. <<>> \in [{} -> Entry]
  OBVIOUS
<1>2. QED
  BY <1>1 DEF IsRecord, Named

-----------------------------------------------------------------------------
(* The type of op, and what an ended operation leaves to prove.            *)

OpType ==
  /\ op \in [at : Steps, by : Process \cup {None}, id : Request \cup {None},
             path : Path \cup {None}, image : AnyImage, current : AnyImage,
             expected : Image \cup {None}, memory : {op.memory}, todo : SUBSET Covered,
             left : SUBSET Request, keep : Nat, named : SUBSET Image]
  /\ IsRecord(op.memory)

\* An operation that has ended is well typed and owes nothing.
LEMMA Ended ==
  ASSUME End
  PROVE  OpType' /\ OperationOK'
<1>1. IsRecord(<<>>)
  BY EmptyRecord
<1>2. op'.memory = <<>> /\ op'.at = "idle"
  BY DEF End, Idle
<1>3. OpType'
  BY <1>1, <1>2 DEF OpType, End, Idle, Steps, AnyImage
<1>4. OperationOK'
  BY <1>2 DEF OperationOK, Writing, Restoring, Pruning
<1>5. QED
  BY <1>3, <1>4

\* A step that leaves the operation and the disk alone keeps OperationOK.
LEMMA Aside ==
  ASSUME Inductive, UNCHANGED <<op, dirs, records, blobs>>
  PROVE  OpType' /\ OperationOK' /\ ImagesRetained'
BY DEF Inductive, TypeOK, OpType, OperationOK, ImagesRetained

\* Going to another step changes the type of nothing.
LEMMA Going ==
  ASSUME OpType, NEW step \in Steps, Go(step)
  PROVE  /\ OpType'
         /\ op'.at = step
         /\ op' = [op EXCEPT !.at = step]
         /\ op'.id = op.id /\ op'.path = op.path /\ op'.image = op.image
         /\ op'.current = op.current /\ op'.memory = op.memory /\ op'.todo = op.todo
         /\ op'.left = op.left /\ op'.named = op.named
BY DEF OpType, Go

-----------------------------------------------------------------------------
(* Every action preserves Inductive.                                       *)

LEMMA InitInductive == Init => Inductive
<1> SUFFICES ASSUME Init PROVE Inductive
  OBVIOUS
<1>1. op.at = "idle" /\ op.memory = <<>> /\ DOMAIN records = {}
  BY EmptyRecord DEF Init, Idle
<1>2. OpType
  BY <1>1, EmptyRecord DEF OpType, Init, Idle, Steps, AnyImage
<1>3. TypeOK
  BY <1>1, <1>2, CheckpointsAssumption DEF TypeOK, OpType, Init
<1>4. ImagesRetained /\ OperationOK
  BY <1>1 DEF ImagesRetained, OperationOK, Writing, Restoring, Pruning
<1>5. QED
  BY <1>3, <1>4 DEF Inductive

\* Failing calls and people do not touch the store.
LEMMA FromOutside ==
  ASSUME Inductive, Fail \/ \E f \in Path : UserEdit(f)
  PROVE  Inductive'
<1> USE DEF Inductive
<1>1. CASE Fail
  <2>1. OpType' /\ OperationOK'
    BY <1>1, Ended DEF Fail
  <2>2. TypeOK'
    BY <1>1, <2>1, CheckpointsAssumption DEF TypeOK, OpType, Fail, people, disk, history
  <2>3. ImagesRetained'
    BY <1>1 DEF ImagesRetained, Fail, disk
  <2>4. QED
    BY <2>1, <2>2, <2>3
<1>2. ASSUME NEW f \in Path, UserEdit(f) PROVE Inductive'
  <2>1. OpType' /\ OperationOK' /\ ImagesRetained'
    BY <1>2, Aside DEF UserEdit
  <2>2. TypeOK'
    BY <1>2, <2>1, CheckpointsAssumption DEF TypeOK, OpType, UserEdit, people
  <2>3. QED
    BY <2>1, <2>2
<1>3. QED
  BY <1>1, <1>2

\* Requests that begin and end, dying processes and reads do not either.
LEMMA AroundOperations ==
  ASSUME Inductive, NEW p \in Process,
         \/ StartRequest(p) \/ EndRequest(p) \/ Crash(p) \/ RefuseEdit(p)
         \/ \E f \in Path : ReadForEdit(p, f)
  PROVE  Inductive'
<1> USE DEF Inductive
<1>1. CASE StartRequest(p)
  <2>1. OpType' /\ OperationOK' /\ ImagesRetained'
    BY <1>1, Aside DEF StartRequest, disk
  <2>2. TypeOK'
    BY <1>1, <2>1 DEF TypeOK, OpType, StartRequest, disk, history
  <2>3. QED
    BY <2>1, <2>2
<1>2. CASE EndRequest(p)
  <2>1. OpType' /\ OperationOK' /\ ImagesRetained'
    BY <1>2, Aside DEF EndRequest, disk
  <2>2. TypeOK'
    BY <1>2, <2>1 DEF TypeOK, OpType, EndRequest, Leave, disk, history
  <2>3. QED
    BY <2>1, <2>2
<1>3. CASE Crash(p)
  <2>1. OpType' /\ OperationOK'
    BY <1>3, Ended DEF Crash
  <2>2. TypeOK'
    BY <1>3, <2>1, CheckpointsAssumption DEF TypeOK, OpType, Crash, Leave, disk, history
  <2>3. ImagesRetained'
    BY <1>3 DEF ImagesRetained, Crash, disk
  <2>4. QED
    BY <2>1, <2>2, <2>3
<1>4. ASSUME NEW f \in Path, ReadForEdit(p, f) PROVE Inductive'
  <2>1. OpType' /\ OperationOK' /\ ImagesRetained'
    BY <1>4, Aside DEF ReadForEdit, disk
  <2>2. view' \in [Process -> [path : Path, image : Image] \cup {None}]
    BY <1>4 DEF TypeOK, ReadForEdit, AnyImage
  <2>3. TypeOK'
    BY <1>4, <2>1, <2>2 DEF TypeOK, OpType, ReadForEdit, disk, history
  <2>4. QED
    BY <2>1, <2>3
<1>5. CASE RefuseEdit(p)
  <2>1. OpType' /\ OperationOK' /\ ImagesRetained'
    BY <1>5, Aside DEF RefuseEdit, disk
  <2>2. TypeOK'
    BY <1>5, <2>1 DEF TypeOK, OpType, RefuseEdit, disk, history
  <2>3. QED
    BY <2>1, <2>2
<1>6. QED
  BY <1>1, <1>2, <1>3, <1>4, <1>5

LEMMA BeginWriteInductive ==
  ASSUME Inductive, NEW p \in Process, NEW f \in Path, NEW image \in Image,
         BeginWrite(p, f, image)
  PROVE  Inductive'
<1> USE DEF Inductive
<1>1. view' \in [Process -> [path : Path, image : Image] \cup {None}]
  BY DEF TypeOK, BeginWrite
<1>2. request[p] \in Request
  BY DEF TypeOK, BeginWrite
<1>3. CASE f \in Covered
  <2>1. PICK expected \in Image \cup {None} :
          op' = [Idle EXCEPT !.at = "opening", !.by = p, !.id = request[p],
                             !.path = f, !.image = image, !.current = files[f],
                             !.expected = expected]
    <3>1. (IF view[p] = None THEN None ELSE view[p].image) \in Image \cup {None}
      BY DEF TypeOK
    <3>2. QED
      BY <1>3, <3>1 DEF BeginWrite
  <2>2. op'.at = "opening" /\ op'.memory = <<>> /\ op'.id = request[p]
        /\ op'.path = f /\ op'.image = image
    BY <2>1 DEF Idle
  <2>3. OpType'
    BY <2>1, <2>2, <1>2, EmptyRecord DEF OpType, TypeOK, Idle, Steps, AnyImage
  <2>4. TypeOK'
    BY <1>1, <1>3, <2>3 DEF TypeOK, OpType, BeginWrite
  <2>5. OperationOK'
    BY <2>2, <1>2, <1>3 DEF OperationOK, Writing, Restoring, Pruning
  <2>6. ImagesRetained'
    BY DEF ImagesRetained, BeginWrite
  <2>7. QED
    BY <2>4, <2>5, <2>6
<1>4. CASE f \notin Covered
  <2>1. OpType' /\ OperationOK' /\ ImagesRetained'
    BY <1>4, Aside DEF BeginWrite
  <2>2. TypeOK'
    BY <1>1, <1>2, <1>4, <2>1 DEF TypeOK, OpType, BeginWrite, AnyImage
  <2>3. QED
    BY <2>1, <2>2
<1>5. QED
  BY <1>3, <1>4

LEMMA OpenRecordInductive ==
  ASSUME Inductive, OpenRecord
  PROVE  Inductive'
<1> USE DEF Inductive
<1>1. op.id \in Request /\ op.path \in Covered /\ op.image \in Image /\ op.at = "opening"
  BY DEF OperationOK, OpenRecord, Writing
<1>2. ImagesRetained'
  BY DEF ImagesRetained, OpenRecord
<1>3. CASE op.id \in DOMAIN records
  <2>1. op' = [op EXCEPT !.at = "capturing", !.memory = records[op.id]] /\ dirs' = dirs
    BY <1>3 DEF OpenRecord
  <2>2. op'.at = "capturing" /\ op'.memory = records[op.id] /\ op'.id = op.id
        /\ op'.path = op.path /\ op'.image = op.image
    BY <2>1 DEF TypeOK
  <2>3. OpType'
    BY <1>3, <2>1, <2>2 DEF TypeOK, OpType, Steps
  <2>4. TypeOK'
    BY <2>1, <2>3 DEF TypeOK, OpType, OpenRecord, people, history
  <2>5. OperationOK'
    BY <1>1, <1>3, <2>2 DEF OperationOK, Writing, Restoring, Pruning, ImagesRetained, OpenRecord
  <2>6. QED
    BY <1>2, <2>4, <2>5
<1>4. CASE op.id \notin DOMAIN records /\ HasRoom
  <2>1. dirs' = dirs \cup {op.id} /\ Go("making")
    BY <1>4 DEF OpenRecord
  <2>2. OpType' /\ op'.at = "making" /\ op'.id = op.id /\ op'.path = op.path
        /\ op'.image = op.image
    BY <2>1, Going DEF TypeOK, OpType, Steps
  <2>3. TypeOK'
    BY <1>1, <2>1, <2>2 DEF TypeOK, OpType, OpenRecord, people, history
  <2>4. OperationOK'
    BY <1>1, <2>1, <2>2 DEF OperationOK, Writing, Restoring, Pruning
  <2>5. QED
    BY <1>2, <2>3, <2>4
<1>5. CASE op.id \notin DOMAIN records /\ ~HasRoom
  <2>1. End /\ dirs' = dirs
    BY <1>5 DEF OpenRecord
  <2>2. OpType' /\ OperationOK'
    BY <2>1, Ended
  <2>3. TypeOK'
    BY <2>1, <2>2 DEF TypeOK, OpType, OpenRecord, people, history
  <2>4. QED
    BY <1>2, <2>2, <2>3
<1>6. QED
  BY <1>3, <1>4, <1>5

LEMMA MakeRecordInductive ==
  ASSUME Inductive, MakeRecord
  PROVE  Inductive'
<1> USE DEF Inductive
<1>1. op.id \in Request /\ op.path \in Covered /\ op.image \in Image /\ op.id \in dirs
  BY DEF OperationOK, MakeRecord, Writing
<1>2. OpType' /\ op'.at = "capturing" /\ op'.id = op.id /\ op'.path = op.path
      /\ op'.image = op.image /\ op'.memory = <<>>
  BY EmptyRecord DEF MakeRecord, TypeOK, OpType, Steps
<1>3. /\ DOMAIN records' = DOMAIN records \cup {op.id}
      /\ records'[op.id] = <<>>
      /\ \A r \in DOMAIN records \ {op.id} : records'[r] = records[r]
  BY DEF MakeRecord, Put
<1>4. TypeOK'
  <2>1. made' \in [Request -> Nat] /\ clock' \in Nat
    <3>1. made \in [Request -> Nat] /\ clock \in Nat
      BY DEF TypeOK
    <3>2. clock' = clock + 1 /\ made' = [made EXCEPT ![op.id] = clock + 1]
      BY DEF MakeRecord
    <3>3. clock + 1 \in Nat
      BY <3>1
    <3>4. QED
      BY <3>1, <3>2, <3>3, Zenon
  <2>2. DOMAIN records' \subseteq dirs' /\ \A r \in DOMAIN records' : IsRecord(records'[r])
    BY <1>1, <1>3, EmptyRecord DEF TypeOK, MakeRecord
  <2>3. QED
    BY <1>2, <2>1, <2>2 DEF TypeOK, OpType, MakeRecord, people, history
<1>5. ImagesRetained'
  BY <1>3, EmptyRecord DEF ImagesRetained, MakeRecord
<1>6. OperationOK'
  <2>1. Named(op'.memory) \subseteq blobs
    BY <1>2, EmptyRecord
  <2>2. QED
    BY <1>1, <1>2, <1>3, <2>1 DEF OperationOK, Writing, Restoring, Pruning, MakeRecord
<1>7. QED
  BY <1>4, <1>5, <1>6

\* The write goes on only from an image that the store already has, or from
\* the one it has just read.
LEMMA CaptureInductive ==
  ASSUME Inductive, Capture
  PROVE  Inductive'
<1> USE DEF Inductive
<1> DEFINE record == op.memory
           f == op.path
<1>1. /\ op.id \in Request /\ f \in Covered /\ op.image \in Image
      /\ op.id \in DOMAIN records /\ Named(record) \subseteq blobs
  BY DEF OperationOK, Capture, Writing
<1>2. op.at = "capturing" /\ IsRecord(record) /\ op.current \in AnyImage
  BY DEF TypeOK, Capture
<1>3. ImagesRetained' /\ UNCHANGED <<dirs, records, blobs>> /\ leases' \subseteq Request
  BY <1>1 DEF ImagesRetained, Capture, disk, TypeOK
<1>4. CASE op' = Idle
  <2>1. OpType' /\ OperationOK'
    BY <1>4, Ended DEF End
  <2>2. TypeOK'
    BY <1>3, <2>1 DEF TypeOK, OpType, Capture, disk, history
  <2>3. QED
    BY <1>3, <2>1, <2>2
<1>5. CASE /\ f \in DOMAIN record => Continues(record[f])
           /\ op' = [op EXCEPT !.at = "keepBefore", !.memory = Intended(record)]
  <2> DEFINE before == IF f \in DOMAIN record THEN record[f].before ELSE op.current
             calls == IF f \in DOMAIN record THEN record[f].calls + 1 ELSE 1
             e == [before |-> before, after |-> op.image, previous |-> op.current,
                   phase |-> "pendingWrite", calls |-> calls]
  <2>1. f \in DOMAIN record => record[f] \in Entry
    BY <1>2 DEF IsRecord
  <2>2. e \in Entry
    <3>1. before \in AnyImage
      BY <1>2, <2>1 DEF Entry
    <3>2. calls \in Nat
      BY <2>1 DEF Entry
    <3> HIDE DEF before, calls
    <3>3. QED
      BY <1>1, <1>2, <3>1, <3>2 DEF Entry, Phases, AnyImage
  <2>3. Intended(record) = Put(record, f, e)
    BY DEF Intended
  <2>4. e.before = before /\ e.after = op.image /\ e.previous = op.current
    OBVIOUS
  <2> HIDE DEF e, calls
  <2>5. /\ op'.at = "keepBefore" /\ op'.memory = Put(record, f, e)
        /\ op'.id = op.id /\ op'.path = f /\ op'.image = op.image
        /\ op'.current = op.current
    BY <1>5, <2>3 DEF TypeOK
  <2>6. /\ IsRecord(Put(record, f, e)) /\ DOMAIN Put(record, f, e) = DOMAIN record \cup {f}
        /\ Put(record, f, e)[f] = e
        /\ \A g \in DOMAIN record \ {f} : Put(record, f, e)[g] = record[g]
    <3> HIDE DEF record, f
    <3>1. IsRecord(record) /\ f \in Covered /\ e \in Entry
      BY <1>1, <1>2, <2>2
    <3>2. IsRecord(Put(record, f, e)) /\ DOMAIN Put(record, f, e) = DOMAIN record \cup {f}
      BY <3>1, PutRecord
    <3>3. /\ Put(record, f, e)[f] = e
          /\ \A g \in DOMAIN record \ {f} : Put(record, f, e)[g] = record[g]
      BY DEF Put
    <3>4. QED
      BY <3>2, <3>3
  <2>7. OpType'
    BY <1>5, <2>3, <2>5, <2>6 DEF TypeOK, OpType, Steps
  <2>8. TypeOK'
    BY <1>3, <2>7 DEF TypeOK, OpType, Capture, disk, history
  <2>9. Present(op.current) \subseteq blobs \/ before = op.current
    <3>1. CASE f \in DOMAIN record
      <4>1. files[f] \in AnyImage
        BY <1>1, CheckpointsAssumption DEF TypeOK
      <4>2. Present(op.current) \subseteq ImagesOf(record[f])
        BY <1>5, <2>1, <3>1, <4>1, ResolveEntry DEF Continues
      <4>3. QED
        BY <1>1, <3>1, <4>2, NamedEntries
    <3>2. CASE f \notin DOMAIN record
      BY <3>2
    <3>3. QED
      BY <3>1, <3>2
  <2>10. \A g \in DOMAIN record \ {f} : ImagesOf(record[g]) \subseteq blobs
    BY <1>1, NamedEntries
  <2>11. \A g \in DOMAIN op'.memory \ {f} : ImagesOf(op'.memory[g]) \subseteq blobs
    BY <2>5, <2>6, <2>10
  <2>12. OperationOK'
    BY <1>1, <1>3, <2>4, <2>5, <2>6, <2>9, <2>11 DEF OperationOK, Writing, Restoring, Pruning
  <2>13. QED
    BY <1>3, <2>8, <2>12
<1>6. QED
  BY <1>4, <1>5 DEF Capture, End

LEMMA KeepBeforeInductive ==
  ASSUME Inductive, KeepBefore
  PROVE  Inductive'
<1> USE DEF Inductive
<1> DEFINE before == op.memory[op.path].before
<1>1. /\ op.id \in Request /\ op.path \in Covered /\ op.image \in Image
      /\ op.id \in DOMAIN records /\ op.path \in DOMAIN op.memory
      /\ op.memory[op.path].after = op.image
      /\ op.memory[op.path].previous = op.current
  BY DEF OperationOK, KeepBefore, Writing
<1>2. before \in AnyImage /\ op.memory[op.path] \in Entry
  BY <1>1 DEF TypeOK, IsRecord, Entry
<1>3. CASE End /\ UNCHANGED blobs
  <2>1. OpType' /\ OperationOK'
    BY <1>3, Ended
  <2>2. TypeOK'
    BY <1>3, <2>1 DEF TypeOK, OpType, KeepBefore, people, history
  <2>3. ImagesRetained'
    BY <1>3 DEF ImagesRetained, KeepBefore
  <2>4. QED
    BY <2>1, <2>2, <2>3
<1>4. CASE Stores(before) /\ Go("keepAfter")
  <2>1. OpType' /\ op'.at = "keepAfter" /\ op'.id = op.id /\ op'.path = op.path
        /\ op'.image = op.image /\ op'.current = op.current /\ op'.memory = op.memory
    BY <1>4, Going DEF TypeOK, OpType, Steps
  <2>2. blobs \subseteq blobs' /\ Present(before) \subseteq blobs' /\ blobs' \subseteq Image
    BY <1>2, <1>4 DEF Stores, Present, AnyImage, TypeOK
  <2>3. TypeOK'
    BY <2>1, <2>2 DEF TypeOK, OpType, KeepBefore, people, history
  <2>4. ImagesRetained'
    BY <2>2 DEF ImagesRetained, KeepBefore
  <2>5. OperationOK'
    BY <1>1, <2>1, <2>2 DEF OperationOK, KeepBefore, Writing, Restoring, Pruning
  <2>6. QED
    BY <2>3, <2>4, <2>5
<1>5. QED
  BY <1>3, <1>4 DEF KeepBefore

\* Once the result is kept too, the intent refers to kept images only.
LEMMA KeepAfterInductive ==
  ASSUME Inductive, KeepAfter
  PROVE  Inductive'
<1> USE DEF Inductive
<1> DEFINE e == op.memory[op.path]
<1>1. /\ op.id \in Request /\ op.path \in Covered /\ op.image \in Image
      /\ op.id \in DOMAIN records /\ op.path \in DOMAIN op.memory
      /\ e.after = op.image /\ e.previous = op.current
  BY DEF OperationOK, KeepAfter, Writing
<1>2. CASE End /\ UNCHANGED blobs
  <2>1. OpType' /\ OperationOK'
    BY <1>2, Ended
  <2>2. TypeOK'
    BY <1>2, <2>1 DEF TypeOK, OpType, KeepAfter, people, history
  <2>3. ImagesRetained'
    BY <1>2 DEF ImagesRetained, KeepAfter
  <2>4. QED
    BY <2>1, <2>2, <2>3
<1>3. CASE Stores(op.image) /\ Go("intent")
  <2>1. OpType' /\ op'.at = "intent" /\ op'.id = op.id /\ op'.path = op.path
        /\ op'.image = op.image /\ op'.current = op.current /\ op'.memory = op.memory
    BY <1>3, Going DEF TypeOK, OpType, Steps
  <2>2. blobs \subseteq blobs' /\ Present(op.image) \subseteq blobs' /\ blobs' \subseteq Image
    BY <1>1, <1>3 DEF Stores, Present, TypeOK
  <2>3. TypeOK'
    BY <2>1, <2>2 DEF TypeOK, OpType, KeepAfter, people, history
  <2>4. ImagesRetained'
    BY <2>2 DEF ImagesRetained, KeepAfter
  <2>5. ImagesOf(e) \subseteq blobs'
    <3>1. Present(e.before) \cup Present(op.current) \subseteq blobs
      BY DEF OperationOK, KeepAfter
    <3>2. QED
      BY <1>1, <2>2, <3>1 DEF ImagesOf
  <2>6. Named(op.memory) \subseteq blobs'
    <3>1. \A f \in DOMAIN op.memory \ {op.path} : ImagesOf(op.memory[f]) \subseteq blobs
      BY DEF OperationOK, KeepAfter
    <3>2. QED
      BY <2>2, <2>5, <3>1 DEF Named
  <2>7. OperationOK'
    BY <1>1, <2>1, <2>6 DEF OperationOK, KeepAfter, Writing, Restoring, Pruning
  <2>8. QED
    BY <2>3, <2>4, <2>7
<1>4. QED
  BY <1>2, <1>3 DEF KeepAfter

\* Saving a record whose images are kept.
LEMMA Saved ==
  ASSUME Inductive, NEW record, IsRecord(record), Named(record) \subseteq blobs,
         op.id \in DOMAIN records, records' = [records EXCEPT ![op.id] = record],
         UNCHANGED <<blobs, dirs>>
  PROVE  /\ DOMAIN records' = DOMAIN records /\ DOMAIN records' \subseteq dirs'
         /\ \A r \in DOMAIN records' : IsRecord(records'[r])
         /\ ImagesRetained'
BY DEF Inductive, TypeOK, ImagesRetained

LEMMA SaveIntentInductive ==
  ASSUME Inductive, SaveIntent
  PROVE  Inductive'
<1> USE DEF Inductive
<1>1. /\ op.at = "intent" /\ op.id \in DOMAIN records
      /\ IsRecord(op.memory) /\ Named(op.memory) \subseteq blobs
      /\ records' = [records EXCEPT ![op.id] = op.memory]
      /\ UNCHANGED <<blobs, dirs>>
  BY DEF OperationOK, SaveIntent, Writing, TypeOK
<1>2. /\ DOMAIN records' = DOMAIN records /\ DOMAIN records' \subseteq dirs'
      /\ \A r \in DOMAIN records' : IsRecord(records'[r])
      /\ ImagesRetained'
  BY <1>1, Saved
<1>3. OpType' /\ op'.at = "replacing" /\ op'.id = op.id /\ op'.path = op.path
      /\ op'.image = op.image /\ op'.current = op.current /\ op'.memory = op.memory
  BY Going DEF TypeOK, OpType, Steps, SaveIntent
<1>4. TypeOK'
  BY <1>2, <1>3 DEF TypeOK, OpType, SaveIntent, people
<1>5. OperationOK'
  BY <1>1, <1>2, <1>3 DEF OperationOK, Writing, Restoring, Pruning
<1>6. QED
  BY <1>2, <1>4, <1>5

LEMMA ReplaceInductive ==
  ASSUME Inductive, Replace
  PROVE  Inductive'
<1> USE DEF Inductive
<1>1. /\ op.at = "replacing" /\ op.id \in Request /\ op.path \in Covered /\ op.image \in Image
      /\ op.id \in DOMAIN records /\ Named(op.memory) \subseteq blobs
  BY DEF OperationOK, Replace, Writing
<1>2. UNCHANGED <<dirs, records, blobs>> /\ ImagesRetained'
  BY DEF Replace, ImagesRetained
<1>3. CASE End /\ UNCHANGED <<files, history>>
  <2>1. OpType' /\ OperationOK'
    BY <1>3, Ended
  <2>2. TypeOK'
    BY <1>3, <2>1 DEF TypeOK, OpType, Replace, people, history
  <2>3. QED
    BY <1>2, <2>1, <2>2
<1>4. CASE files' = [files EXCEPT ![op.path] = op.image] /\ Wrote /\ Go("applying")
  <2>1. OpType' /\ op'.at = "applying" /\ op'.id = op.id /\ op'.path = op.path
        /\ op'.image = op.image /\ op'.current = op.current /\ op'.memory = op.memory
    BY <1>4, Going DEF TypeOK, OpType, Steps
  <2>2. files' \in [Path -> AnyImage] /\ last' \in [Path -> Request \cup {User}]
    BY <1>1, <1>4 DEF TypeOK, AnyImage, Wrote
  <2>3. TypeOK'
    BY <1>2, <2>1, <2>2 DEF TypeOK, OpType, Replace, people
  <2>4. OperationOK'
    BY <1>1, <1>2, <2>1 DEF OperationOK, Writing, Restoring, Pruning
  <2>5. QED
    BY <1>2, <2>3, <2>4
<1>5. QED
  BY <1>3, <1>4 DEF Replace

LEMMA SaveAppliedInductive ==
  ASSUME Inductive, SaveApplied
  PROVE  Inductive'
<1> USE DEF Inductive
<1> DEFINE e == op.memory[op.path]
           done == [op.memory EXCEPT ![op.path] = Settled(e, "applied")]
<1>1. /\ op.at = "applying" /\ op.id \in DOMAIN records /\ op.path \in DOMAIN op.memory
      /\ IsRecord(op.memory) /\ Named(op.memory) \subseteq blobs
  BY DEF OperationOK, SaveApplied, Writing, TypeOK
<1>2. OpType' /\ OperationOK'
  BY Ended DEF SaveApplied
<1>3. UNCHANGED <<blobs, dirs>>
  BY DEF SaveApplied
<1>4. CASE records' = records
  <2>1. TypeOK'
    BY <1>2, <1>4 DEF TypeOK, OpType, SaveApplied, people, history
  <2>2. ImagesRetained'
    BY <1>3, <1>4 DEF ImagesRetained
  <2>3. QED
    BY <1>2, <2>1, <2>2
<1>5. CASE records' = [records EXCEPT ![op.id] = done]
  <2>1. e \in Entry /\ ImagesOf(e) \subseteq blobs
    BY <1>1 DEF IsRecord, Named
  <2>2. Settled(e, "applied") \in Entry /\ ImagesOf(Settled(e, "applied")) \subseteq blobs
    BY <2>1, SettledEntry DEF Phases
  <2>3. IsRecord(done)
    BY <1>1, <2>2, ExceptRecord
  <2>4. Named(done) \subseteq blobs
    BY <1>1, <2>2 DEF Named
  <2> HIDE DEF done
  <2>5. /\ DOMAIN records' = DOMAIN records /\ DOMAIN records' \subseteq dirs'
        /\ \A r \in DOMAIN records' : IsRecord(records'[r])
        /\ ImagesRetained'
    BY <1>1, <1>3, <1>5, <2>3, <2>4, Saved
  <2>6. TypeOK'
    BY <1>2, <2>5 DEF TypeOK, OpType, SaveApplied, people, history
  <2>7. QED
    BY <1>2, <2>5, <2>6
<1>6. QED
  BY <1>4, <1>5 DEF SaveApplied

LEMMA BeginRestoreInductive ==
  ASSUME Inductive, NEW p \in Process, NEW r \in Request, NEW selected \in SUBSET Covered,
         BeginRestore(p, r, selected)
  PROVE  Inductive'
<1> USE DEF Inductive
<1> DEFINE memory == Announced(records[r], selected)
<1>1. /\ r \in DOMAIN records /\ IsRecord(records[r]) /\ Named(records[r]) \subseteq blobs
      /\ selected \subseteq DOMAIN records[r] /\ Preflight(records[r], selected)
      /\ files \in [Path -> AnyImage]
  BY DEF BeginRestore, Restorable, TypeOK, ImagesRetained
<1>2. /\ IsRecord(memory) /\ DOMAIN memory = DOMAIN records[r]
      /\ Named(memory) \subseteq Named(records[r])
  BY <1>1, AnnouncedRecord
<1>3. op' = [Idle EXCEPT !.at = "journaling", !.by = p, !.id = r, !.todo = selected,
                         !.memory = memory]
  BY DEF BeginRestore
<1> HIDE DEF memory
<1>4. op'.at = "journaling" /\ op'.id = r /\ op'.todo = selected /\ op'.memory = memory
  BY <1>3 DEF Idle
<1>5. OpType'
  BY <1>2, <1>3, <1>4 DEF OpType, Idle, Steps, AnyImage
<1>6. TypeOK'
  BY <1>5 DEF TypeOK, OpType, BeginRestore, disk, people, history
<1>7. OperationOK'
  BY <1>1, <1>2, <1>4 DEF OperationOK, BeginRestore, disk, Writing, Restoring, Pruning
<1>8. ImagesRetained'
  BY DEF ImagesRetained, BeginRestore, disk
<1>9. QED
  BY <1>6, <1>7, <1>8

LEMMA SaveRestoringInductive ==
  ASSUME Inductive, SaveRestoring
  PROVE  Inductive'
<1> USE DEF Inductive
<1>1. /\ op.at = "journaling" /\ op.id \in DOMAIN records
      /\ IsRecord(op.memory) /\ Named(op.memory) \subseteq blobs
      /\ op.todo \subseteq DOMAIN op.memory
      /\ records' = [records EXCEPT ![op.id] = op.memory]
      /\ UNCHANGED <<blobs, dirs>>
  BY DEF OperationOK, SaveRestoring, Restoring, TypeOK
<1>2. /\ DOMAIN records' = DOMAIN records /\ DOMAIN records' \subseteq dirs'
      /\ \A r \in DOMAIN records' : IsRecord(records'[r])
      /\ ImagesRetained'
  BY <1>1, Saved
<1>3. OpType' /\ op'.at = "undoing" /\ op'.id = op.id /\ op'.memory = op.memory
      /\ op'.todo = op.todo
  BY Going DEF TypeOK, OpType, Steps, SaveRestoring
<1>4. TypeOK'
  BY <1>2, <1>3 DEF TypeOK, OpType, SaveRestoring, people, history
<1>5. OperationOK'
  BY <1>1, <1>2, <1>3 DEF OperationOK, Writing, Restoring, Pruning
<1>6. QED
  BY <1>2, <1>4, <1>5

\* Marking one path as restored.
LEMMA Marking ==
  ASSUME Inductive, op.at \in {"undoing", "marking"}, NEW f \in op.todo,
         SaveRestored(f), UNCHANGED <<blobs, dirs>>
  PROVE  /\ OpType' /\ OperationOK' /\ ImagesRetained'
         /\ DOMAIN records' \subseteq dirs'
         /\ \A r \in DOMAIN records' : IsRecord(records'[r])
<1> USE DEF Inductive
<1> DEFINE e == op.memory[f]
           done == [op.memory EXCEPT ![f] = Settled(e, "restored")]
<1>1. /\ op.id \in DOMAIN records /\ IsRecord(op.memory)
      /\ Named(op.memory) \subseteq blobs
      /\ op.todo \subseteq DOMAIN op.memory /\ op.todo \subseteq Covered
  BY DEF OperationOK, Restoring, TypeOK
<1>2. e \in Entry /\ ImagesOf(e) \subseteq blobs
  BY <1>1 DEF IsRecord, Named
<1>3. Settled(e, "restored") \in Entry /\ ImagesOf(Settled(e, "restored")) \subseteq blobs
  BY <1>2, SettledEntry DEF Phases
<1>4. IsRecord(done) /\ DOMAIN done = DOMAIN op.memory
  BY <1>1, <1>3, ExceptRecord
<1>5. Named(done) \subseteq blobs
  BY <1>1, <1>3 DEF Named
<1>6. records' = [records EXCEPT ![op.id] = done]
  BY DEF SaveRestored
<1>7. \/ op' = Idle
      \/ op' = [op EXCEPT !.at = "undoing", !.path = None, !.memory = done, !.todo = @ \ {f}]
  BY DEF SaveRestored
<1> HIDE DEF done
<1>8. /\ DOMAIN records' = DOMAIN records /\ DOMAIN records' \subseteq dirs'
      /\ \A r \in DOMAIN records' : IsRecord(records'[r])
      /\ ImagesRetained'
  BY <1>1, <1>4, <1>5, <1>6, Saved
<1>9. CASE op' = Idle
  BY <1>8, <1>9, Ended DEF End
<1>10. CASE op' = [op EXCEPT !.at = "undoing", !.path = None, !.memory = done,
                             !.todo = @ \ {f}]
  <2>1. op'.at = "undoing" /\ op'.id = op.id /\ op'.memory = done /\ op'.todo = op.todo \ {f}
    BY <1>10 DEF TypeOK
  <2>2. OpType'
    BY <1>4, <1>10, <2>1 DEF TypeOK, OpType, Steps
  <2>3. OperationOK'
    BY <1>1, <1>4, <1>5, <1>8, <2>1 DEF OperationOK, Writing, Restoring, Pruning
  <2>4. QED
    BY <1>8, <2>2, <2>3
<1>11. QED
  BY <1>7, <1>9, <1>10

LEMMA UndoInductive ==
  ASSUME Inductive, NEW f \in Path, Undo(f)
  PROVE  Inductive'
<1> USE DEF Inductive
<1> DEFINE e == op.memory[f]
<1>1. /\ op.at = "undoing" /\ f \in op.todo /\ op.id \in DOMAIN records
      /\ IsRecord(op.memory) /\ Named(op.memory) \subseteq blobs
      /\ op.todo \subseteq DOMAIN op.memory /\ UNCHANGED <<blobs, dirs>>
  BY DEF Undo, OperationOK, Restoring, TypeOK
<1>2. CASE End /\ UNCHANGED <<files, records, last>>
  <2>1. OpType' /\ OperationOK'
    BY <1>2, Ended
  <2>2. TypeOK'
    BY <1>2, <2>1 DEF TypeOK, OpType, Undo, people
  <2>3. ImagesRetained'
    BY <1>1, <1>2 DEF ImagesRetained
  <2>4. QED
    BY <2>1, <2>2, <2>3
<1>3. CASE SaveRestored(f) /\ UNCHANGED <<files, last>>
  <2>1. /\ OpType' /\ OperationOK' /\ ImagesRetained'
        /\ DOMAIN records' \subseteq dirs'
        /\ \A r \in DOMAIN records' : IsRecord(records'[r])
    BY <1>1, <1>3, Marking
  <2>2. TypeOK'
    BY <1>3, <2>1 DEF TypeOK, OpType, Undo, people
  <2>3. QED
    BY <2>1, <2>2
<1>4. CASE /\ files' = [files EXCEPT ![f] = e.before]
           /\ last' = [last EXCEPT ![f] = op.id]
           /\ op' = [op EXCEPT !.at = "marking", !.path = f]
           /\ UNCHANGED records
  <2>1. op'.at = "marking" /\ op'.id = op.id /\ op'.path = f /\ op'.memory = op.memory
        /\ op'.todo = op.todo
    BY <1>4 DEF TypeOK
  <2>2. OpType'
    BY <1>4, <2>1 DEF TypeOK, OpType, Steps
  <2>3. e.before \in AnyImage
    BY <1>1 DEF IsRecord, Entry
  <2>4. files' \in [Path -> AnyImage] /\ last' \in [Path -> Request \cup {User}]
    BY <1>1, <1>4, <2>3 DEF TypeOK
  <2>5. TypeOK'
    BY <1>4, <2>2, <2>4 DEF TypeOK, OpType, Undo, people
  <2>6. ImagesRetained' /\ OperationOK'
    BY <1>1, <1>4, <2>1 DEF ImagesRetained, OperationOK, Writing, Restoring, Pruning
  <2>7. QED
    BY <2>5, <2>6
<1>5. QED
  BY <1>2, <1>3, <1>4 DEF Undo

LEMMA MarkRestoredInductive ==
  ASSUME Inductive, MarkRestored
  PROVE  Inductive'
<1> USE DEF Inductive
<1>1. op.at = "marking" /\ op.path \in op.todo /\ UNCHANGED <<blobs, dirs>>
  BY DEF MarkRestored, OperationOK, Restoring
<1>2. CASE End /\ UNCHANGED records
  <2>1. OpType' /\ OperationOK'
    BY <1>2, Ended
  <2>2. TypeOK'
    BY <1>2, <2>1 DEF TypeOK, OpType, MarkRestored, people, history
  <2>3. ImagesRetained'
    BY <1>1, <1>2 DEF ImagesRetained
  <2>4. QED
    BY <2>1, <2>2, <2>3
<1>3. CASE SaveRestored(op.path)
  <2>1. /\ OpType' /\ OperationOK' /\ ImagesRetained'
        /\ DOMAIN records' \subseteq dirs'
        /\ \A r \in DOMAIN records' : IsRecord(records'[r])
    BY <1>1, <1>3, Marking
  <2>2. TypeOK'
    BY <1>3, <2>1 DEF TypeOK, OpType, MarkRestored, people, history
  <2>3. QED
    BY <2>1, <2>2
<1>4. QED
  BY <1>2, <1>3 DEF MarkRestored

LEMMA BeginPruneInductive ==
  ASSUME Inductive, NEW p \in Process, NEW keep \in Keeps, BeginPrune(p, keep)
  PROVE  Inductive'
<1> USE DEF Inductive
<1>1. op' = [Idle EXCEPT !.at = "pruning", !.by = p, !.keep = keep, !.left = DOMAIN records]
      /\ UNCHANGED disk
  BY DEF BeginPrune
<1>2. op'.at = "pruning" /\ op'.left = DOMAIN records /\ op'.memory = <<>>
  BY <1>1 DEF Idle
<1>3. keep \in Nat /\ DOMAIN records \subseteq Request
  BY CheckpointsAssumption DEF TypeOK
<1>4. OpType'
  BY <1>1, <1>2, <1>3, EmptyRecord DEF OpType, Idle, Steps, AnyImage
<1>5. TypeOK'
  BY <1>4 DEF TypeOK, OpType, BeginPrune, disk, people, history
<1>6. OperationOK' /\ ImagesRetained'
  BY <1>1, <1>2 DEF ImagesRetained, OperationOK, disk, Writing, Restoring, Pruning
<1>7. QED
  BY <1>5, <1>6

\* A record that stays has its images named before the images are swept.
LEMMA PruneNextInductive ==
  ASSUME Inductive, NEW r \in Request, PruneNext(r)
  PROVE  Inductive'
<1> USE DEF Inductive
<1>1. /\ op.at = "pruning" /\ r \in op.left /\ op.left \subseteq DOMAIN records
      /\ \A q \in DOMAIN records \ op.left : Named(records[q]) \subseteq op.named
      /\ UNCHANGED <<dirs, blobs>>
  BY DEF PruneNext, OperationOK, Pruning
<1>2. Named(records[r]) \subseteq Image
  BY <1>1 DEF ImagesRetained, TypeOK
<1>3. ASSUME NEW k \in Nat, op' = [Keeping(r) EXCEPT !.keep = k], UNCHANGED records
      PROVE  Inductive'
  <2>1. /\ op'.at = "pruning" /\ op'.left = op.left \ {r} /\ op'.memory = op.memory
        /\ op'.named = op.named \cup Named(records[r])
    BY <1>1, <1>3 DEF TypeOK, Keeping
  <2>2. OpType'
    BY <1>2, <1>3, <2>1 DEF TypeOK, OpType, Keeping
  <2>3. TypeOK'
    BY <1>3, <2>2 DEF TypeOK, OpType, PruneNext, people, history
  <2>4. OperationOK' /\ ImagesRetained'
    BY <1>1, <1>3, <2>1 DEF ImagesRetained, OperationOK, Writing, Restoring, Pruning
  <2>5. QED
    BY <2>3, <2>4
<1>4. CASE op' = Keeping(r) /\ UNCHANGED records
  <2>1. op' = [Keeping(r) EXCEPT !.keep = op.keep] /\ op.keep \in Nat
    BY <1>4 DEF TypeOK, Keeping
  <2>2. QED
    BY <1>3, <1>4, <2>1
<1>5. CASE op.keep > 0 /\ op' = [Keeping(r) EXCEPT !.keep = @ - 1] /\ UNCHANGED records
  <2>1. op' = [Keeping(r) EXCEPT !.keep = op.keep - 1] /\ op.keep - 1 \in Nat
    BY <1>5 DEF TypeOK, Keeping
  <2>2. QED
    BY <1>3, <1>5, <2>1
<1>6. CASE /\ op' = [op EXCEPT !.at = "dropping", !.id = r, !.left = @ \ {r}]
           /\ records' = [q \in DOMAIN records \ {r} |-> records[q]]
  <2>1. op'.at = "dropping" /\ op'.id = r /\ op'.left = op.left \ {r}
        /\ op'.memory = op.memory /\ op'.named = op.named
    BY <1>6 DEF TypeOK
  <2>2. OpType'
    BY <1>6, <2>1 DEF TypeOK, OpType, Steps
  <2>3. DOMAIN records' = DOMAIN records \ {r} /\ \A q \in DOMAIN records' : records'[q] = records[q]
    BY <1>6
  <2>4. TypeOK'
    BY <1>1, <2>2, <2>3 DEF TypeOK, OpType, PruneNext, people, history
  <2>5. OperationOK' /\ ImagesRetained'
    BY <1>1, <2>1, <2>3 DEF ImagesRetained, OperationOK, Writing, Restoring, Pruning
  <2>6. QED
    BY <2>4, <2>5
<1>7. QED
  BY <1>4, <1>5, <1>6 DEF PruneNext

LEMMA DropDirectoryInductive ==
  ASSUME Inductive, DropDirectory
  PROVE  Inductive'
<1> USE DEF Inductive
<1>1. /\ op.at = "dropping" /\ op.id \notin DOMAIN records /\ op.left \subseteq DOMAIN records
      /\ \A q \in DOMAIN records \ op.left : Named(records[q]) \subseteq op.named
      /\ dirs' = dirs \ {op.id} /\ UNCHANGED <<records, blobs>>
  BY DEF DropDirectory, OperationOK, Pruning
<1>2. OpType' /\ op'.at = "pruning" /\ op'.left = op.left /\ op'.named = op.named
  BY Going DEF TypeOK, OpType, Steps, DropDirectory
<1>3. TypeOK'
  BY <1>1, <1>2 DEF TypeOK, OpType, DropDirectory, people, history
<1>4. OperationOK' /\ ImagesRetained'
  BY <1>1, <1>2 DEF ImagesRetained, OperationOK, Writing, Restoring, Pruning
<1>5. QED
  BY <1>3, <1>4

LEMMA PruneImagesInductive ==
  ASSUME Inductive, PruneImages
  PROVE  Inductive'
<1> USE DEF Inductive
<1>1. /\ op.at = "pruning" /\ op.left = {} /\ UNCHANGED <<dirs, records>>
      /\ \A r \in DOMAIN records : Named(records[r]) \subseteq op.named
  BY DEF PruneImages, OperationOK, Pruning
<1>2. CASE End /\ UNCHANGED blobs
  <2>1. OpType' /\ OperationOK'
    BY <1>2, Ended
  <2>2. TypeOK'
    BY <1>2, <2>1 DEF TypeOK, OpType, PruneImages, people, history
  <2>3. ImagesRetained'
    BY <1>1, <1>2 DEF ImagesRetained
  <2>4. QED
    BY <2>1, <2>2, <2>3
<1>3. ASSUME NEW image \in blobs \ op.named, blobs' = blobs \ {image}, UNCHANGED op
      PROVE  Inductive'
  <2>1. TypeOK'
    BY <1>1, <1>3 DEF TypeOK, PruneImages, people, history
  <2>2. ImagesRetained'
    BY <1>1, <1>3 DEF ImagesRetained
  <2>3. OperationOK'
    BY <1>1, <1>3 DEF OperationOK, Writing, Restoring, Pruning
  <2>4. QED
    BY <2>1, <2>2, <2>3
<1>4. QED
  BY <1>2, <1>3 DEF PruneImages

-----------------------------------------------------------------------------
\* The invariant with its strengthening: no step of any operation, fault or
\* person breaks it.
THEOREM Invariance == Spec => []Inductive
<1>1. Init => Inductive
  BY InitInductive
<1>2. Inductive /\ [Next]_vars => Inductive'
  <2> SUFFICES ASSUME Inductive, [Next]_vars PROVE Inductive'
    OBVIOUS
  <2>1. ASSUME NEW p \in Process, Step(p) PROVE Inductive'
    BY <2>1, OpenRecordInductive, MakeRecordInductive, CaptureInductive,
       KeepBeforeInductive, KeepAfterInductive, SaveIntentInductive,
       ReplaceInductive, SaveAppliedInductive, SaveRestoringInductive,
       UndoInductive, MarkRestoredInductive, PruneNextInductive,
       DropDirectoryInductive, PruneImagesInductive DEF Step
  <2>2. CASE UNCHANGED vars
    BY <2>2 DEF vars, disk, people, history, Inductive, TypeOK, ImagesRetained, OperationOK
  <2>3. QED
    BY <2>1, <2>2, FromOutside, AroundOperations, BeginWriteInductive, BeginRestoreInductive,
       BeginPruneInductive DEF Next
<1>3. QED
  BY <1>1, <1>2, PTL DEF Spec

\* Every variable keeps its type, in every instance.
THEOREM TypeCorrect == Spec => []TypeOK
<1>1. Inductive => TypeOK
  BY DEF Inductive
<1>2. QED
  BY <1>1, Invariance, PTL

\* A restore always finds the images it needs: whatever the processes do,
\* wherever they die and whoever prunes, the store keeps every image that a
\* saved record refers to.
THEOREM ImagesAlwaysRetained == Spec => []ImagesRetained
<1>1. Inductive => ImagesRetained
  BY DEF Inductive
<1>2. QED
  BY <1>1, Invariance, PTL

-----------------------------------------------------------------------------
(* Recovery, on the invariant above: an interrupted write or restore can be  *)
(* carried on, what a restore brings back is what the request found, every   *)
(* replacement is announced, and no operation undoes what it has not seen.   *)

-----------------------------------------------------------------------------
(* The strengthening.                                                      *)

\* The images of an entry are those that its request announced for the file,
\* or the one it found there.
Accounted(e, f, r) ==
  /\ e.after = e.before \/ <<f, e.after>> \in wrote[r]
  /\ e.phase = "pendingWrite" => e.previous = e.before \/ <<f, e.previous>> \in wrote[r]

Explained ==
  \A r \in DOMAIN records : \A f \in DOMAIN records[r] : Accounted(records[r][f], f, r)

\* A request belongs to one process and is never taken up again; once it has
\* replaced a file it has its lease, and then its record stays.
Owners ==
  /\ DOMAIN origin = Request /\ DOMAIN wrote = Request
  /\ \A p, q \in Process : request[p] # None /\ request[p] = request[q] => p = q
  /\ \A p \in Process : request[p] # None => request[p] \in used
  /\ \A r \in Request : DOMAIN origin[r] # {} => r \in used
  /\ \A p \in Process :
       request[p] # None /\ DOMAIN origin[request[p]] # {} => request[p] \in leases
  /\ leases \subseteq DOMAIN records

\* No two records were made at the same time.
Dated ==
  /\ \A r \in DOMAIN records : made[r] <= clock
  /\ \A q, r \in DOMAIN records : made[q] = made[r] => q = r

\* What a write adds to the record on the disk.
Extends(memory, record) ==
  /\ DOMAIN memory = DOMAIN record \cup {op.path}
  /\ \A f \in DOMAIN memory \ {op.path} : memory[f] = record[f]
  /\ memory[op.path].phase = "pendingWrite"
  /\ IF op.path \in DOMAIN record THEN memory[op.path].before = record[op.path].before
     ELSE memory[op.path].before = op.current
  /\ memory[op.path].before = op.current \/ <<op.path, op.current>> \in wrote[op.id]

\* Between the steps of a write: the file still holds what the write read in
\* it, or what it has put there, unless a person has edited it.
WriteOK ==
  op.at \in Writing =>
    /\ op.by \in Process /\ op.id = request[op.by]
    /\ op.expected \in {None, op.current}
    /\ last[op.path] # User =>
         files[op.path] = IF op.at = "applying" THEN op.image ELSE op.current
    /\ op.at = "making" => op.id \notin DOMAIN records
    /\ op.at = "capturing" => op.memory = records[op.id]
    /\ op.at \in {"keepBefore", "keepAfter", "intent"} => Extends(op.memory, records[op.id])
    /\ op.at \in {"replacing", "applying"} =>
         records[op.id] = op.memory /\ op.memory[op.path].phase = "pendingWrite"
    /\ op.at \notin {"opening", "making", "capturing"} => op.id \in leases

\* Between the steps of a restore: its announcement explains every file.
RestoreOK ==
  op.at \in Restoring =>
    /\ op.id \notin leases /\ op.expected = None
    /\ \A f \in op.todo : op.memory[f].phase \in {"restoring", "restored"}
    /\ op.at = "journaling" =>
         /\ DOMAIN op.memory = DOMAIN records[op.id]
         /\ \A f \in DOMAIN op.memory :
              /\ op.memory[f].before = records[op.id][f].before
              /\ last[f] = op.id => ~Conflict(op.memory[f], files[f])
              /\ Accounted(op.memory[f], f, op.id)
    /\ op.at # "journaling" => records[op.id] = op.memory

\* Between the steps of a pruning: once it has kept all it was to keep, one
\* of those is newer than all that may go.
PruneOK ==
  op.at \in Pruning /\ op.keep = 0 =>
    \E q \in DOMAIN records \ op.left :
      ~Unfinished(records[q]) /\ \A r \in op.left : made[r] < made[q]

Between == WriteOK /\ RestoreOK /\ PruneOK
Safe == Owners /\ Dated /\ Explained /\ Recoverable /\ OriginalKept /\ RequestLimit /\ Between

-----------------------------------------------------------------------------
(* What the steps have in common.                                          *)

\* An operation that has ended owes nothing.
LEMMA EndedBetween ==
  ASSUME End
  PROVE  Between'
BY DEF End, Idle, Between, WriteOK, RestoreOK, PruneOK, Writing, Restoring, Pruning

\* What is said of the records stays true as long as the records and what
\* they are compared with do.
LEMMA RecordsStay ==
  ASSUME Safe, UNCHANGED <<records, made, clock, wrote, origin, files, last>>
  PROVE  Dated' /\ Explained' /\ Recoverable' /\ OriginalKept'
BY DEF Safe, Dated, Explained, Accounted, Recoverable, OriginalKept

\* Less directories are not over the limit.
LEMMA FewerDirectories ==
  ASSUME Inductive, RequestLimit, dirs' \subseteq dirs
  PROVE  RequestLimit'
<1>1. IsFiniteSet(dirs)
  BY CheckpointsAssumption, FS_Subset DEF Inductive, TypeOK
<1>2. IsFiniteSet(dirs') /\ Cardinality(dirs') <= Cardinality(dirs)
  BY <1>1, FS_Subset
<1>3. Cardinality(dirs) \in Nat /\ Cardinality(dirs') \in Nat
  BY <1>1, <1>2, FS_CardinalityType
<1>4. QED
  BY <1>2, <1>3, CheckpointsAssumption DEF RequestLimit

\* The step of an operation that only goes to another step.
SameBut(step) ==
  /\ op'.at = step /\ op'.by = op.by /\ op'.id = op.id /\ op'.path = op.path
  /\ op'.image = op.image /\ op'.current = op.current /\ op'.expected = op.expected
  /\ op'.memory = op.memory /\ op'.todo = op.todo /\ op'.left = op.left /\ op'.keep = op.keep

\* Going to another step changes nothing else of the operation.
LEMMA Continuing ==
  ASSUME Inductive, NEW step \in Steps, Go(step)
  PROVE  SameBut(step)
BY DEF Inductive, TypeOK, Go, SameBut

\* What Announced makes of a selected entry.
Announce(e, image) ==
  LET d == Resolve(e, image)
  IN  IF d.phase = "restored" THEN d ELSE [d EXCEPT !.phase = "restoring"]

\* The announcement of a restored entry explains the file that it found.
LEMMA AnnouncedEntry ==
  ASSUME NEW e \in Entry, NEW image \in AnyImage, ~Conflict(e, image), NEW f, NEW r
  PROVE  /\ Announce(e, image).phase \in {"restoring", "restored"}
         /\ Announce(e, image).before = e.before
         /\ ~Conflict(Announce(e, image), image)
         /\ Accounted(e, f, r) => Accounted(Announce(e, image), f, r)
<1> DEFINE a == Announce(e, image)
<1> USE DEF Announce
<1>1. CASE e.phase = "pendingWrite"
  <2>1. image \in {e.after, e.previous}
    BY <1>1 DEF Conflict
  <2>2. a = [e EXCEPT !.after = image, !.phase = "restoring", !.previous = Missing]
    BY <1>1 DEF Resolve, Settled, Entry
  <2>3. a.phase = "restoring" /\ a.before = e.before /\ a.after = image
    BY <2>2 DEF Entry
  <2>4. QED
    BY <1>1, <2>1, <2>3 DEF Conflict, Accounted
<1>2. CASE e.phase = "restoring" /\ image = e.before
  <2>1. a = [e EXCEPT !.phase = "restored", !.previous = Missing]
    BY <1>2 DEF Resolve, Settled, Entry
  <2>2. a.phase = "restored" /\ a.before = e.before /\ a.after = e.after
    BY <2>1 DEF Entry
  <2>3. QED
    BY <1>2, <2>2 DEF Conflict, Accounted
<1>3. CASE e.phase = "restored"
  <2>1. a = e
    BY <1>3 DEF Resolve
  <2>2. QED
    BY <1>3, <2>1
<1>4. CASE e.phase = "applied" \/ (e.phase = "restoring" /\ image # e.before)
  <2>1. a = [e EXCEPT !.phase = "restoring"] /\ image = e.after
    BY <1>4 DEF Resolve, Entry, Conflict
  <2>2. a.phase = "restoring" /\ a.before = e.before /\ a.after = e.after
    BY <2>1 DEF Entry
  <2>3. QED
    BY <1>4, <2>1, <2>2 DEF Conflict, Accounted
<1>5. QED
  BY <1>1, <1>2, <1>3, <1>4 DEF Entry, Phases

\* A path is marked as restored when the file is what the request found.
LEMMA MarkingSafe ==
  ASSUME Inductive, Safe, op.at \in {"undoing", "marking"}, NEW f \in op.todo,
         files[f] = op.memory[f].before, SaveRestored(f),
         UNCHANGED <<files, dirs, made, clock, blobs, people, history>>
  PROVE  Safe'
<1> DEFINE e == op.memory[f]
           done == [op.memory EXCEPT ![f] = Settled(e, "restored")]
<1>1. /\ op.id \in DOMAIN records /\ records[op.id] = op.memory /\ f \in DOMAIN op.memory
      /\ e \in Entry /\ op.id \notin leases /\ op.expected = None
      /\ \A g \in op.todo : op.memory[g].phase \in {"restoring", "restored"}
      /\ op.todo \subseteq DOMAIN op.memory
  BY DEF Safe, Between, RestoreOK, Restoring, Inductive, OperationOK, TypeOK, IsRecord
<1>2. Settled(e, "restored").before = e.before /\ Settled(e, "restored").after = e.after
      /\ Settled(e, "restored").phase = "restored"
  BY <1>1 DEF Settled, Entry
<1>3. /\ DOMAIN done = DOMAIN op.memory /\ done[f] = Settled(e, "restored")
      /\ \A g \in DOMAIN op.memory \ {f} : done[g] = op.memory[g]
  BY <1>1
<1>4. records' = [records EXCEPT ![op.id] = done]
  BY DEF SaveRestored
<1>5. \/ op' = Idle
      \/ op' = [op EXCEPT !.at = "undoing", !.path = None, !.memory = done, !.todo = @ \ {f}]
  BY DEF SaveRestored
<1> HIDE DEF done
<1>6. /\ DOMAIN records' = DOMAIN records /\ records'[op.id] = done
      /\ \A r \in DOMAIN records \ {op.id} : records'[r] = records[r]
  BY <1>1, <1>4
<1>7. Owners' /\ Dated' /\ RequestLimit'
  BY <1>6 DEF Safe, Owners, Dated, RequestLimit, people, history
<1>8. Explained'
  <2>1. wrote' = wrote
    BY DEF history
  <2>2. ASSUME NEW r \in DOMAIN records', NEW g \in DOMAIN records'[r]
        PROVE  Accounted(records[r][g], g, r)'
    <3>1. CASE r = op.id /\ g = f
      <4>1. Accounted(e, f, r)
        BY <1>1, <3>1 DEF Safe, Explained
      <4>2. QED
        BY <1>2, <1>3, <1>6, <2>1, <3>1, <4>1 DEF Accounted
    <3>2. CASE r # op.id \/ g # f
      <4>1. records'[r][g] = records[r][g] /\ Accounted(records[r][g], g, r)
        BY <1>1, <1>3, <1>6, <3>2 DEF Safe, Explained
      <4>2. QED
        BY <2>1, <4>1 DEF Accounted
    <3>3. QED
      BY <3>1, <3>2
  <2>3. QED
    BY <2>2 DEF Explained
<1>9. Recoverable'
  BY <1>1, <1>2, <1>3, <1>6 DEF Safe, Recoverable, Conflict, history
<1>10. OriginalKept'
  BY <1>1, <1>2, <1>3, <1>6 DEF Safe, OriginalKept, history
<1>11. Between'
  <2>1. CASE op' = Idle
    BY <2>1, EndedBetween DEF End
  <2>2. CASE op' = [op EXCEPT !.at = "undoing", !.path = None, !.memory = done, !.todo = @ \ {f}]
    <3>1. /\ op'.at = "undoing" /\ op'.id = op.id /\ op'.memory = done /\ op'.todo = op.todo \ {f}
          /\ op'.expected = op.expected
      BY <2>2 DEF Inductive, TypeOK
    <3>2. QED
      BY <1>1, <1>3, <1>6, <3>1 DEF Between, WriteOK, RestoreOK, PruneOK, Writing, Pruning, people
  <2>3. QED
    BY <1>5, <2>1, <2>2
<1>12. QED
  BY <1>7, <1>8, <1>9, <1>10, <1>11 DEF Safe

-----------------------------------------------------------------------------
(* Every action preserves Safe.                                            *)

\* A new identifier has no record, and nothing to restore.
LEMMA StartRequestSafe ==
  ASSUME Inductive, Inductive', Safe,
         NEW p \in Process, StartRequest(p)
  PROVE  Safe'
<1>1. Owners'
  BY DEF Safe, StartRequest, Owners, disk, history
<1>2. Dated'
  BY DEF Safe, StartRequest, Dated, disk
<1>3. Explained'
  BY DEF Safe, StartRequest, Explained, Accounted, disk, history
<1>4. Recoverable'
  BY DEF Safe, StartRequest, Recoverable, disk, history
<1>5. OriginalKept'
  BY DEF Safe, StartRequest, OriginalKept, disk, history
<1>6. RequestLimit'
  BY FewerDirectories DEF Safe, StartRequest, disk
<1>7. WriteOK'
  <2>1. request[p] = None /\ request' \in [Process -> Request \cup {None}]
        /\ \A q \in Process \ {p} : request'[q] = request[q]
    BY DEF StartRequest, Inductive, TypeOK
  <2>2. op.at \in Writing => op.id \in Request /\ op.by \in Process \ {p}
    BY <2>1, CheckpointsAssumption DEF Safe, Between, WriteOK, Inductive, OperationOK
  <2>3. QED
    BY <2>1, <2>2 DEF Safe, Between, WriteOK, StartRequest, disk, history, Extends
<1>8. RestoreOK'
  BY DEF Safe, Between, StartRequest, RestoreOK, Accounted, disk, history
<1>9. PruneOK'
  BY DEF Safe, Between, StartRequest, PruneOK, disk
<1>10. QED
  BY <1>1, <1>2, <1>3, <1>4, <1>5, <1>6, <1>7, <1>8, <1>9 DEF Safe, Between

\* A process that ends its request has no operation.
LEMMA EndRequestSafe ==
  ASSUME Inductive, Inductive', Safe,
         NEW p \in Process, EndRequest(p)
  PROVE  Safe'
<1>1. Owners'
  BY DEF Safe, Inductive, EndRequest, Owners, Leave, TypeOK, disk, history
<1>2. Dated'
  BY DEF Safe, EndRequest, Dated, disk
<1>3. Explained'
  BY DEF Safe, EndRequest, Explained, Accounted, disk, history
<1>4. Recoverable'
  BY DEF Safe, EndRequest, Recoverable, disk, history
<1>5. OriginalKept'
  BY DEF Safe, EndRequest, OriginalKept, disk, history
<1>6. RequestLimit'
  BY FewerDirectories DEF Safe, EndRequest, disk
<1>7. WriteOK'
  <2>1. \A q \in Process \ {p} : request'[q] = request[q] /\ (request[q] # None => request[q] # request[p])
    BY DEF EndRequest, Leave, Safe, Owners
  <2>2. op.at \in Writing => op.id \in Request /\ op.by \in Process \ {p} /\ request[op.by] # None
    BY CheckpointsAssumption DEF Safe, Between, WriteOK, Inductive, OperationOK, EndRequest
  <2>3. leases' = leases \ {request[p]}
    BY DEF EndRequest, Leave
  <2>4. QED
    BY <2>1, <2>2, <2>3 DEF Safe, Between, WriteOK, EndRequest, disk, history, Extends
<1>8. RestoreOK'
  BY DEF Safe, Between, RestoreOK, EndRequest, Leave, disk, history, Accounted
<1>9. PruneOK'
  BY DEF Safe, Between, EndRequest, PruneOK, disk
<1>10. QED
  BY <1>1, <1>2, <1>3, <1>4, <1>5, <1>6, <1>7, <1>8, <1>9 DEF Safe, Between

\* An operation that dies owes nothing; its request does not come back.
LEMMA CrashSafe ==
  ASSUME Inductive, Inductive', Safe,
         NEW p \in Process, Crash(p)
  PROVE  Safe'
<1>1. Owners'
  BY DEF Safe, Inductive, Crash, Owners, Leave, TypeOK, disk, history
<1>2. Dated'
  BY DEF Safe, Crash, Dated, disk
<1>3. Explained'
  BY DEF Safe, Crash, Explained, Accounted, disk, history
<1>4. Recoverable'
  BY DEF Safe, Crash, Recoverable, disk, history
<1>5. OriginalKept'
  BY DEF Safe, Crash, OriginalKept, disk, history
<1>6. RequestLimit'
  BY FewerDirectories DEF Safe, Crash, disk
<1>7. WriteOK'
  BY DEF Crash, WriteOK, Writing, End, Idle
<1>8. RestoreOK'
  BY DEF Crash, RestoreOK, Restoring, End, Idle
<1>9. PruneOK'
  BY DEF Crash, PruneOK, Pruning, End, Idle
<1>10. QED
  BY <1>1, <1>2, <1>3, <1>4, <1>5, <1>6, <1>7, <1>8, <1>9 DEF Safe, Between

\* A failed call ends the operation.
LEMMA FailSafe ==
  ASSUME Inductive, Inductive', Safe,
         Fail
  PROVE  Safe'
<1>1. Owners'
  BY DEF Safe, Fail, Owners, disk, people, history
<1>2. Dated'
  BY DEF Safe, Fail, Dated, disk
<1>3. Explained'
  BY DEF Safe, Fail, Explained, Accounted, disk, history
<1>4. Recoverable'
  BY DEF Safe, Fail, Recoverable, disk, history
<1>5. OriginalKept'
  BY DEF Safe, Fail, OriginalKept, disk, history
<1>6. RequestLimit'
  BY FewerDirectories DEF Safe, Fail, disk
<1>7. WriteOK'
  BY DEF Fail, WriteOK, Writing, End, Idle
<1>8. RestoreOK'
  BY DEF Fail, RestoreOK, Restoring, End, Idle
<1>9. PruneOK'
  BY DEF Fail, PruneOK, Pruning, End, Idle
<1>10. QED
  BY <1>1, <1>2, <1>3, <1>4, <1>5, <1>6, <1>7, <1>8, <1>9 DEF Safe, Between

\* What a person edits is no longer the work of a request.
LEMMA UserEditSafe ==
  ASSUME Inductive, Inductive', Safe,
         NEW f \in Path, UserEdit(f)
  PROVE  Safe'
<1>1. Owners'
  BY DEF Safe, UserEdit, Owners, people
<1>2. Dated'
  BY DEF Safe, UserEdit, Dated
<1>3. Explained'
  BY DEF Safe, UserEdit, Explained, Accounted
<1>4. Recoverable'
  <2>1. last' = [last EXCEPT ![f] = User] /\ last \in [Path -> Request \cup {User}]
        /\ files \in [Path -> AnyImage] /\ \E i \in AnyImage : files' = [files EXCEPT ![f] = i]
    BY DEF UserEdit, Inductive, TypeOK
  <2>2. \A g \in Path : last'[g] # User => last'[g] = last[g] /\ files'[g] = files[g]
    BY <2>1
  <2>3. \A r \in DOMAIN records : r # User /\ DOMAIN records[r] \subseteq Path
    BY CheckpointsAssumption DEF Inductive, TypeOK, IsRecord
  <2>4. QED
    BY <2>2, <2>3 DEF Safe, Recoverable, Conflict, UserEdit
<1>5. OriginalKept'
  BY DEF Safe, UserEdit, OriginalKept
<1>6. RequestLimit'
  BY FewerDirectories DEF Safe, UserEdit, disk
<1>7. WriteOK'
  BY DEF Safe, Between, Inductive, UserEdit, WriteOK, Extends, TypeOK, people
<1>8. RestoreOK'
  <2>1. last' = [last EXCEPT ![f] = User] /\ last \in [Path -> Request \cup {User}]
        /\ files \in [Path -> AnyImage] /\ \E i \in AnyImage : files' = [files EXCEPT ![f] = i]
    BY DEF UserEdit, Inductive, TypeOK
  <2>2. \A g \in Path : last'[g] # User => last'[g] = last[g] /\ files'[g] = files[g]
    BY <2>1
  <2>3. op.at \in Restoring => op.id \in Request /\ op.id # User
    BY CheckpointsAssumption DEF Inductive, TypeOK, OperationOK
  <2>4. DOMAIN op.memory \subseteq Path
    BY CheckpointsAssumption DEF Inductive, TypeOK, IsRecord
  <2>5. QED
    BY <2>2, <2>3, <2>4 DEF Safe, Between, RestoreOK, UserEdit, people, Accounted
<1>9. PruneOK'
  BY DEF Safe, Between, UserEdit, PruneOK
<1>10. QED
  BY <1>1, <1>2, <1>3, <1>4, <1>5, <1>6, <1>7, <1>8, <1>9 DEF Safe, Between

\* An edit reads its file.
LEMMA ReadForEditSafe ==
  ASSUME Inductive, Inductive', Safe,
         NEW p \in Process, NEW f \in Path, ReadForEdit(p, f)
  PROVE  Safe'
<1>1. Owners'
  BY DEF Safe, ReadForEdit, Owners, disk, history
<1>2. Dated'
  BY DEF Safe, ReadForEdit, Dated, disk
<1>3. Explained'
  BY DEF Safe, ReadForEdit, Explained, Accounted, disk, history
<1>4. Recoverable'
  BY DEF Safe, ReadForEdit, Recoverable, disk, history
<1>5. OriginalKept'
  BY DEF Safe, ReadForEdit, OriginalKept, disk, history
<1>6. RequestLimit'
  BY FewerDirectories DEF Safe, ReadForEdit, disk
<1>7. WriteOK'
  BY DEF Safe, Between, ReadForEdit, WriteOK, Extends, disk, history
<1>8. RestoreOK'
  BY DEF Safe, Between, ReadForEdit, RestoreOK, Accounted, disk, history
<1>9. PruneOK'
  BY DEF Safe, Between, ReadForEdit, PruneOK, disk
<1>10. QED
  BY <1>1, <1>2, <1>3, <1>4, <1>5, <1>6, <1>7, <1>8, <1>9 DEF Safe, Between

\* An edit is refused.
LEMMA RefuseEditSafe ==
  ASSUME Inductive, Inductive', Safe,
         NEW p \in Process, RefuseEdit(p)
  PROVE  Safe'
<1>1. Owners'
  BY DEF Safe, RefuseEdit, Owners, disk, history
<1>2. Dated'
  BY DEF Safe, RefuseEdit, Dated, disk
<1>3. Explained'
  BY DEF Safe, RefuseEdit, Explained, Accounted, disk, history
<1>4. Recoverable'
  BY DEF Safe, RefuseEdit, Recoverable, disk, history
<1>5. OriginalKept'
  BY DEF Safe, RefuseEdit, OriginalKept, disk, history
<1>6. RequestLimit'
  BY FewerDirectories DEF Safe, RefuseEdit, disk
<1>7. WriteOK'
  BY DEF Safe, Between, RefuseEdit, WriteOK, Extends, disk, history
<1>8. RestoreOK'
  BY DEF Safe, Between, RefuseEdit, RestoreOK, Accounted, disk, history
<1>9. PruneOK'
  BY DEF Safe, Between, RefuseEdit, PruneOK, disk
<1>10. QED
  BY <1>1, <1>2, <1>3, <1>4, <1>5, <1>6, <1>7, <1>8, <1>9 DEF Safe, Between

\* A write starts from what the file holds; outside the workspace it records nothing.
LEMMA BeginWriteSafe ==
  ASSUME Inductive, Inductive', Safe,
         NEW p \in Process, NEW f \in Path, NEW image \in Image, BeginWrite(p, f, image)
  PROVE  Safe'
<1>1. Owners'
  BY DEF Safe, BeginWrite, Owners
<1>2. Dated'
  BY DEF Safe, BeginWrite, Dated
<1>3. Explained'
  BY DEF Safe, BeginWrite, Explained, Accounted
<1>4. Recoverable'
  <2>1. \A r \in DOMAIN records : DOMAIN records[r] \subseteq Covered
    BY DEF Inductive, TypeOK, IsRecord
  <2>2. \A g \in Covered : last'[g] = last[g] /\ files'[g] = files[g]
    BY CheckpointsAssumption DEF BeginWrite, Inductive, TypeOK
  <2>3. QED
    BY <2>1, <2>2 DEF Safe, Recoverable, Conflict, BeginWrite
<1>5. OriginalKept'
  BY DEF Safe, BeginWrite, OriginalKept
<1>6. RequestLimit'
  BY FewerDirectories DEF Safe, BeginWrite, disk
<1>7. Between'
  <2>1. CASE f \in Covered
    <3>1. op' = [Idle EXCEPT
                  !.at = "opening", !.by = p, !.id = request[p], !.path = f,
                  !.image = image, !.current = files[f],
                  !.expected = IF view[p] = None THEN None ELSE view[p].image]
          /\ UNCHANGED <<files, last, request>>
      BY <2>1 DEF BeginWrite
    <3>2. /\ op'.at = "opening" /\ op'.by = p /\ op'.id = request'[p] /\ op'.path = f
          /\ op'.current = files'[f]
          /\ op'.expected = IF view[p] = None THEN None ELSE view[p].image
      BY <3>1 DEF Idle
    <3>3. view[p] = None \/ view[p].image = files[f]
      BY DEF BeginWrite, Expects
    <3>4. QED
      BY <3>1, <3>2, <3>3 DEF Between, WriteOK, RestoreOK, PruneOK, Restoring, Pruning
  <2>2. CASE f \notin Covered
    <3>1. op' = op /\ op.at = "idle"
      BY <2>2 DEF BeginWrite, Idle
    <3>2. QED
      BY <3>1 DEF Between, WriteOK, RestoreOK, PruneOK, Writing, Restoring, Pruning
  <2>3. QED
    BY <2>1, <2>2
<1>8. QED
  BY <1>1, <1>2, <1>3, <1>4, <1>5, <1>6, <1>7 DEF Safe, Between

\* A directory is made only within the limit.
LEMMA OpenRecordSafe ==
  ASSUME Inductive, Inductive', Safe,
         OpenRecord
  PROVE  Safe'
<1>1. Owners'
  BY DEF Safe, OpenRecord, Owners, people, history
<1>2. Dated'
  BY DEF Safe, OpenRecord, Dated
<1>3. Explained'
  BY DEF Safe, OpenRecord, Explained, Accounted, history
<1>4. Recoverable'
  BY DEF Safe, OpenRecord, Recoverable, history
<1>5. OriginalKept'
  BY DEF Safe, OpenRecord, OriginalKept, history
<1>6. RequestLimit'
  <2>1. CASE dirs' = dirs
    BY <2>1 DEF Safe, RequestLimit
  <2>2. CASE HasRoom /\ dirs' = dirs \cup {op.id}
    <3>1. IsFiniteSet(dirs)
      BY CheckpointsAssumption, FS_Subset DEF Inductive, TypeOK
    <3>2. Cardinality(dirs) \in Nat
      BY <3>1, FS_CardinalityType
    <3>3. Cardinality(dirs') = Cardinality(dirs) \/ Cardinality(dirs') = Cardinality(dirs) + 1
      BY <2>2, <3>1, FS_AddElement
    <3>4. QED
      BY <2>2, <3>2, <3>3, CheckpointsAssumption DEF HasRoom, RequestLimit
  <2>3. QED
    BY <2>1, <2>2 DEF OpenRecord
<1>7. Between'
  <2>1. CASE End
    BY <2>1, EndedBetween
  <2>2. CASE op.id \in DOMAIN records /\ op' = [op EXCEPT !.at = "capturing", !.memory = records[op.id]]
    <3>1. /\ op'.at = "capturing" /\ op'.memory = records[op.id] /\ op'.by = op.by
          /\ op'.id = op.id /\ op'.path = op.path /\ op'.current = op.current
          /\ op'.expected = op.expected
      BY <2>2 DEF Inductive, TypeOK
    <3>2. QED
      BY <3>1 DEF OpenRecord, people, history, Safe, Between, WriteOK, RestoreOK, PruneOK,
         Writing, Restoring, Pruning
  <2>3. CASE op.id \notin DOMAIN records /\ Go("making")
    <3>1. SameBut("making")
      BY <2>3, Continuing DEF Steps
    <3>2. QED
      BY <2>3, <3>1 DEF SameBut, OpenRecord, people, history, Safe, Between, WriteOK, RestoreOK,
         PruneOK, Writing, Restoring, Pruning
  <2>4. QED
    BY <2>1, <2>2, <2>3 DEF OpenRecord
<1>8. QED
  BY <1>1, <1>2, <1>3, <1>4, <1>5, <1>6, <1>7 DEF Safe, Between

\* A request that makes its record has replaced no file.
LEMMA MakeRecordSafe ==
  ASSUME Inductive, Inductive', Safe,
         MakeRecord
  PROVE  Safe'
<1>1. op.at = "making" /\ op.id \notin DOMAIN records /\ op.id \in Request
  BY DEF MakeRecord, Safe, Between, WriteOK, Writing, Inductive, OperationOK
<1>2. /\ DOMAIN records' = DOMAIN records \cup {op.id} /\ records'[op.id] = <<>>
      /\ \A r \in DOMAIN records : records'[r] = records[r]
  BY <1>1 DEF MakeRecord, Put
<1>3. DOMAIN origin[op.id] = {}
  BY <1>1, CheckpointsAssumption DEF Safe, Owners, Between, WriteOK, Writing
<1>4. DOMAIN <<>> = {}
  OBVIOUS
<1>5. Owners'
  BY DEF Safe, MakeRecord, Owners, Put, people, history
<1>6. Dated'
  BY DEF Safe, Inductive, MakeRecord, Dated, Put, TypeOK
<1>7. Explained'
  BY <1>1, <1>2, <1>4 DEF MakeRecord, history, Safe, Explained, Accounted
<1>8. Recoverable'
  BY <1>1, <1>2, <1>4 DEF MakeRecord, history, Safe, Recoverable, Conflict
<1>9. OriginalKept'
  BY <1>1, <1>2, <1>3 DEF MakeRecord, history, Safe, OriginalKept
<1>10. RequestLimit'
  BY FewerDirectories DEF Safe, MakeRecord, disk
<1>11. WriteOK'
  <2>1. /\ op'.at = "capturing" /\ op'.memory = <<>> /\ op'.by = op.by
        /\ op'.id = op.id /\ op'.path = op.path /\ op'.current = op.current
        /\ op'.expected = op.expected
    BY DEF MakeRecord, Inductive, TypeOK
  <2>2. QED
    BY <1>1, <1>2, <2>1 DEF MakeRecord, people, history, Safe, Between, WriteOK, Writing
<1>12. RestoreOK'
  BY DEF MakeRecord, RestoreOK, Restoring
<1>13. PruneOK'
  BY DEF MakeRecord, PruneOK, Pruning
<1>14. QED
  BY <1>5, <1>6, <1>7, <1>8, <1>9, <1>10, <1>11, <1>12, <1>13 DEF Safe, Between

\* The first image is kept, and the one just read is accounted for.
LEMMA CaptureSafe ==
  ASSUME Inductive, Inductive', Safe,
         Capture
  PROVE  Safe'
<1>1. Owners'
  BY DEF Safe, Inductive, Capture, Owners, OperationOK, Writing, disk, history
<1>2. Dated'
  BY DEF Safe, Capture, Dated, disk
<1>3. Explained'
  BY DEF Safe, Capture, Explained, Accounted, disk, history
<1>4. Recoverable'
  BY DEF Safe, Capture, Recoverable, disk, history
<1>5. OriginalKept'
  BY DEF Safe, Capture, OriginalKept, disk, history
<1>6. RequestLimit'
  BY FewerDirectories DEF Safe, Capture, disk
<1>7. Between'
  <2>1. CASE End
    BY <2>1, EndedBetween
  <2>2. CASE /\ op.path \in DOMAIN op.memory => Continues(op.memory[op.path])
             /\ op' = [op EXCEPT !.at = "keepBefore", !.memory = Intended(op.memory)]
    <3> DEFINE record == records[op.id]
    <3>1. /\ op.at = "capturing" /\ op.memory = record /\ op.id \in DOMAIN records
          /\ op.path \in Covered /\ op.path \in Path /\ IsRecord(record)
      BY CheckpointsAssumption DEF Capture, Safe, Between, WriteOK, Writing, Inductive,
         OperationOK, TypeOK
    <3> DEFINE memory == Intended(record)
    <3>2. /\ op'.at = "keepBefore" /\ op'.memory = memory /\ op'.by = op.by
          /\ op'.id = op.id /\ op'.path = op.path /\ op'.current = op.current
          /\ op'.image = op.image /\ op'.expected = op.expected
      BY <2>2, <3>1 DEF Inductive, TypeOK
    <3>3. /\ DOMAIN memory = DOMAIN record \cup {op.path}
          /\ \A f \in DOMAIN memory \ {op.path} : memory[f] = record[f]
          /\ memory[op.path].phase = "pendingWrite"
          /\ memory[op.path].before = IF op.path \in DOMAIN record THEN record[op.path].before
                                       ELSE op.current
      BY DEF Intended, Put
    <3>4. ASSUME op.path \in DOMAIN record
          PROVE  record[op.path].before = op.current \/ <<op.path, op.current>> \in wrote[op.id]
      <4> DEFINE e == record[op.path]
      <4>1. Continues(e) /\ Accounted(e, op.path, op.id) /\ e \in Entry
        BY <2>2, <3>1, <3>4 DEF Safe, Explained, IsRecord
      <4>2. op.current = e.after \/ (e.phase = "pendingWrite" /\ op.current = e.previous)
        <5> HIDE DEF e
        <5>1. CASE e.phase = "pendingWrite"
          <6>1. files[op.path] \in {e.after, e.previous}
            BY <4>1, <5>1 DEF Continues, Conflict
          <6>2. Resolve(e, files[op.path]).after = files[op.path]
            BY <4>1, <5>1 DEF Resolve, Settled, Entry
          <6>3. QED
            BY <4>1, <5>1, <6>1, <6>2 DEF Continues
        <5>2. CASE e.phase # "pendingWrite"
          <6>1. Resolve(e, files[op.path]).after = e.after
            BY <4>1, <5>2 DEF Resolve, Settled, Entry
          <6>2. QED
            BY <4>1, <6>1 DEF Continues
        <5>3. QED
          BY <5>1, <5>2
      <4>3. QED
        BY <4>1, <4>2 DEF Accounted
    <3> HIDE DEF memory
    <3>5. records' = records /\ wrote' = wrote /\ op.id \in leases'
      BY DEF Capture, disk, history
    <3>6. Extends(op.memory, records[op.id])'
      BY <3>2, <3>3, <3>4, <3>5 DEF Extends
    <3>7. QED
      BY <3>1, <3>2, <3>5, <3>6 DEF Capture, disk, history, Safe, Between, WriteOK, RestoreOK,
         PruneOK, Writing, Restoring, Pruning
  <2>3. QED
    BY <2>1, <2>2 DEF Capture
<1>8. QED
  BY <1>1, <1>2, <1>3, <1>4, <1>5, <1>6, <1>7 DEF Safe, Between

\* The image that goes is stored.
LEMMA KeepBeforeSafe ==
  ASSUME Inductive, Inductive', Safe,
         KeepBefore
  PROVE  Safe'
<1>1. Owners'
  BY DEF Safe, KeepBefore, Owners, people, history
<1>2. Dated'
  BY DEF Safe, KeepBefore, Dated
<1>3. Explained'
  BY DEF Safe, KeepBefore, Explained, Accounted, history
<1>4. Recoverable'
  BY DEF Safe, KeepBefore, Recoverable, history
<1>5. OriginalKept'
  BY DEF Safe, KeepBefore, OriginalKept, history
<1>6. RequestLimit'
  BY FewerDirectories DEF Safe, KeepBefore, disk
<1>7. Between'
  <2>1. CASE End
    BY <2>1, EndedBetween
  <2>2. CASE Go("keepAfter")
    <3>1. SameBut("keepAfter")
      BY <2>2, Continuing DEF Steps
    <3>2. QED
      BY <3>1 DEF SameBut, KeepBefore, people, history, Safe, Between, WriteOK, Extends,
         RestoreOK, PruneOK, Writing, Restoring, Pruning
  <2>3. QED
    BY <2>1, <2>2 DEF KeepBefore
<1>8. QED
  BY <1>1, <1>2, <1>3, <1>4, <1>5, <1>6, <1>7 DEF Safe, Between

\* The result is stored.
LEMMA KeepAfterSafe ==
  ASSUME Inductive, Inductive', Safe,
         KeepAfter
  PROVE  Safe'
<1>1. Owners'
  BY DEF Safe, KeepAfter, Owners, people, history
<1>2. Dated'
  BY DEF Safe, KeepAfter, Dated
<1>3. Explained'
  BY DEF Safe, KeepAfter, Explained, Accounted, history
<1>4. Recoverable'
  BY DEF Safe, KeepAfter, Recoverable, history
<1>5. OriginalKept'
  BY DEF Safe, KeepAfter, OriginalKept, history
<1>6. RequestLimit'
  BY FewerDirectories DEF Safe, KeepAfter, disk
<1>7. Between'
  <2>1. CASE End
    BY <2>1, EndedBetween
  <2>2. CASE Go("intent")
    <3>1. SameBut("intent")
      BY <2>2, Continuing DEF Steps
    <3>2. QED
      BY <3>1 DEF SameBut, KeepAfter, people, history, Safe, Between, WriteOK, Extends, RestoreOK,
         PruneOK, Writing, Restoring, Pruning
  <2>3. QED
    BY <2>1, <2>2 DEF KeepAfter
<1>8. QED
  BY <1>1, <1>2, <1>3, <1>4, <1>5, <1>6, <1>7 DEF Safe, Between

\* The announcement explains the file before and after the replacement.
LEMMA SaveIntentSafe ==
  ASSUME Inductive, Inductive', Safe,
         SaveIntent
  PROVE  Safe'
<1>1. /\ op.at = "intent" /\ op.id \in DOMAIN records /\ op.path \in DOMAIN op.memory
      /\ op.memory[op.path].after = op.image /\ op.memory[op.path].previous = op.current
      /\ Extends(op.memory, records[op.id]) /\ op.path \in Path
      /\ (last[op.path] # User => files[op.path] = op.current)
      /\ op.id \in Request /\ op.id # User
  BY CheckpointsAssumption DEF SaveIntent, Safe, Between, WriteOK, Writing, Inductive, OperationOK
<1>2. /\ DOMAIN records' = DOMAIN records /\ records'[op.id] = op.memory
      /\ \A r \in DOMAIN records \ {op.id} : records'[r] = records[r]
  BY <1>1 DEF SaveIntent
<1>3. /\ <<op.path, op.image>> \in wrote'[op.id]
      /\ \A r \in Request : wrote[r] \subseteq wrote'[r]
      /\ DOMAIN records \subseteq Request
  BY <1>1 DEF SaveIntent, Safe, Owners, Inductive, TypeOK
<1>4. UNCHANGED <<files, last, origin>>
  BY DEF SaveIntent
<1>5. Owners'
  BY DEF Safe, SaveIntent, Owners, people
<1>6. Dated'
  BY DEF Safe, SaveIntent, Dated
<1>7. Explained'
  <2>1. Accounted(op.memory[op.path], op.path, op.id)'
    <3>1. SameBut("replacing")
      BY Continuing DEF SaveIntent, Steps
    <3>2. QED
      BY <1>1, <1>3, <3>1 DEF SameBut, Accounted, Extends
  <2>2. \A f \in DOMAIN op.memory \ {op.path} : Accounted(op.memory[f], f, op.id)
    BY <1>1 DEF Extends, Safe, Explained
  <2>3. \A r \in DOMAIN records \ {op.id} : \A f \in DOMAIN records[r] :
          Accounted(records[r][f], f, r)
    BY DEF Safe, Explained
  <2>4. ASSUME NEW e, NEW f, NEW r \in Request, Accounted(e, f, r)
        PROVE  (e.after = e.before \/ <<f, e.after>> \in wrote'[r])
               /\ (e.phase = "pendingWrite" => e.previous = e.before \/ <<f, e.previous>> \in wrote'[r])
    BY <1>3, <2>4 DEF Accounted
  <2>5. ASSUME NEW r \in DOMAIN records', NEW f \in DOMAIN records'[r]
        PROVE  Accounted(records[r][f], f, r)'
    <3>1. CASE r = op.id /\ f = op.path
      BY <1>2, <2>1, <3>1 DEF Accounted, SaveIntent, Go
    <3>2. CASE r = op.id /\ f # op.path
      BY <1>1, <1>2, <2>2, <2>4, <3>2 DEF Accounted
    <3>3. CASE r # op.id
      <4>1. r \in Request /\ records'[r] = records[r] /\ Accounted(records[r][f], f, r)
        BY <1>2, <1>3, <2>3, <3>3
      <4>2. QED
        BY <2>4, <4>1 DEF Accounted
    <3>4. QED
      BY <3>1, <3>2, <3>3
  <2>6. QED
    BY <2>5 DEF Explained
<1>8. Recoverable'
  <2>1. last[op.path] = op.id => ~Conflict(op.memory[op.path], files[op.path])
    BY <1>1 DEF Conflict, Extends
  <2>2. QED
    BY <1>1, <1>2, <1>4, <2>1 DEF Safe, Recoverable, Conflict, Extends
<1>9. OriginalKept'
  BY DEF Safe, Between, SaveIntent, OriginalKept, WriteOK, Writing, Extends
<1>10. RequestLimit'
  BY FewerDirectories DEF Safe, SaveIntent, disk
<1>11. WriteOK'
  BY DEF Safe, Between, SaveIntent, WriteOK, Writing, Extends, Go, Owners, people
<1>12. RestoreOK'
  BY DEF SaveIntent, RestoreOK, Restoring, Go
<1>13. PruneOK'
  BY DEF SaveIntent, PruneOK, Pruning, Go
<1>14. QED
  BY <1>5, <1>6, <1>7, <1>8, <1>9, <1>10, <1>11, <1>12, <1>13 DEF Safe, Between

\* The file becomes the announced result.
LEMMA ReplaceSafe ==
  ASSUME Inductive, Inductive', Safe,
         Replace
  PROVE  Safe'
<1>1. /\ op.at = "replacing" /\ op.id \in DOMAIN records /\ op.path \in DOMAIN op.memory
      /\ records[op.id] = op.memory /\ op.memory[op.path].phase = "pendingWrite"
      /\ op.memory[op.path].after = op.image /\ op.memory[op.path].previous = op.current
      /\ op.path \in Path /\ op.id \in Request /\ op.id # User /\ op.id \in leases
      /\ op.by \in Process /\ op.id = request[op.by] /\ op.id \in used
  BY CheckpointsAssumption DEF Replace, Safe, Between, WriteOK, Writing, Inductive, OperationOK,
     Owners
<1>2. CASE End /\ UNCHANGED <<files, history>>
  <2>1. Between'
    BY <1>2, EndedBetween
  <2>2. Dated' /\ Explained' /\ Recoverable' /\ OriginalKept'
    BY <1>2, RecordsStay DEF Replace, history
  <2>3. Owners' /\ RequestLimit'
    BY <1>2 DEF Safe, Owners, RequestLimit, Replace, people, history
  <2>4. QED
    BY <2>1, <2>2, <2>3 DEF Safe
<1>3. SUFFICES ASSUME files[op.path] = op.current, files' = [files EXCEPT ![op.path] = op.image],
                       Wrote, Go("applying")
                PROVE  Safe'
  BY <1>2 DEF Replace
<1>4. UNCHANGED <<dirs, records, made, clock, blobs, people>>
  BY DEF Replace
<1>5. /\ files'[op.path] = op.image /\ last'[op.path] = op.id
      /\ \A f \in Path \ {op.path} : files'[f] = files[f] /\ last'[f] = last[f]
  BY <1>1, <1>3 DEF Inductive, TypeOK, Wrote
<1>6. /\ DOMAIN origin' = Request /\ wrote' = wrote
      /\ \A r \in Request \ {op.id} : origin'[r] = origin[r]
      /\ DOMAIN origin'[op.id] = DOMAIN origin[op.id] \cup {op.path}
      /\ \A f \in DOMAIN origin[op.id] : origin'[op.id][f] = origin[op.id][f]
      /\ op.path \notin DOMAIN origin[op.id] => origin'[op.id][op.path] = op.current
  BY <1>1, <1>3 DEF Wrote, Put, Safe, Owners
<1>7. Owners'
  <2>1. \A p \in Process : request[p] # None => request[p] \in Request
    BY DEF Inductive, TypeOK
  <2>2. QED
    BY <1>1, <1>4, <1>6, <2>1 DEF Safe, Owners, people
<1>8. Dated'
  BY <1>4 DEF Safe, Dated
<1>9. Explained'
  BY <1>4, <1>6 DEF Safe, Explained, Accounted
<1>10. Recoverable'
  <2>1. \A r \in DOMAIN records : DOMAIN records[r] \subseteq Path
    BY CheckpointsAssumption DEF Inductive, TypeOK, IsRecord
  <2>2. QED
    BY <1>1, <1>4, <1>5, <2>1 DEF Safe, Recoverable, Conflict
<1>11. OriginalKept'
  <2>1. Accounted(op.memory[op.path], op.path, op.id)
    BY <1>1 DEF Safe, Explained
  <2>2. op.memory[op.path].before = op.current \/ <<op.path, op.current>> \in wrote[op.id]
    BY <1>1, <2>1 DEF Accounted
  <2>3. DOMAIN records \subseteq Request
    BY DEF Inductive, TypeOK
  <2>4. QED
    <3> SUFFICES ASSUME NEW r \in DOMAIN records, NEW f \in DOMAIN origin'[r]
                 PROVE  /\ f \in DOMAIN records[r]
                        /\ records[r][f].before = origin'[r][f] \/ <<f, origin'[r][f]>> \in wrote[r]
      BY <1>4, <1>6 DEF OriginalKept
    <3>1. CASE r = op.id /\ f \notin DOMAIN origin[r]
      BY <1>1, <1>6, <2>2, <3>1
    <3>2. CASE r # op.id \/ f \in DOMAIN origin[r]
      <4>1. f \in DOMAIN origin[r] /\ origin'[r][f] = origin[r][f]
        BY <1>6, <2>3, <3>2
      <4>2. QED
        BY <4>1 DEF Safe, OriginalKept
    <3>3. QED
      BY <3>1, <3>2
<1>12. RequestLimit'
  BY <1>4 DEF Safe, RequestLimit
<1>13. Between'
  <2>1. SameBut("applying")
    BY <1>3, Continuing DEF Steps
  <2>2. op.expected \in {None, op.current}
    BY <1>1 DEF Safe, Between, WriteOK, Writing
  <2>3. QED
    BY <1>1, <1>4, <1>5, <2>1, <2>2 DEF SameBut, people, Between, WriteOK, RestoreOK, PruneOK,
       Restoring, Pruning
<1>14. QED
  BY <1>7, <1>8, <1>9, <1>10, <1>11, <1>12, <1>13 DEF Safe, Between

\* The intent is settled once the file holds the result.
LEMMA SaveAppliedSafe ==
  ASSUME Inductive, Inductive', Safe,
         SaveApplied
  PROVE  Safe'
<1>1. /\ op.at = "applying" /\ op.id \in DOMAIN records /\ op.path \in DOMAIN op.memory
      /\ records[op.id] = op.memory /\ op.memory[op.path] \in Entry
  BY DEF SaveApplied, Safe, Between, WriteOK, Writing, Inductive, OperationOK, TypeOK, IsRecord
<1>2. /\ Settled(op.memory[op.path], "applied").before = op.memory[op.path].before
      /\ Settled(op.memory[op.path], "applied").after = op.memory[op.path].after
      /\ Settled(op.memory[op.path], "applied").phase = "applied"
  BY <1>1 DEF Settled, Entry
<1>3. /\ DOMAIN records' = DOMAIN records
      /\ \A r \in DOMAIN records \ {op.id} : records'[r] = records[r]
      /\ DOMAIN records'[op.id] = DOMAIN op.memory
      /\ \A f \in DOMAIN op.memory \ {op.path} : records'[op.id][f] = op.memory[f]
      /\ records'[op.id][op.path] \in {op.memory[op.path], Settled(op.memory[op.path], "applied")}
  BY <1>1 DEF SaveApplied
<1>4. Owners'
  BY DEF Safe, SaveApplied, Owners, people, history
<1>5. Dated'
  BY DEF Safe, SaveApplied, Dated
<1>6. Explained'
  <2>1. wrote' = wrote
    BY DEF SaveApplied, history
  <2>2. ASSUME NEW r \in DOMAIN records', NEW f \in DOMAIN records'[r]
        PROVE  Accounted(records[r][f], f, r)'
    <3>1. CASE r = op.id /\ f = op.path
      <4>1. Accounted(op.memory[f], f, r)
        BY <1>1, <3>1 DEF Safe, Explained
      <4>2. QED
        BY <1>2, <1>3, <2>1, <3>1, <4>1 DEF Accounted
    <3>2. CASE r # op.id \/ f # op.path
      <4>1. records'[r][f] = records[r][f] /\ Accounted(records[r][f], f, r)
        BY <1>1, <1>3, <3>2 DEF Safe, Explained
      <4>2. QED
        BY <2>1, <4>1 DEF Accounted
    <3>3. QED
      BY <3>1, <3>2
  <2>3. QED
    BY <2>2 DEF Explained
<1>7. Recoverable'
  BY DEF Safe, Between, Inductive, SaveApplied, Recoverable, Conflict, OperationOK, WriteOK,
     Writing, Settled, history
<1>8. OriginalKept'
  BY <1>1, <1>2, <1>3 DEF SaveApplied, history, Safe, OriginalKept
<1>9. RequestLimit'
  BY FewerDirectories DEF Safe, SaveApplied, disk
<1>10. WriteOK'
  BY DEF SaveApplied, WriteOK, Writing, End, Idle
<1>11. RestoreOK'
  BY DEF SaveApplied, RestoreOK, Restoring, End, Idle
<1>12. PruneOK'
  BY DEF SaveApplied, PruneOK, Pruning, End, Idle
<1>13. QED
  BY <1>4, <1>5, <1>6, <1>7, <1>8, <1>9, <1>10, <1>11, <1>12 DEF Safe, Between

\* A restore begins with an announcement that explains every file.
LEMMA BeginRestoreSafe ==
  ASSUME Inductive, Inductive', Safe,
         NEW p \in Process, NEW r \in Request, NEW selected \in SUBSET Covered, BeginRestore(p, r, selected)
  PROVE  Safe'
<1>1. Owners'
  BY DEF Safe, BeginRestore, Owners, disk, people, history
<1>2. Dated'
  BY DEF Safe, BeginRestore, Dated, disk
<1>3. Explained'
  BY DEF Safe, BeginRestore, Explained, Accounted, disk, history
<1>4. Recoverable'
  BY DEF Safe, BeginRestore, Recoverable, disk, history
<1>5. OriginalKept'
  BY DEF Safe, BeginRestore, OriginalKept, disk, history
<1>6. RequestLimit'
  BY FewerDirectories DEF Safe, BeginRestore, disk
<1>7. Between'
  <2> DEFINE record == records[r]
             memory == Announced(record, selected)
  <2>1. /\ op'.at = "journaling" /\ op'.id = r /\ op'.todo = selected /\ op'.memory = memory
        /\ op'.expected = None
    BY DEF BeginRestore, Idle
  <2>2. /\ r \in DOMAIN records \ leases /\ IsRecord(record) /\ selected \subseteq DOMAIN record
        /\ Preflight(record, selected) /\ files \in [Path -> AnyImage]
        /\ DOMAIN record \subseteq Path
    BY CheckpointsAssumption DEF BeginRestore, Restorable, Inductive, TypeOK, IsRecord
  <2>3. DOMAIN memory = DOMAIN record
    BY DEF Announced
  <2>4. \A f \in DOMAIN record : Accounted(record[f], f, r)
                                 /\ (last[f] = r => ~Conflict(record[f], files[f]))
    BY <2>2 DEF Safe, Explained, Recoverable
  <2>5. ASSUME NEW f \in DOMAIN record
        PROVE  /\ f \in selected => memory[f].phase \in {"restoring", "restored"}
               /\ memory[f].before = record[f].before
               /\ last[f] = r => ~Conflict(memory[f], files[f])
               /\ Accounted(memory[f], f, r)
    <3>1. record[f] \in Entry /\ files[f] \in AnyImage
      BY <2>2 DEF IsRecord
    <3>2. CASE f \notin selected
      <4>1. memory[f] = record[f]
        BY <3>2 DEF Announced
      <4>2. QED
        BY <2>4, <3>2, <4>1
    <3>3. CASE f \in selected
      <4>1. memory[f] = Announce(record[f], files[f])
        BY <3>3 DEF Announced, Announce
      <4>2. ~Conflict(record[f], files[f])
        BY <2>2, <3>3 DEF Preflight
      <4> HIDE DEF memory, record
      <4>3. /\ memory[f].phase \in {"restoring", "restored"}
            /\ memory[f].before = record[f].before
            /\ ~Conflict(memory[f], files[f])
            /\ (Accounted(record[f], f, r) => Accounted(memory[f], f, r))
        BY <3>1, <4>1, <4>2, AnnouncedEntry
      <4>4. QED
        BY <2>4, <4>3
    <3>4. QED
      BY <3>2, <3>3
  <2> HIDE DEF memory
  <2>6. UNCHANGED <<files, last, records, leases, wrote>>
    BY DEF BeginRestore, disk, people, history
  <2>7. RestoreOK'
    BY <2>1, <2>2, <2>3, <2>5, <2>6 DEF RestoreOK, Accounted, Conflict
  <2>8. QED
    BY <2>1, <2>7 DEF Between, WriteOK, PruneOK, Writing, Pruning
<1>8. QED
  BY <1>1, <1>2, <1>3, <1>4, <1>5, <1>6, <1>7 DEF Safe, Between

\* The announcement is saved.
LEMMA SaveRestoringSafe ==
  ASSUME Inductive, Inductive', Safe,
         SaveRestoring
  PROVE  Safe'
<1>1. Owners'
  BY DEF Safe, SaveRestoring, Owners, people, history
<1>2. Dated'
  BY DEF Safe, SaveRestoring, Dated
<1>3. Explained'
  BY DEF Safe, Between, SaveRestoring, Explained, Accounted, RestoreOK, Restoring, history
<1>4. Recoverable'
  BY DEF Safe, Between, SaveRestoring, Recoverable, RestoreOK, Restoring, history
<1>5. OriginalKept'
  BY DEF Safe, Between, SaveRestoring, OriginalKept, RestoreOK, Restoring, history
<1>6. RequestLimit'
  BY FewerDirectories DEF Safe, SaveRestoring, disk
<1>7. WriteOK'
  BY DEF SaveRestoring, WriteOK, Writing, Go
<1>8. RestoreOK'
  BY DEF Safe, Between, Inductive, SaveRestoring, RestoreOK, Restoring, Go, OperationOK, people
<1>9. PruneOK'
  BY DEF SaveRestoring, PruneOK, Pruning, Go
<1>10. QED
  BY <1>1, <1>2, <1>3, <1>4, <1>5, <1>6, <1>7, <1>8, <1>9 DEF Safe, Between

\* One turn of the loop of a restore.
LEMMA UndoSafe ==
  ASSUME Inductive, Inductive', Safe,
         NEW f \in Path, Undo(f)
  PROVE  Safe'
<1>1. /\ op.at = "undoing" /\ f \in op.todo /\ op.id \in DOMAIN records /\ f \in DOMAIN op.memory
      /\ records[op.id] = op.memory /\ op.memory[f].phase \in {"restoring", "restored"}
      /\ op.memory[f] \in Entry /\ op.id \in Request /\ op.id # User
  BY CheckpointsAssumption DEF Undo, Safe, Between, RestoreOK, Restoring, Inductive, OperationOK,
     TypeOK, IsRecord
<1>2. UNCHANGED <<dirs, made, clock, blobs, people, origin, wrote>>
  BY DEF Undo
<1>3. CASE End /\ UNCHANGED <<files, records, last>>
  <2>1. Between'
    BY <1>3, EndedBetween
  <2>2. Dated' /\ Explained' /\ Recoverable' /\ OriginalKept'
    BY <1>2, <1>3, RecordsStay
  <2>3. Owners' /\ RequestLimit'
    BY <1>2, <1>3 DEF Safe, Owners, RequestLimit, people
  <2>4. QED
    BY <2>1, <2>2, <2>3 DEF Safe
<1>4. CASE /\ ~Conflict(op.memory[f], files[f])
           /\ Resolve(op.memory[f], files[f]).phase = "restored"
           /\ SaveRestored(f) /\ UNCHANGED <<files, last>>
  <2>1. files[f] = op.memory[f].before
    BY <1>1, <1>4 DEF Conflict, Resolve
  <2>2. QED
    BY <1>1, <1>2, <1>4, <2>1, MarkingSafe DEF history
<1>5. CASE /\ Resolve(op.memory[f], files[f]).phase # "restored"
           /\ files' = [files EXCEPT ![f] = op.memory[f].before]
           /\ last' = [last EXCEPT ![f] = op.id]
           /\ op' = [op EXCEPT !.at = "marking", !.path = f]
           /\ UNCHANGED records
  <2>1. op.memory[f].phase = "restoring"
    BY <1>1, <1>5 DEF Resolve
  <2>2. /\ files'[f] = op.memory[f].before /\ last'[f] = op.id
        /\ \A g \in Path \ {f} : files'[g] = files[g] /\ last'[g] = last[g]
    BY <1>5 DEF Inductive, TypeOK
  <2>3. \A r \in DOMAIN records : DOMAIN records[r] \subseteq Path
    BY CheckpointsAssumption DEF Inductive, TypeOK, IsRecord
  <2>4. Recoverable'
    BY <1>1, <1>5, <2>1, <2>2, <2>3 DEF Safe, Recoverable, Conflict
  <2>5. Owners' /\ Dated' /\ Explained' /\ OriginalKept' /\ RequestLimit'
    BY <1>2, <1>5 DEF Safe, Owners, Dated, Explained, Accounted, OriginalKept, RequestLimit,
       people
  <2>6. /\ op'.at = "marking" /\ op'.memory = op.memory /\ op'.id = op.id /\ op'.todo = op.todo
        /\ op'.expected = op.expected
    BY <1>5 DEF Inductive, TypeOK
  <2>7. Between'
    BY <1>1, <1>2, <1>5, <2>6 DEF Safe, Between, WriteOK, RestoreOK, PruneOK, Writing, Restoring,
       Pruning, people
  <2>8. QED
    BY <2>4, <2>5, <2>7 DEF Safe
<1>6. QED
  BY <1>3, <1>4, <1>5 DEF Undo

\* A file that is back is marked.
LEMMA MarkRestoredSafe ==
  ASSUME Inductive, Inductive', Safe,
         MarkRestored
  PROVE  Safe'
<1>1. op.at = "marking" /\ op.path \in op.todo
  BY DEF MarkRestored, Inductive, OperationOK, Restoring
<1>2. UNCHANGED <<files, dirs, made, clock, blobs, people, history>>
  BY DEF MarkRestored
<1>3. CASE End /\ UNCHANGED records
  <2>1. Between'
    BY <1>3, EndedBetween
  <2>2. Dated' /\ Explained' /\ Recoverable' /\ OriginalKept'
    BY <1>2, <1>3, RecordsStay DEF history
  <2>3. Owners' /\ RequestLimit'
    BY <1>2, <1>3 DEF Safe, Owners, RequestLimit, people, history
  <2>4. QED
    BY <2>1, <2>2, <2>3 DEF Safe
<1>4. CASE files[op.path] = op.memory[op.path].before /\ SaveRestored(op.path)
  BY <1>1, <1>2, <1>4, MarkingSafe DEF history
<1>5. QED
  BY <1>3, <1>4 DEF MarkRestored

\* A pruning keeps at least one record.
LEMMA BeginPruneSafe ==
  ASSUME Inductive, Inductive', Safe,
         NEW p \in Process, NEW keep \in Keeps, BeginPrune(p, keep)
  PROVE  Safe'
<1>1. Owners'
  BY DEF Safe, BeginPrune, Owners, disk, people, history
<1>2. Dated'
  BY DEF Safe, BeginPrune, Dated, disk
<1>3. Explained'
  BY DEF Safe, BeginPrune, Explained, Accounted, disk, history
<1>4. Recoverable'
  BY DEF Safe, BeginPrune, Recoverable, disk, history
<1>5. OriginalKept'
  BY DEF Safe, BeginPrune, OriginalKept, disk, history
<1>6. RequestLimit'
  BY FewerDirectories DEF Safe, BeginPrune, disk
<1>7. Between'
  <2>1. op'.at = "pruning" /\ op'.keep = keep
    BY DEF BeginPrune, Idle
  <2>2. keep # 0
    BY CheckpointsAssumption
  <2>3. QED
    BY <2>1, <2>2 DEF Between, WriteOK, RestoreOK, PruneOK, Writing, Restoring
<1>8. QED
  BY <1>1, <1>2, <1>3, <1>4, <1>5, <1>6, <1>7 DEF Safe, Between

\* The records are looked at from the newest on.
LEMMA PruneNextSafe ==
  ASSUME Inductive, Inductive', Safe,
         NEW r \in Request, PruneNext(r)
  PROVE  Safe'
<1>1. Owners'
  BY DEF Safe, PruneNext, Owners, people, history, Retained
<1>2. Dated'
  BY DEF Safe, PruneNext, Dated
<1>3. Explained'
  BY DEF Safe, PruneNext, Explained, Accounted, history
<1>4. Recoverable'
  BY DEF Safe, PruneNext, Recoverable, history
<1>5. OriginalKept'
  BY DEF Safe, PruneNext, OriginalKept, history
<1>6. RequestLimit'
  BY FewerDirectories DEF Safe, PruneNext, disk
<1>7. Between'
  <2>1. /\ op.at = "pruning" /\ r \in op.left /\ op.left \subseteq DOMAIN records
        /\ \A q \in op.left : made[q] <= made[r]
        /\ UNCHANGED made
    BY DEF PruneNext, Inductive, OperationOK, Pruning
  <2>2. CASE Retained(r) /\ op' = Keeping(r) /\ UNCHANGED records
    <3>1. op'.at = "pruning" /\ op'.left = op.left \ {r} /\ op'.keep = op.keep
      BY <2>1, <2>2 DEF Keeping, Inductive, TypeOK
    <3>2. QED
      BY <2>1, <2>2, <3>1 DEF Safe, Between, WriteOK, RestoreOK, PruneOK, Writing, Restoring
  <2>3. CASE ~Retained(r) /\ op' = [Keeping(r) EXCEPT !.keep = @ - 1] /\ UNCHANGED records
    <3>1. op'.at = "pruning" /\ op'.left = op.left \ {r}
      BY <2>1, <2>3 DEF Keeping, Inductive, TypeOK
    <3>2. ~Unfinished(records[r])
      BY <2>3 DEF Retained
    <3>3. \A q \in op.left \ {r} : made[q] < made[r]
      <4>1. made \in [Request -> Nat] /\ DOMAIN records \subseteq Request
        BY DEF Inductive, TypeOK
      <4>2. \A q \in op.left \ {r} : made[q] \in Nat /\ made[r] \in Nat /\ made[q] # made[r]
        BY <2>1, <4>1 DEF Safe, Dated
      <4>3. QED
        BY <2>1, <4>2
    <3>4. QED
      BY <2>1, <2>3, <3>1, <3>2, <3>3 DEF Between, WriteOK, RestoreOK, PruneOK, Writing, Restoring
  <2>4. CASE /\ op.keep = 0
             /\ op' = [op EXCEPT !.at = "dropping", !.id = r, !.left = @ \ {r}]
             /\ records' = [q \in DOMAIN records \ {r} |-> records[q]]
    <3>1. op'.at = "dropping" /\ op'.left = op.left \ {r} /\ op'.keep = op.keep
      BY <2>4 DEF Inductive, TypeOK
    <3>2. PICK q \in DOMAIN records \ op.left :
            ~Unfinished(records[q]) /\ \A s \in op.left : made[s] < made[q]
      BY <2>1, <2>4 DEF Safe, Between, PruneOK, Pruning
    <3>3. q \in DOMAIN records' \ op'.left /\ records'[q] = records[q]
      BY <2>1, <2>4, <3>1, <3>2
    <3>4. QED
      BY <2>1, <3>1, <3>2, <3>3 DEF Between, WriteOK, RestoreOK, PruneOK, Writing, Restoring
  <2>5. QED
    BY <2>2, <2>3, <2>4 DEF PruneNext
<1>8. QED
  BY <1>1, <1>2, <1>3, <1>4, <1>5, <1>6, <1>7 DEF Safe, Between

\* A directory goes after its record.
LEMMA DropDirectorySafe ==
  ASSUME Inductive, Inductive', Safe,
         DropDirectory
  PROVE  Safe'
<1>1. Owners'
  BY DEF Safe, DropDirectory, Owners, people, history
<1>2. Dated'
  BY DEF Safe, DropDirectory, Dated
<1>3. Explained'
  BY DEF Safe, DropDirectory, Explained, Accounted, history
<1>4. Recoverable'
  BY DEF Safe, DropDirectory, Recoverable, history
<1>5. OriginalKept'
  BY DEF Safe, DropDirectory, OriginalKept, history
<1>6. RequestLimit'
  BY FewerDirectories DEF Safe, DropDirectory, disk
<1>7. WriteOK'
  BY DEF DropDirectory, WriteOK, Writing, Go
<1>8. RestoreOK'
  BY DEF DropDirectory, RestoreOK, Restoring, Go
<1>9. PruneOK'
  BY DEF Safe, Between, DropDirectory, PruneOK, Pruning, Go
<1>10. QED
  BY <1>1, <1>2, <1>3, <1>4, <1>5, <1>6, <1>7, <1>8, <1>9 DEF Safe, Between

\* Images that nothing names go.
LEMMA PruneImagesSafe ==
  ASSUME Inductive, Inductive', Safe,
         PruneImages
  PROVE  Safe'
<1>1. Owners'
  BY DEF Safe, PruneImages, Owners, people, history
<1>2. Dated'
  BY DEF Safe, PruneImages, Dated
<1>3. Explained'
  BY DEF Safe, PruneImages, Explained, Accounted, history
<1>4. Recoverable'
  BY DEF Safe, PruneImages, Recoverable, history
<1>5. OriginalKept'
  BY DEF Safe, PruneImages, OriginalKept, history
<1>6. RequestLimit'
  BY FewerDirectories DEF Safe, PruneImages, disk
<1>7. WriteOK'
  BY DEF PruneImages, WriteOK, Writing, End, Idle
<1>8. RestoreOK'
  BY DEF PruneImages, RestoreOK, Restoring, End, Idle
<1>9. PruneOK'
  BY DEF Safe, Between, PruneImages, PruneOK, Pruning, End, Idle
<1>10. QED
  BY <1>1, <1>2, <1>3, <1>4, <1>5, <1>6, <1>7, <1>8, <1>9 DEF Safe, Between

-----------------------------------------------------------------------------
(* The invariant.                                                          *)

\* Nothing is recorded at first.
LEMMA InitSafe == Init => Safe
<1> SUFFICES ASSUME Init PROVE Safe
  OBVIOUS
<1>1. Between
  BY DEF Init, Idle, Between, WriteOK, RestoreOK, PruneOK, Writing, Restoring, Pruning
<1>2. DOMAIN records = {} /\ \A r \in Request : DOMAIN origin[r] = {}
  BY DEF Init
<1>3. Dated /\ Explained /\ Recoverable /\ OriginalKept
  BY <1>2 DEF Dated, Explained, Recoverable, OriginalKept
<1>4. Owners
  BY <1>2 DEF Owners, Init
<1>5. RequestLimit
  BY FS_EmptySet, CheckpointsAssumption DEF RequestLimit, Init
<1>6. QED
  BY <1>1, <1>3, <1>4, <1>5 DEF Safe

\* No step of an operation, a fault or a person breaks the invariant.
LEMMA StepSafe ==
  ASSUME Inductive, Inductive', Safe, [Next]_vars
  PROVE  Safe'
<1>1. ASSUME NEW p \in Process, Step(p) PROVE Safe'
  BY <1>1, OpenRecordSafe, MakeRecordSafe, CaptureSafe, KeepBeforeSafe, KeepAfterSafe,
     SaveIntentSafe, ReplaceSafe, SaveAppliedSafe, SaveRestoringSafe, UndoSafe, MarkRestoredSafe,
     PruneNextSafe, DropDirectorySafe, PruneImagesSafe DEF Step
<1>2. CASE UNCHANGED vars
  <2>1. Dated' /\ Explained' /\ Recoverable' /\ OriginalKept'
    BY <1>2, RecordsStay DEF vars, disk, history
  <2>2. Owners' /\ RequestLimit' /\ Between'
    BY <1>2 DEF vars, disk, people, history, Safe, Owners, RequestLimit, Between, WriteOK,
       Extends, RestoreOK, Accounted, PruneOK
  <2>3. QED
    BY <2>1, <2>2 DEF Safe
<1>3. QED
  BY <1>1, <1>2, StartRequestSafe, EndRequestSafe, CrashSafe, FailSafe, UserEditSafe,
     ReadForEditSafe, RefuseEditSafe, BeginWriteSafe, BeginRestoreSafe, BeginPruneSafe DEF Next

\* The invariant with its strengthening.
THEOREM AlwaysSafe == Spec => []Safe
<1>1. Init => Safe
  BY InitSafe
<1>2. Inductive /\ Inductive' /\ Safe /\ [Next]_vars => Safe'
  BY StepSafe
<1>3. QED
  BY <1>1, <1>2, Invariance, PTL DEF Spec

\* An interrupted write or restore can be carried on: no crash, failed call
\* or other process leaves a file that the record of its last writer does not
\* explain.
THEOREM AlwaysRecoverable == Spec => []Recoverable
<1>1. Safe => Recoverable
  BY DEF Safe
<1>2. QED
  BY <1>1, AlwaysSafe, PTL

\* What a restore brings back is what the request found.
THEOREM OriginalAlwaysKept == Spec => []OriginalKept
<1>1. Safe => OriginalKept
  BY DEF Safe
<1>2. QED
  BY <1>1, AlwaysSafe, PTL

\* The store can always be read: it never has more requests than it may.
THEOREM RequestsAlwaysLimited == Spec => []RequestLimit
<1>1. Safe => RequestLimit
  BY DEF Safe
<1>2. QED
  BY <1>1, AlwaysSafe, PTL

-----------------------------------------------------------------------------
(* What a step may do.                                                     *)

\* Records are saved, and files replaced by Hibiscus, only in the steps of an
\* operation, which holds the lock.
LEMMA OnlyStepsSave ==
  ASSUME [Next]_vars, records' # records
  PROVE  \E p \in Process : Step(p)
<1>1. CASE Fail \/ (\E f \in Path : UserEdit(f)) \/ UNCHANGED vars
  BY <1>1 DEF Fail, UserEdit, vars, disk
<1>2. ASSUME NEW p \in Process,
             \/ StartRequest(p) \/ EndRequest(p) \/ Crash(p) \/ RefuseEdit(p)
             \/ \E f \in Path : ReadForEdit(p, f) \/ \E image \in Image : BeginWrite(p, f, image)
      PROVE  FALSE
  BY <1>2 DEF StartRequest, EndRequest, Crash, RefuseEdit, ReadForEdit, BeginWrite, disk
<1>3. ASSUME NEW p \in Process,
             \/ \E r \in Request : \E t \in SUBSET Covered : BeginRestore(p, r, t)
             \/ \E keep \in Keeps : BeginPrune(p, keep)
      PROVE  FALSE
  BY <1>3 DEF BeginRestore, BeginPrune, disk
<1>4. QED
  BY <1>1, <1>2, <1>3 DEF Next

\* Hibiscus replaces a protected file in two places only: at the end of a
\* write and in the loop of a restore.
LEMMA ReplacedBy ==
  ASSUME Inductive, Safe, [Next]_vars, NEW f \in Path, Replaced(f)
  PROVE  \/ Replace /\ f = op.path /\ files[f] = op.current /\ files'[f] = op.image
              /\ last'[f] = op.id
         \/ Undo(f) /\ files'[f] = op.memory[f].before /\ last'[f] = op.id
              /\ Resolve(op.memory[f], files[f]).phase # "restored"
              /\ ~Conflict(op.memory[f], files[f])
<1>1. f \in Covered /\ files' # files /\ files'[f] # files[f] /\ last'[f] # User
  BY DEF Replaced
<1>2. ASSUME NEW p \in Process, NEW g \in Path, NEW image \in Image, BeginWrite(p, g, image)
      PROVE  FALSE
  BY <1>1, <1>2 DEF BeginWrite, Inductive, TypeOK
<1>3. ASSUME NEW g \in Path, UserEdit(g) PROVE FALSE
  BY <1>1, <1>3 DEF UserEdit, Inductive, TypeOK
<1>4. ASSUME NEW g \in Path, Undo(g)
      PROVE  /\ f = g /\ files'[f] = op.memory[f].before /\ last'[f] = op.id
             /\ Resolve(op.memory[f], files[f]).phase # "restored"
             /\ ~Conflict(op.memory[f], files[f])
  BY <1>1, <1>4 DEF Undo, Inductive, TypeOK
<1>5. CASE Replace
  BY <1>1, <1>5 DEF Replace, Wrote, Inductive, TypeOK
<1>6. ASSUME NEW p \in Process, Step(p)
      PROVE  Replace \/ \E g \in Path : Undo(g)
  BY <1>1, <1>6 DEF Step, OpenRecord, MakeRecord, Capture, KeepBefore, KeepAfter, SaveIntent,
     SaveApplied, SaveRestoring, MarkRestored, PruneNext, DropDirectory, PruneImages, disk
<1>7. ASSUME NEW p \in Process,
             \/ StartRequest(p) \/ EndRequest(p) \/ Crash(p) \/ RefuseEdit(p)
             \/ \E g \in Path : ReadForEdit(p, g)
             \/ \E r \in Request : \E t \in SUBSET Covered : BeginRestore(p, r, t)
             \/ \E keep \in Keeps : BeginPrune(p, keep)
      PROVE  FALSE
  BY <1>1, <1>7 DEF StartRequest, EndRequest, Crash, RefuseEdit, ReadForEdit, BeginRestore,
     BeginPrune, disk
<1>8. CASE Fail \/ UNCHANGED vars
  BY <1>1, <1>8 DEF Fail, vars, disk
<1>9. CASE Replace \/ \E g \in Path : Undo(g)
  BY <1>4, <1>5, <1>9
<1>10. QED
  BY <1>2, <1>3, <1>6, <1>7, <1>8, <1>9 DEF Next

\* What is known of a path when the loop of a restore replaces its file.
LEMMA Undoing ==
  ASSUME Inductive, Safe, NEW f \in Path, Undo(f),
         Resolve(op.memory[f], files[f]).phase # "restored", ~Conflict(op.memory[f], files[f])
  PROVE  /\ op.at = "undoing" /\ op.expected = None
         /\ op.id \in DOMAIN records /\ f \in DOMAIN records[op.id]
         /\ records[op.id][f] = op.memory[f] /\ op.memory[f].phase = "restoring"
         /\ files[f] = op.memory[f].after
<1>1. /\ op.at = "undoing" /\ f \in op.todo /\ op.id \in DOMAIN records /\ f \in DOMAIN op.memory
      /\ records[op.id] = op.memory /\ op.memory[f].phase \in {"restoring", "restored"}
      /\ op.expected = None
  BY DEF Undo, Safe, Between, RestoreOK, Restoring, Inductive, OperationOK
<1>2. op.memory[f].phase = "restoring"
  BY <1>1 DEF Resolve
<1>3. files[f] = op.memory[f].after
  BY <1>2 DEF Resolve, Settled, Conflict
<1>4. QED
  BY <1>1, <1>2, <1>3

\* A protected file is replaced only by what a saved record announces, and
\* only if the store keeps the image that goes.
THEOREM ReplacementsAlwaysAnnounced == Spec => ReplacementsAnnounced
<1> DEFINE Announces(f) ==
      LET r == last'[f]
          e == records[r][f]
      IN  /\ r \in DOMAIN records /\ f \in DOMAIN records[r]
          /\ Present(files[f]) \subseteq blobs
          /\ \/ e.phase = "pendingWrite" /\ e.previous = files[f] /\ e.after = files'[f]
             \/ e.phase = "restoring" /\ e.after = files[f] /\ e.before = files'[f]
<1>1. ASSUME Inductive, Safe, [Next]_vars, NEW f \in Path, Replaced(f)
      PROVE  Announces(f)
  <2>1. CASE Replace /\ f = op.path /\ files[f] = op.current /\ files'[f] = op.image
             /\ last'[f] = op.id
    <3>1. /\ op.id \in DOMAIN records /\ f \in DOMAIN op.memory /\ records[op.id] = op.memory
          /\ op.memory[f].phase = "pendingWrite" /\ op.memory[f].after = files'[f]
          /\ op.memory[f].previous = files[f]
      BY <1>1, <2>1 DEF Replace, Safe, Between, WriteOK, Writing, Inductive, OperationOK
    <3>2. Present(files[f]) \subseteq blobs
      BY <1>1, <3>1 DEF Inductive, ImagesRetained, Named, ImagesOf
    <3>3. QED
      BY <2>1, <3>1, <3>2
  <2>2. CASE Undo(f) /\ files'[f] = op.memory[f].before /\ last'[f] = op.id
             /\ Resolve(op.memory[f], files[f]).phase # "restored"
             /\ ~Conflict(op.memory[f], files[f])
    <3>1. /\ op.id \in DOMAIN records /\ f \in DOMAIN records[op.id]
          /\ records[op.id][f] = op.memory[f] /\ op.memory[f].phase = "restoring"
          /\ files[f] = op.memory[f].after
      BY <1>1, <2>2, Undoing
    <3>2. Present(files[f]) \subseteq blobs
      BY <1>1, <3>1 DEF Inductive, ImagesRetained, Named, ImagesOf
    <3>3. QED
      BY <2>2, <3>1, <3>2
  <2>3. QED
    BY <1>1, <2>1, <2>2, ReplacedBy
<1>2. Inductive /\ Safe /\ [Next]_vars => [\A f \in Path : Replaced(f) => Announces(f)]_vars
  BY <1>1
<1>3. QED
  BY <1>2, Invariance, AlwaysSafe, PTL DEF Spec, ReplacementsAnnounced

\* A restore replaces only results that its request announced.
THEOREM AlwaysRestoresOwnResults == Spec => RestoresOwnResults
<1>1. ASSUME Inductive, Safe, [Next]_vars, NEW f \in Path, Replaced(f), op.at = "undoing"
      PROVE  <<f, files[f]>> \in wrote[last'[f]]
  <2>1. /\ Undo(f) /\ files'[f] = op.memory[f].before /\ last'[f] = op.id
        /\ Resolve(op.memory[f], files[f]).phase # "restored"
        /\ ~Conflict(op.memory[f], files[f])
    BY <1>1, ReplacedBy DEF Replace
  <2>2. /\ op.id \in DOMAIN records /\ f \in DOMAIN records[op.id]
        /\ records[op.id][f] = op.memory[f] /\ files[f] = op.memory[f].after
    BY <1>1, <2>1, Undoing
  <2>3. Accounted(op.memory[f], f, op.id)
    BY <1>1, <2>2 DEF Safe, Explained
  <2>4. files[f] # op.memory[f].before
    BY <1>1, <2>1 DEF Replaced
  <2>5. QED
    BY <2>1, <2>2, <2>3, <2>4 DEF Accounted
<1>2. Inductive /\ Safe /\ [Next]_vars =>
        [\A f \in Path : Replaced(f) /\ op.at = "undoing" => <<f, files[f]>> \in wrote[last'[f]]]_vars
  BY <1>1
<1>3. QED
  BY <1>2, Invariance, AlwaysSafe, PTL DEF Spec, RestoresOwnResults

\* An edit replaces the text it was computed from.
THEOREM AlwaysEditsWhatItRead == Spec => EditsWhatItRead
<1>1. ASSUME Inductive, Safe, [Next]_vars, NEW f \in Path, Replaced(f), op.expected # None
      PROVE  files[f] = op.expected
  <2>1. CASE Replace /\ files[f] = op.current
    BY <1>1, <2>1 DEF Replace, Safe, Between, WriteOK, Writing
  <2>2. CASE /\ Undo(f) /\ Resolve(op.memory[f], files[f]).phase # "restored"
             /\ ~Conflict(op.memory[f], files[f])
    BY <1>1, <2>2, Undoing
  <2>3. QED
    BY <1>1, <2>1, <2>2, ReplacedBy
<1>2. Inductive /\ Safe /\ [Next]_vars =>
        [\A f \in Path : Replaced(f) /\ op.expected # None => files[f] = op.expected]_vars
  BY <1>1
<1>3. QED
  BY <1>2, Invariance, AlwaysSafe, PTL DEF Spec, EditsWhatItRead

\* While a request holds its lease, only its own process changes its record.
THEOREM ActiveAlwaysUntouched == Spec => ActiveUntouched
<1> DEFINE Untouched(r) ==
      \/ r \in DOMAIN records' /\ records'[r] = records[r]
      \/ \E p \in Process : op.by = p /\ request[p] = r
<1>1. ASSUME Inductive, Safe, [Next]_vars, NEW r \in leases \cap DOMAIN records
      PROVE  Untouched(r)
  <2>1. CASE records' = records
    BY <2>1
  <2>2. CASE MakeRecord \/ SaveIntent \/ SaveApplied
    <3>1. op.by \in Process /\ op.id = request[op.by] /\ op.id \in Request
      BY <1>1, <2>2 DEF MakeRecord, SaveIntent, SaveApplied, Safe, Between, WriteOK, Writing,
         Inductive, OperationOK
    <3>2. r # op.id => r \in DOMAIN records' /\ records'[r] = records[r]
      BY <2>2 DEF MakeRecord, SaveIntent, SaveApplied, Put
    <3>3. QED
      BY <3>1, <3>2
  <2>3. CASE SaveRestoring \/ MarkRestored \/ \E f \in Path : Undo(f)
    <3>1. op.id \notin leases
      BY <1>1, <2>3 DEF SaveRestoring, MarkRestored, Undo, Safe, Between, RestoreOK, Restoring
    <3>2. r # op.id => r \in DOMAIN records' /\ records'[r] = records[r]
      BY <2>3 DEF SaveRestoring, MarkRestored, Undo, SaveRestored
    <3>3. QED
      BY <3>1, <3>2
  <2>4. CASE \E q \in Request : PruneNext(q)
    BY <2>4 DEF PruneNext, Retained
  <2>5. ASSUME NEW p \in Process, Step(p)
        PROVE  \/ records' = records
               \/ MakeRecord \/ SaveIntent \/ SaveApplied
               \/ SaveRestoring \/ MarkRestored \/ (\E f \in Path : Undo(f))
               \/ \E q \in Request : PruneNext(q)
    BY <2>5 DEF Step, OpenRecord, Capture, KeepBefore, KeepAfter, Replace, DropDirectory,
       PruneImages, disk
  <2>6. QED
    BY <1>1, <2>1, <2>2, <2>3, <2>4, <2>5, OnlyStepsSave
<1>2. Inductive /\ Safe /\ [Next]_vars => [\A r \in leases \cap DOMAIN records : Untouched(r)]_vars
  BY <1>1
<1>3. QED
  BY <1>2, Invariance, AlwaysSafe, PTL DEF Spec, ActiveUntouched

\* Pruning spares unfinished records and the newest finished one.
THEOREM PruneAlwaysSpares == Spec => PruneSpares
<1> DEFINE Spared(r) ==
      /\ ~Unfinished(records[r])
      /\ \E q \in DOMAIN records : made[q] > made[r] /\ ~Unfinished(records[q])
<1>1. ASSUME Inductive, Safe, [Next]_vars, NEW r \in DOMAIN records \ DOMAIN records'
      PROVE  Spared(r)
  <2>1. CASE \E q \in Request : PruneNext(q)
    <3>1. /\ op.at = "pruning" /\ r \in op.left /\ op.keep = 0 /\ ~Retained(r)
      BY <2>1 DEF PruneNext
    <3>2. ~Unfinished(records[r])
      BY <3>1 DEF Retained
    <3>3. PICK q \in DOMAIN records \ op.left :
            ~Unfinished(records[q]) /\ \A s \in op.left : made[s] < made[q]
      BY <1>1, <3>1 DEF Safe, Between, PruneOK, Pruning
    <3>4. made[q] > made[r]
      BY <1>1, <3>1, <3>3 DEF Inductive, TypeOK
    <3>5. QED
      BY <3>2, <3>3, <3>4
  <2>2. CASE MakeRecord \/ SaveIntent \/ SaveApplied \/ SaveRestoring \/ MarkRestored
             \/ \E f \in Path : Undo(f)
    BY <2>2 DEF MakeRecord, Put, SaveIntent, SaveApplied, SaveRestoring, MarkRestored, Undo,
       SaveRestored
  <2>3. ASSUME NEW p \in Process, Step(p)
        PROVE  \/ records' = records
               \/ MakeRecord \/ SaveIntent \/ SaveApplied
               \/ SaveRestoring \/ MarkRestored \/ (\E f \in Path : Undo(f))
               \/ \E q \in Request : PruneNext(q)
    BY <2>3 DEF Step, OpenRecord, Capture, KeepBefore, KeepAfter, Replace, DropDirectory,
       PruneImages, disk
  <2>4. QED
    BY <1>1, <2>1, <2>2, <2>3, OnlyStepsSave
<1>2. Inductive /\ Safe /\ [Next]_vars =>
        [\A r \in DOMAIN records \ DOMAIN records' : Spared(r)]_vars
  BY <1>1
<1>3. QED
  BY <1>2, Invariance, AlwaysSafe, PTL DEF Spec, PruneSpares

\* No operation undoes what it has not seen or what is not finished.
THEOREM OthersAlwaysSpared == Spec => OthersSpared
BY AlwaysEditsWhatItRead, ActiveAlwaysUntouched, PruneAlwaysSpares DEF OthersSpared
=============================================================================
