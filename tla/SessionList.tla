----------------------------- MODULE SessionList -----------------------------
(***************************************************************************)
(* The list of /sessions and /continue (src/chat/sessions.rs): a thread    *)
(* scans the session files, which other processes replace and edit at the  *)
(* same time, and keeps what it found in a cache under the file's stamp.   *)
(* Clock ticks are those of the file system; contents have equal lengths.  *)
(* A file that is not listed has the title Unlisted.                       *)
(***************************************************************************)
EXTENDS Naturals, FiniteSets

CONSTANTS
  SessionFile, Title,
  Scanner,    \* threads: a scan that was cancelled may still run when the next starts
  MaxAge,     \* ticks for which an entry is used (30 seconds in the code)
  MaxTick,    \* bound: ticks
  MaxInode    \* bound: files that are created

VARIABLES
  disk,     \* [SessionFile -> [title, stamp] or Absent]
  tick, inodes,
  cache,    \* [SessionFile -> [title, stamp, checked] or Absent]
  holder,   \* the thread that holds the cache's mutex
  scan,     \* [Scanner -> what the thread does]
  awaited,    \* the thread whose result the chat waits for
  coarse,   \* history: files edited in place twice in one tick
  during    \* history: [Scanner -> the titles that files had since its scan began]

lvars == <<disk, tick, inodes, cache, holder, scan, awaited, coarse, during>>

Absent == [title |-> "absent"]
NoScanner == "none"
Idle == [phase |-> "idle"]

Titles(files) == [f \in SessionFile |-> IF files[f] = Absent THEN {} ELSE {files[f].title}]

SessionListInit ==
  /\ disk \in [SessionFile -> {Absent} \cup {[title |-> t, stamp |-> <<0, 0>>] : t \in Title}]
  /\ tick = 1 /\ inodes = 0
  /\ cache = [f \in SessionFile |-> Absent] /\ holder = NoScanner
  /\ scan = [w \in Scanner |-> Idle] /\ awaited = NoScanner
  /\ coarse = {} /\ during = [w \in Scanner |-> Titles(disk)]

-----------------------------------------------------------------------------
(* The files.  A stamp is an inode and the tick of the last change.        *)

\* Mutant: the stamp without the inode.
Stamp_Times(inode, at) == <<0, at>>

\* Stamp::of
Stamp(inode, at) == <<inode, at>>

Changes(f, title, inode) ==
  /\ disk' = [disk EXCEPT ![f] = [title |-> title, stamp |-> Stamp(inode, tick)]]
  /\ during' = [w \in Scanner |-> [during[w] EXCEPT ![f] = @ \cup {title}]]
  /\ UNCHANGED <<tick, cache, holder, scan, awaited>>

\* A save renames a new file over the old one.
Replace(f, title) == /\ inodes < MaxInode /\ inodes' = inodes + 1
                     /\ Changes(f, title, inodes + 1) /\ UNCHANGED coarse

\* Anything else may write into the file.
WriteInto(f, title) ==
  /\ disk[f] # Absent /\ title # disk[f].title
  /\ Changes(f, title, disk[f].stamp[1])
  /\ coarse' = IF disk[f].stamp[2] = tick THEN coarse \cup {f} ELSE coarse
  /\ UNCHANGED inodes

RemoveFile(f) ==
  /\ disk[f] # Absent /\ disk' = [disk EXCEPT ![f] = Absent]
  /\ UNCHANGED <<tick, inodes, cache, holder, scan, awaited, coarse, during>>

Tick == /\ tick < MaxTick /\ tick' = tick + 1
        /\ UNCHANGED <<disk, inodes, cache, holder, scan, awaited, coarse, during>>

-----------------------------------------------------------------------------
(* One scan.                                                               *)

\* Scan::start
StartScan(w) ==
  /\ awaited = NoScanner /\ scan[w] = Idle
  /\ awaited' = w
  /\ scan' = [scan EXCEPT ![w] = [phase |-> "waits"]]
  /\ during' = [during EXCEPT ![w] = Titles(disk)]
  /\ UNCHANGED <<disk, tick, inodes, cache, holder, coarse>>

LockCache(w) ==
  /\ scan[w].phase = "waits" /\ holder = NoScanner
  /\ holder' = w
  /\ scan' = [scan EXCEPT ![w] = [phase |-> "scans", left |-> {f \in SessionFile : disk[f] # Absent},
                                  seen |-> {}, listed |-> {}, file |-> Absent]]
  /\ UNCHANGED <<disk, tick, inodes, cache, awaited, coarse, during>>

\* Mutant: entries are used whatever the stamp.
Usable_Any(f) == cache[f] # Absent /\ tick - cache[f].checked < MaxAge

Usable(f) == /\ cache[f] # Absent /\ cache[f].stamp = disk[f].stamp
             /\ tick - cache[f].checked < MaxAge

Scans(w) == scan[w].phase = "scans"
Lists(w, f, title) == scan' = [scan EXCEPT ![w].listed = @ \cup {<<f, title>>}, ![w].file = Absent,
                                           ![w].left = @ \ {f}, ![w].seen = @ \cup {f}]

\* list_cancelled(), for the next entry of the directory.
StatFile(w, f) ==
  /\ Scans(w) /\ awaited = w /\ scan[w].file = Absent /\ f \in scan[w].left
  /\ disk[f] # Absent
  /\ IF Usable(f) THEN Lists(w, f, cache[f].title)
     ELSE scan' = [scan EXCEPT ![w].file = [title |-> "unread", name |-> f, stamp |-> disk[f].stamp]]
  /\ UNCHANGED <<disk, tick, inodes, cache, holder, awaited, coarse, during>>

\* inspect()
Inspect(w) ==
  /\ Scans(w) /\ scan[w].file # Absent /\ scan[w].file.title = "unread"
  /\ disk[scan[w].file.name] # Absent
  /\ scan' = [scan EXCEPT ![w].file.title = disk[scan[w].file.name].title]
  /\ UNCHANGED <<disk, tick, inodes, cache, holder, awaited, coarse, during>>

\* A file that changed under the scan is listed but not kept.
KeepEntry(w) ==
  /\ Scans(w) /\ scan[w].file \notin {Absent} /\ scan[w].file.title \in Title
  /\ LET read == scan[w].file
         same == disk[read.name] # Absent /\ disk[read.name].stamp = read.stamp
     IN  /\ cache' = [cache EXCEPT ![read.name] =
                        IF same THEN [title |-> read.title, stamp |-> read.stamp, checked |-> tick]
                        ELSE Absent]
         /\ Lists(w, read.name, read.title)
  /\ UNCHANGED <<disk, tick, inodes, holder, awaited, coarse, during>>

Release(w) == holder' = NoScanner /\ UNCHANGED <<disk, tick, inodes, awaited, coarse, during>>

\* Entries of files that are gone are dropped; a result that nobody waits for is not sent.
FinishScan(w) ==
  /\ Scans(w) /\ scan[w].left = {} /\ scan[w].file = Absent
  /\ cache' = [f \in SessionFile |-> IF f \in scan[w].seen THEN cache[f] ELSE Absent]
  /\ scan' = [scan EXCEPT ![w] = IF awaited = w THEN [phase |-> "sent", listed |-> scan[w].listed]
                                 ELSE Idle]
  /\ Release(w)

\* The scan was cancelled, or a file went away between two of its steps.
StopScan(w) ==
  /\ Scans(w)
  /\ awaited # w \/ \E f \in SessionFile : /\ disk[f] = Absent
                                         /\ IF scan[w].file = Absent THEN f \in scan[w].left
                                            ELSE scan[w].file.title = "unread" /\ scan[w].file.name = f
  /\ scan' = [scan EXCEPT ![w] = IF awaited = w THEN [phase |-> "sent", listed |-> {}] ELSE Idle]
  /\ UNCHANGED cache /\ Release(w)

\* The chat takes the result, or Esc drops the scan.
TakeResult ==
  /\ awaited # NoScanner /\ scan[awaited].phase = "sent"
  /\ scan' = [scan EXCEPT ![awaited] = Idle] /\ awaited' = NoScanner
  /\ UNCHANGED <<disk, tick, inodes, cache, holder, coarse, during>>

DropScan ==
  /\ awaited # NoScanner /\ scan[awaited].phase # "sent" /\ awaited' = NoScanner
  /\ UNCHANGED <<disk, tick, inodes, cache, holder, scan, coarse, during>>

SessionListNext ==
  \/ \E f \in SessionFile : RemoveFile(f) \/ \E t \in Title : Replace(f, t) \/ WriteInto(f, t)
  \/ Tick \/ TakeResult \/ DropScan
  \/ \E w \in Scanner : \/ StartScan(w) \/ LockCache(w) \/ Inspect(w) \/ KeepEntry(w)
                        \/ FinishScan(w) \/ StopScan(w)
                        \/ \E f \in SessionFile : StatFile(w, f)

-----------------------------------------------------------------------------
(* Every title that is listed was the file's while the scan ran, however   *)
(* old the entry it comes from, unless the file was written into twice in  *)
(* one tick of the clock (sessions.rs:63: equal-size edits, replacements   *)
(* and restored times must not silently reuse an old title).               *)
ListedTrue ==
  \A w \in Scanner : scan[w].phase = "sent" =>
    \A entry \in scan[w].listed : entry[1] \in coarse \/ entry[2] \in during[w][entry[1]]
=============================================================================
