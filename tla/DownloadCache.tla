--------------------------- MODULE DownloadCache ----------------------------
(***************************************************************************)
(* The Download calls of the server (cmd/server/server_download.go), the   *)
(* queue of download tasks behind them (cmd/server/task_list.go) and the   *)
(* cache of downloaded files they share: files on disk and rows of a       *)
(* SQLite table (internal/persistency/downloaded_file.go and               *)
(* internal/database/downloaded_files.go).                                 *)
(*                                                                         *)
(* A call looks its URL up in the cache and, unless it is there, queues a  *)
(* task; one runner executes the tasks in order.  After a successful task  *)
(* the call adds the file to the cache and cleans the cache up.  The calls *)
(* run concurrently and no lock covers a file and its row: each access to  *)
(* the disk and each SQL statement is one step.                            *)
(*                                                                         *)
(* A file gets a fresh name and at most one row, so a row is identified by *)
(* the name of its file.  A task is taken and ends, if it ever does;       *)
(* DistributedDownload has what comes in between.                          *)
(***************************************************************************)
EXTENDS Integers, Sequences, FiniteSets, Functions

CONSTANTS
  Handlers,       \* the goroutines of concurrent Download calls
  Urls,
  Sums,           \* checksums of contents
  NoSum,          \* the empty checksum of a request
  Sizes,          \* sizes of contents
  MaxRequests,    \* bound: Download calls in a behaviour
  MaxClock,       \* bound: the clock of the last_used column
  MaxLife, ToleranceSize, MaxSize,  \* the parameters of Cleanup
  StoreMayFail,   \* whether SQL statements and the cache's moves may fail
  MoveMayFail,    \* whether the task's own move of its file may fail
  MayCrash,       \* whether the server may crash and restart
  Nothing         \* the value of a local that has none

ASSUME CleanupAssumption ==
  /\ MaxRequests \in Nat /\ MaxClock \in Nat /\ MaxLife \in Nat
  /\ ToleranceSize \in Nat /\ MaxSize \in Nat /\ ToleranceSize <= MaxSize
  /\ Sizes \subseteq Nat \ {0}
  /\ NoSum \notin Sums
  /\ StoreMayFail \in BOOLEAN /\ MoveMayFail \in BOOLEAN /\ MayCrash \in BOOLEAN

FileIds == 0..(MaxRequests - 1)
EmptyFile == [size |-> 0, sum |-> NoSum]
Contents == [size : Sizes, sum : Sums] \cup {EmptyFile}
Rows == [url : Urls, size : Sizes \cup {0}, sum : Sums \cup {NoSum}, lastUsed : 0..MaxClock]

VARIABLES
  disk,      \* content of each file in the cache directory
  db,        \* row of each file that has one
  nextFile,  \* the next fresh file name
  clock,
  requests,  \* Download calls so far
  queue,     \* tasks waiting for the runner, named by their calls
  pc,        \* where each call is
  req,       \* its URL and checksum
  content,   \* the downloaded file it adds
  target,    \* the file it found or is about to remove
  listed,    \* Cleanup: rows read and not dealt with
  unsized,   \* Cleanup: files whose size is still to be asked
  total      \* Cleanup: totalSize

store == <<disk, db, nextFile>>
locals == <<req, content, target, listed, unsized, total>>
vars == <<store, clock, requests, queue, pc, locals>>

NoRows == [f \in {} |-> Nothing]

Every(v) == [h \in Handlers |-> v]

Init ==
  /\ disk = NoRows
  /\ db = NoRows
  /\ nextFile = 0
  /\ clock = 0
  /\ requests = 0
  /\ queue = << >>
  /\ pc = Every("idle")
  /\ req = Every(Nothing)
  /\ content = Every(Nothing)
  /\ target = Every(Nothing)
  /\ listed = Every(NoRows)
  /\ unsized = Every({})
  /\ total = Every(0)

-----------------------------------------------------------------------------
Go(h, p) == pc' = [pc EXCEPT ![h] = p]

\* The call returns; its locals are gone.
Return(h) ==
  /\ Go(h, "idle")
  /\ req' = [req EXCEPT ![h] = Nothing]
  /\ content' = [content EXCEPT ![h] = Nothing]
  /\ target' = [target EXCEPT ![h] = Nothing]
  /\ listed' = [listed EXCEPT ![h] = NoRows]
  /\ unsized' = [unsized EXCEPT ![h] = {}]
  /\ total' = [total EXCEPT ![h] = 0]

\* SELECT ... WHERE original_url = ?: some row of the URL, or none.
RowsOf(url) == {f \in DOMAIN db : db[f].url = url}

\* AddDownloadedFile returns, with or without an error, and Cleanup begins;
\* nothing of the request is used any more.
BeginCleanup(h) ==
  /\ Go(h, "clean")
  /\ req' = [req EXCEPT ![h] = Nothing]
  /\ content' = [content EXCEPT ![h] = Nothing]
  /\ target' = [target EXCEPT ![h] = Nothing]
  /\ UNCHANGED <<listed, unsized, total>>

\* UPDATE ... SET last_used of the row of f: no effect without such a row, nor
\* when the statement fails, which both callers ignore.
TouchRowOf(f) ==
  \/ db' = IF f \in DOMAIN db THEN [db EXCEPT ![f].lastUsed = clock] ELSE db
  \/ StoreMayFail /\ db' = db

-----------------------------------------------------------------------------
(* The call up to the task.                                                *)

Download(h) ==
  /\ pc[h] = "idle"
  /\ requests < MaxRequests
  /\ requests' = requests + 1
  /\ \E url \in Urls, sum \in Sums \cup {NoSum} :
       req' = [req EXCEPT ![h] = [url |-> url, sum |-> sum]]
  /\ Go(h, "get")
  /\ UNCHANGED <<store, clock, queue, content, target, listed, unsized, total>>

(* A name that ends in _Mutant is a plausible slip in the definition after   *)
(* it; none is part of the specification.                                  *)

\* Whether the row of f is what the call asks for.
Matches_Mutant(h, f) == TRUE
Matches(h, f) == req[h].sum \in {NoSum, db[f].sum}

\* GetPersistedFile: a row of the URL, with the checksum if one is asked for.
GetRow(h) ==
  /\ pc[h] = "get"
  /\ \/ /\ RowsOf(req[h].url) = {} \/ StoreMayFail
        /\ Go(h, "enqueue") /\ UNCHANGED target
     \/ \E f \in RowsOf(req[h].url) :
          IF Matches(h, f)
          THEN Go(h, "stat") /\ target' = [target EXCEPT ![h] = f]
          ELSE Go(h, "enqueue") /\ UNCHANGED target
  /\ UNCHANGED <<store, clock, requests, queue, req, content, listed, unsized, total>>

\* The lookup is repeated.
StatFile_Mutant(h) ==
  /\ pc[h] = "stat"
  /\ Go(h, IF target[h] \in DOMAIN disk THEN "touch" ELSE "get")
  /\ UNCHANGED <<store, clock, requests, queue, locals>>

\* A row whose file is missing is an error, which the call treats as a miss.
StatFile(h) ==
  /\ pc[h] = "stat"
  /\ Go(h, IF target[h] \in DOMAIN disk THEN "touch" ELSE "enqueue")
  /\ UNCHANGED <<store, clock, requests, queue, locals>>

TouchRow(h) ==
  /\ pc[h] = "touch"
  /\ TouchRowOf(target[h])
  /\ Go(h, "send")
  /\ UNCHANGED <<disk, nextFile, clock, requests, queue, locals>>

\* The cached file is sent, if it is still there to be opened.
SendCached(h) ==
  /\ pc[h] = "send"
  /\ Return(h)
  /\ UNCHANGED <<store, clock, requests, queue>>

AddTask(h) ==
  /\ pc[h] = "enqueue"
  /\ queue' = Append(queue, h)
  /\ Go(h, "waiting")
  /\ UNCHANGED <<store, clock, requests, locals>>

\* The runner, when it is through with the last task, takes the next one.
TakeTask ==
  /\ queue # << >>
  /\ \A h \in Handlers : pc[h] # "executing"
  /\ queue' = Tail(queue)
  /\ Go(Head(queue), "executing")
  /\ UNCHANGED <<store, clock, requests, locals>>

\* A task need not end.  If it does, it fails, succeeds without a file that can
\* be kept, or succeeds with a file that has the requested checksum, if any -
\* or, when its move of the file fails unseen, with an empty one.
FinishTask(h) ==
  /\ pc[h] = "executing"
  /\ \/ Return(h)
     \/ BeginCleanup(h)
     \/ /\ \E c \in Contents :
             /\ IF c = EmptyFile THEN MoveMayFail ELSE req[h].sum \in {NoSum, c.sum}
             /\ content' = [content EXCEPT ![h] = c]
        /\ Go(h, "add")
        /\ UNCHANGED <<req, target, listed, unsized, total>>
  /\ UNCHANGED <<store, clock, requests, queue>>

-----------------------------------------------------------------------------
(* AddDownloadedFile.                                                      *)

\* The row of the URL decides: none, create one; another checksum or size,
\* replace it; otherwise keep it.  A failing SELECT counts as none.
AddRow(h) ==
  /\ pc[h] = "add"
  /\ \/ /\ RowsOf(req[h].url) = {} \/ StoreMayFail
        /\ Go(h, "create") /\ UNCHANGED target
     \/ \E f \in RowsOf(req[h].url) :
          /\ target' = [target EXCEPT ![h] = f]
          /\ Go(h, IF ~Matches(h, f) \/ db[f].size # content[h].size
                   THEN "replace" ELSE "keep")
  /\ UNCHANGED <<store, clock, requests, queue, req, content, listed, unsized, total>>

KeepRow(h) ==
  /\ pc[h] = "keep"
  /\ TouchRowOf(target[h])
  /\ BeginCleanup(h)
  /\ UNCHANGED <<disk, nextFile, clock, requests, queue>>

\* The fresh file gets content c.
PutFile(c) ==
  disk' = [f \in DOMAIN disk \cup {nextFile} |-> IF f = nextFile THEN c ELSE disk[f]]

\* The row is inserted although the move failed.
CreateFile_Mutant(h) ==
  /\ pc[h] = "create"
  /\ nextFile' = nextFile + 1
  /\ PutFile(content[h]) \/ (StoreMayFail /\ PutFile(EmptyFile))
  /\ target' = [target EXCEPT ![h] = nextFile]
  /\ Go(h, "insert")
  /\ UNCHANGED <<db, clock, requests, queue, req, content, listed, unsized, total>>

\* The file is moved to a fresh name in the cache directory.  If the fresh
\* file cannot be made nothing happens; if the move fails it stays, empty.
CreateFile(h) ==
  /\ pc[h] = "create"
  /\ nextFile' = nextFile + 1
  /\ \/ /\ PutFile(content[h])
        /\ target' = [target EXCEPT ![h] = nextFile]
        /\ Go(h, "insert")
        /\ UNCHANGED <<req, content, listed, unsized, total>>
     \/ StoreMayFail /\ (PutFile(EmptyFile) \/ UNCHANGED disk) /\ BeginCleanup(h)
  /\ UNCHANGED <<db, clock, requests, queue>>

InsertRow(h) ==
  LET f == target[h]
      row == [url |-> req[h].url, size |-> content[h].size, sum |-> req[h].sum,
              lastUsed |-> clock]
  IN  /\ pc[h] = "insert"
      /\ \/ db' = [g \in DOMAIN db \cup {f} |-> IF g = f THEN row ELSE db[g]]
         \/ StoreMayFail /\ db' = db
      /\ BeginCleanup(h)
      /\ UNCHANGED <<disk, nextFile, clock, requests, queue>>

-----------------------------------------------------------------------------
(* Cleanup.                                                                *)

ListRows(h) ==
  /\ pc[h] = "clean"
  /\ \/ /\ listed' = [listed EXCEPT ![h] = db]
        /\ unsized' = [unsized EXCEPT ![h] = DOMAIN db]
        /\ Go(h, "size")
        /\ UNCHANGED <<req, content, target, total>>
     \/ StoreMayFail /\ Return(h)
  /\ UNCHANGED <<store, clock, requests, queue>>

\* The size of a file, if it can be asked for.
SizeOnDisk_Mutant(f) == IF f \in DOMAIN disk THEN disk[f].size ELSE -1
SizeOnDisk(f) == IF f \in DOMAIN disk THEN disk[f].size ELSE 0

\* The sizes on disk are added up; a missing file is skipped.
SizeFile(h) ==
  /\ pc[h] = "size"
  /\ IF unsized[h] = {}
     THEN Go(h, "phase1") /\ UNCHANGED <<unsized, total>>
     ELSE /\ \E f \in unsized[h] :
               /\ unsized' = [unsized EXCEPT ![h] = @ \ {f}]
               /\ total' = [total EXCEPT ![h] = @ + SizeOnDisk(f)]
          /\ UNCHANGED pc
  /\ UNCHANGED <<store, clock, requests, queue, req, content, target, listed>>

\* The files least recently used, by what was read at the start.
Oldest(h) ==
  {f \in DOMAIN listed[h] :
     \A g \in DOMAIN listed[h] : listed[h][f].lastUsed <= listed[h][g].lastUsed}

\* Only the row will be removed.
RemoveFile_Mutant(h, f, next, onError) ==
  /\ target' = [target EXCEPT ![h] = f]
  /\ Go(h, next)
  /\ UNCHANGED <<disk, req, content, listed, unsized, total>>

\* A missing file is no error: the row is deleted, the size subtracted.
RemoveFile_Tolerant_Mutant(h, f, next, onError) ==
  /\ disk' = Restrict(disk, DOMAIN disk \ {f})
  /\ target' = [target EXCEPT ![h] = f]
  /\ Go(h, next)
  /\ UNCHANGED <<req, content, listed, unsized, total>>

\* RemoveFileAndDbEntry, first half: a missing file is an error.
RemoveFile(h, f, next, onError) ==
  IF f \in DOMAIN disk
  THEN /\ disk' = Restrict(disk, DOMAIN disk \ {f})
       /\ target' = [target EXCEPT ![h] = f]
       /\ Go(h, next)
       /\ UNCHANGED <<req, content, listed, unsized, total>>
  ELSE onError /\ UNCHANGED disk

\* The conditions of the two phases.
TooLarge_Mutant(h) == total[h] > MaxSize + 1
TooLarge(h) == total[h] > MaxSize

Unused(h, f) == clock - listed[h][f].lastUsed >= MaxLife

\* First phase: while the total exceeds MaxSize the oldest file goes.
Phase1(h) ==
  /\ pc[h] = "phase1"
  /\ IF TooLarge(h) /\ DOMAIN listed[h] # {}
     THEN \E f \in Oldest(h) : RemoveFile(h, f, "row1", Return(h))
     ELSE Go(h, "phase2") /\ UNCHANGED <<disk, locals>>
  /\ UNCHANGED <<db, nextFile, clock, requests, queue>>

\* Second phase: while the total exceeds ToleranceSize the oldest file goes
\* if it was not used for MaxLife.
Phase2(h) ==
  /\ pc[h] = "phase2"
  /\ IF total[h] > ToleranceSize /\ DOMAIN listed[h] # {}
     THEN \E f \in Oldest(h) :
            IF Unused(h, f)
            THEN RemoveFile(h, f, "row2", Return(h))
            ELSE Return(h) /\ UNCHANGED disk
     ELSE Return(h) /\ UNCHANGED disk
  /\ UNCHANGED <<db, nextFile, clock, requests, queue>>

\* DELETE ... WHERE id = ?
WithoutRow_Mutant(f) == db
WithoutRow(f) == Restrict(db, DOMAIN db \ {f})

\* RemoveFileAndDbEntry, second half, and the rest of the loop body.
DeleteListedRow(h) ==
  /\ pc[h] \in {"row1", "row2"}
  /\ \/ /\ db' = WithoutRow(target[h])
        /\ total' = [total EXCEPT ![h] = @ - listed[h][target[h]].size]
        /\ listed' = [listed EXCEPT ![h] = Restrict(@, DOMAIN @ \ {target[h]})]
        /\ target' = [target EXCEPT ![h] = Nothing]
        /\ Go(h, IF pc[h] = "row1" THEN "phase1" ELSE "phase2")
        /\ UNCHANGED <<req, content, unsized>>
     \/ StoreMayFail /\ db' = db /\ Return(h)
  /\ UNCHANGED <<disk, nextFile, clock, requests, queue>>

\* AddDownloadedFile replaces an entry the same way.
ReplaceFile(h) ==
  /\ pc[h] = "replace"
  /\ RemoveFile(h, target[h], "row0", BeginCleanup(h))
  /\ UNCHANGED <<db, nextFile, clock, requests, queue>>

DeleteReplacedRow(h) ==
  /\ pc[h] = "row0"
  /\ \/ /\ db' = WithoutRow(target[h])
        /\ target' = [target EXCEPT ![h] = Nothing]
        /\ Go(h, "create")
        /\ UNCHANGED <<req, content, listed, unsized, total>>
     \/ StoreMayFail /\ db' = db /\ BeginCleanup(h)
  /\ UNCHANGED <<disk, nextFile, clock, requests, queue>>

-----------------------------------------------------------------------------
Tick ==
  /\ clock < MaxClock
  /\ clock' = clock + 1
  /\ UNCHANGED <<store, requests, queue, pc, locals>>

\* The server process dies and is started again: calls, tasks and queue are
\* gone, files and rows are found as they were left.
CrashAndRestart ==
  /\ MayCrash
  /\ queue' = << >>
  /\ pc' = Every("idle")
  /\ req' = Every(Nothing)
  /\ content' = Every(Nothing)
  /\ target' = Every(Nothing)
  /\ listed' = Every(NoRows)
  /\ unsized' = Every({})
  /\ total' = Every(0)
  /\ UNCHANGED <<store, clock, requests>>

HandlerStep(h) ==
  \/ GetRow(h) \/ StatFile(h) \/ TouchRow(h) \/ SendCached(h) \/ AddTask(h)
  \/ AddRow(h) \/ KeepRow(h) \/ ReplaceFile(h) \/ DeleteReplacedRow(h)
  \/ CreateFile(h) \/ InsertRow(h)
  \/ ListRows(h) \/ SizeFile(h) \/ Phase1(h) \/ Phase2(h) \/ DeleteListedRow(h)

Next ==
  \/ \E h \in Handlers : Download(h) \/ HandlerStep(h) \/ FinishTask(h)
  \/ TakeTask
  \/ Tick
  \/ CrashAndRestart

Spec == Init /\ [][Next]_vars

\* Calls that can go on do, and a runner that is free takes the next task.
\* Nothing is assumed of FinishTask.
FairSpec == Spec /\ WF_vars(TakeTask) /\ \A h \in Handlers : WF_vars(HandlerStep(h))

-----------------------------------------------------------------------------
PCs == {"idle", "get", "stat", "touch", "send", "enqueue", "waiting", "executing", "add",
        "keep", "replace", "row0", "create", "insert", "clean", "size", "phase1", "row1",
        "phase2", "row2"}

TypeOK ==
  /\ DOMAIN disk \subseteq FileIds /\ \A f \in DOMAIN disk : disk[f] \in Contents
  /\ DOMAIN db \subseteq FileIds /\ \A f \in DOMAIN db : db[f] \in Rows
  /\ nextFile \in 0..requests
  /\ clock \in 0..MaxClock
  /\ requests \in 0..MaxRequests
  /\ Range(queue) \subseteq Handlers
  /\ pc \in [Handlers -> PCs]
  /\ req \in [Handlers -> [url : Urls, sum : Sums \cup {NoSum}] \cup {Nothing}]
  /\ content \in [Handlers -> Contents \cup {Nothing}]
  /\ target \in [Handlers -> FileIds \cup {Nothing}]
  /\ \A h \in Handlers : unsized[h] \subseteq DOMAIN listed[h]
  /\ total \in [Handlers -> Nat]

\* A call that asked for a checksum is sent a cached file with that checksum,
\* although the file is not read again and rows are replaced concurrently.
ServedIsRequested ==
  \A h \in Handlers :
    pc[h] = "send" /\ req[h].sum # NoSum /\ target[h] \in DOMAIN disk =>
      disk[target[h]].sum = req[h].sum

\* Every row has its file, except while the call that removed the file is
\* about to delete the row: concurrent replacing and cleaning leaves no row
\* that can be neither served nor removed.
NoDanglingRow ==
  \A f \in DOMAIN db \ DOMAIN disk :
    \E h \in Handlers : pc[h] \in {"row0", "row1", "row2"} /\ target[h] = f

\* Every file has its row, except while its row is about to be inserted: no
\* file takes space that Cleanup does not see.
NoOrphanFile ==
  \A f \in DOMAIN disk \ DOMAIN db :
    \E h \in Handlers : pc[h] = "insert" /\ target[h] = f

\* The units of space that the files in S take, by the sizes in g.
Units(g, S) == UNION {{f} \X (1..g[f].size) : f \in S}

\* The sizes Cleanup adds up: of the files that have a row.
CachedSize == Cardinality(Units(disk, DOMAIN disk \cap DOMAIN db))

\* Every call that adds a file cleans up after it: when no call is running,
\* the cache is no larger than MaxSize (Cleanup, first criterion).
SizeBoundedAtRest ==
  (\A h \in Handlers : pc[h] = "idle") => CachedSize <= MaxSize

\* A Cleanup that has begun to remove files does not return while the cache is
\* larger than MaxSize, whatever earlier calls have left behind.
CleanupReduces ==
  [][\A h \in Handlers :
       pc[h] \in {"phase1", "phase2"} /\ pc'[h] = "idle" => CachedSize' <= MaxSize]_vars

\* After the first phase, the files that a Cleanup knows of and that are still
\* there take no more than MaxSize: whatever other calls removed, replaced or
\* added since it read the rows and asked for the sizes, its total is not too
\* small to stop at (Cleanup, first criterion, with stale data).
KnownFilesFit ==
  \A h \in Handlers :
    pc[h] \in {"phase2", "row2"} =>
      Cardinality(Units(disk, DOMAIN disk \cap DOMAIN listed[h])) <= MaxSize

\* Every Download call returns, unless it waits for a task, its own or one in
\* front of it, that never ends (executeTask: an empty file, a client that has
\* gone, no agents, a silent agent).  Nothing else holds a call up, and a call
\* that finds its file in the cache returns even then.
DownloadReturns ==
  \A h \in Handlers :
    \/ pc[h] # "idle" ~> pc[h] = "idle"
    \/ \E g \in Handlers :
         <>[](pc[g] = "executing" /\ pc[h] \in {"waiting", "executing"})
=============================================================================
