------------------------- MODULE DownloadCacheProofs -------------------------
(***************************************************************************)
(* Proofs about DownloadCache, for any number of concurrent calls, any     *)
(* sizes and any bounds.  A theorem that holds only without certain        *)
(* faults, or for one call at a time, says so in its hypotheses.           *)
(***************************************************************************)
EXTENDS DownloadCache, FiniteSetTheorems, SequenceTheorems, TLAPS

Requests == [url : Urls, sum : Sums \cup {NoSum}]
\* The file names given out so far.
Made == 0..(nextFile - 1)

Adding == {"add", "keep", "replace", "row0", "create", "insert"}
Early == {"get", "stat", "touch", "send", "enqueue", "waiting",
          "executing", "add", "keep", "replace", "row0", "create"}
Targeting == {"stat", "touch", "send", "keep", "replace", "row0", "insert"}
Removing == {"row1", "row2"}

-----------------------------------------------------------------------------
(* What a call has in hand, where it is.                                   *)

HandlerOK(h) ==
  /\ pc[h] \in Early \cup {"insert"} => req[h] \in Requests
  /\ pc[h] \in Adding => content[h] \in Contents
  /\ pc[h] \in Targeting => target[h] \in Made
  /\ target[h] \in Made \cup {Nothing}
  /\ pc[h] \in Removing => target[h] \in DOMAIN listed[h]
  /\ DOMAIN listed[h] \subseteq Made
  /\ \A f \in DOMAIN listed[h] : listed[h][f] \in Rows
  /\ unsized[h] \subseteq DOMAIN listed[h]
  /\ pc[h] \in {"phase1", "phase2"} \cup Removing => unsized[h] = {}

StoreOK ==
  /\ nextFile \in Nat /\ clock \in 0..MaxClock /\ requests \in 0..MaxRequests
  /\ DOMAIN disk \subseteq Made /\ \A f \in DOMAIN disk : disk[f] \in Contents
  /\ DOMAIN db \subseteq Made /\ \A f \in DOMAIN db : db[f] \in Rows

LocalsOK ==
  /\ pc \in [Handlers -> PCs]
  /\ req \in [Handlers -> Requests \cup {Nothing}]
  /\ content \in [Handlers -> Contents \cup {Nothing}]
  /\ DOMAIN target = Handlers
  /\ target = [h \in Handlers |-> target[h]]
  /\ DOMAIN listed = Handlers /\ DOMAIN unsized = Handlers
  /\ total \in [Handlers -> Int]

CallsOK == StoreOK /\ LocalsOK /\ \A h \in Handlers : HandlerOK(h)

\* A call waits for its task once.
QueueOK ==
  /\ queue \in Seq(Handlers)
  /\ \A i \in 1..Len(queue) : pc[queue[i]] = "waiting"
  /\ \A i, j \in 1..Len(queue) : queue[i] = queue[j] => i = j

\* The locals of no other call change.
OnlyAt(h) ==
  \A g \in Handlers \ {h} :
    /\ pc'[g] = pc[g] /\ req'[g] = req[g] /\ content'[g] = content[g]
    /\ target'[g] = target[g] /\ listed'[g] = listed[g]
    /\ unsized'[g] = unsized[g] /\ total'[g] = total[g]

LEMMA ContentsType ==
  ASSUME NEW c \in Contents
  PROVE  c.size \in Sizes \cup {0} /\ c.size \in Nat /\ c.sum \in Sums \cup {NoSum}
<1>1. Sizes \subseteq Nat
  BY CleanupAssumption
<1>2. CASE c \in [size : Sizes, sum : Sums]
  BY <1>1, <1>2
<1>3. CASE c = EmptyFile
  BY <1>3 DEF EmptyFile
<1> QED BY <1>2, <1>3 DEF Contents

LEMMA RowsType == ASSUME NEW r \in Rows PROVE r.size \in Nat
<1>1. Sizes \subseteq Nat /\ r.size \in Sizes \cup {0}
  BY CleanupAssumption DEF Rows
<1>2. CASE r.size \in Sizes
  BY <1>1, <1>2
<1>3. CASE r.size = 0
  BY <1>3
<1> QED BY <1>1, <1>2, <1>3

LEMMA MadeGrows ==
  ASSUME nextFile \in Nat, nextFile' \in {nextFile, nextFile + 1}
  PROVE  Made \subseteq Made' /\ nextFile' \in Nat
<1>1. \A m, n \in Nat : m <= n => 0..(m - 1) \subseteq 0..(n - 1)
  OBVIOUS
<1>2. nextFile' \in Nat /\ nextFile <= nextFile'
  OBVIOUS
<1> QED BY <1>1, <1>2 DEF Made

LEMMA CallsInit == Init => CallsOK /\ QueueOK
  BY CleanupAssumption
  DEF Init, CallsOK, StoreOK, LocalsOK, HandlerOK, QueueOK, Every, NoRows, PCs, Made, Early,
      Adding, Targeting, Removing

\* The others' part of CallsOK.
LEMMA CallsStep ==
  ASSUME CallsOK, NEW h \in Handlers, OnlyAt(h), StoreOK', LocalsOK', HandlerOK(h)',
         nextFile' \in {nextFile, nextFile + 1}
  PROVE  CallsOK'
<1>1. ASSUME NEW g \in Handlers, g # h PROVE HandlerOK(g)'
  <2>1. HandlerOK(g) /\ nextFile \in Nat
    BY DEF CallsOK, StoreOK
  <2>2. Made \subseteq Made'
    BY <2>1, MadeGrows
  <2>3. /\ pc'[g] = pc[g] /\ req'[g] = req[g] /\ content'[g] = content[g]
        /\ target'[g] = target[g] /\ listed'[g] = listed[g] /\ unsized'[g] = unsized[g]
    BY <1>1 DEF OnlyAt
  <2> QED BY <2>1, <2>2, <2>3 DEF HandlerOK
<1> QED BY <1>1 DEF CallsOK

\* The ways to go on.
LEMMA GoOnly ==
  ASSUME LocalsOK, NEW h \in Handlers, NEW p \in PCs, Go(h, p)
  PROVE  /\ pc' \in [Handlers -> PCs] /\ pc'[h] = p
         /\ \A g \in Handlers \ {h} : pc'[g] = pc[g]
  BY DEF LocalsOK, Go

LEMMA ReturnOnly ==
  ASSUME CallsOK, NEW h \in Handlers, Return(h), nextFile' \in {nextFile, nextFile + 1}
  PROVE  LocalsOK' /\ OnlyAt(h) /\ HandlerOK(h)' /\ pc'[h] = "idle"
<1>1. "idle" \in PCs
  BY DEF PCs
<1>2. /\ pc' \in [Handlers -> PCs] /\ pc'[h] = "idle"
      /\ \A g \in Handlers \ {h} : pc'[g] = pc[g]
  BY <1>1, GoOnly DEF Return, CallsOK
<1>3. OnlyAt(h)
  BY <1>2 DEF LocalsOK, OnlyAt, Return, CallsOK
<1>4. LocalsOK'
  <2>1. /\ req' \in [Handlers -> Requests \cup {Nothing}]
        /\ content' \in [Handlers -> Contents \cup {Nothing}]
    BY DEF LocalsOK, Return, CallsOK
  <2>2. DOMAIN target' = Handlers /\ target' = [g \in Handlers |-> target'[g]]
    BY DEF LocalsOK, Return, CallsOK
  <2>3. DOMAIN listed' = Handlers /\ DOMAIN unsized' = Handlers /\ total' \in [Handlers -> Int]
    BY DEF LocalsOK, Return, CallsOK
  <2> QED BY <1>2, <2>1, <2>2, <2>3 DEF LocalsOK
<1>5. target'[h] = Nothing /\ listed'[h] = NoRows /\ unsized'[h] = {}
  BY DEF LocalsOK, Return, CallsOK
<1>6. HandlerOK(h)'
  BY <1>2, <1>5 DEF HandlerOK, Early, Adding, Targeting, Removing, NoRows
<1> QED BY <1>2, <1>3, <1>4, <1>6

LEMMA BeginOnly ==
  ASSUME CallsOK, NEW h \in Handlers, BeginCleanup(h), nextFile' \in {nextFile, nextFile + 1}
  PROVE  LocalsOK' /\ OnlyAt(h) /\ HandlerOK(h)' /\ pc'[h] = "clean"
<1>1. "clean" \in PCs
  BY DEF PCs
<1>2. /\ pc' \in [Handlers -> PCs] /\ pc'[h] = "clean"
      /\ \A g \in Handlers \ {h} : pc'[g] = pc[g]
  BY <1>1, GoOnly DEF BeginCleanup, CallsOK
<1>3. LocalsOK' /\ OnlyAt(h)
  BY <1>2 DEF LocalsOK, OnlyAt, BeginCleanup, CallsOK
<1>4. target'[h] = Nothing /\ listed'[h] = listed[h] /\ unsized'[h] = unsized[h]
  BY DEF LocalsOK, BeginCleanup, CallsOK
<1>5. Made \subseteq Made'
  BY MadeGrows DEF CallsOK, StoreOK
<1>6. HandlerOK(h)'
  BY <1>2, <1>4, <1>5 DEF HandlerOK, Early, Adding, Targeting, Removing, CallsOK
<1> QED BY <1>2, <1>3, <1>6

LEMMA GoStep ==
  ASSUME CallsOK, NEW h \in Handlers, NEW p \in PCs, Go(h, p),
         UNCHANGED <<req, content, listed, unsized, total>>,
         UNCHANGED target \/ (\E f : target' = [target EXCEPT ![h] = f])
  PROVE  LocalsOK' /\ OnlyAt(h) /\ pc'[h] = p
<1>1. /\ pc' \in [Handlers -> PCs] /\ pc'[h] = p
      /\ \A g \in Handlers \ {h} : pc'[g] = pc[g]
  BY GoOnly DEF CallsOK
<1>2. /\ DOMAIN target' = Handlers /\ target' = [g \in Handlers |-> target'[g]]
      /\ \A g \in Handlers \ {h} : target'[g] = target[g]
  <2>1. DOMAIN target = Handlers /\ target = [g \in Handlers |-> target[g]]
    BY DEF CallsOK, LocalsOK
  <2>2. CASE UNCHANGED target
    BY <2>1, <2>2
  <2>3. ASSUME NEW f, target' = [target EXCEPT ![h] = f]
        PROVE  /\ DOMAIN target' = Handlers /\ target' = [g \in Handlers |-> target'[g]]
               /\ \A g \in Handlers \ {h} : target'[g] = target[g]
    BY <2>1, <2>3
  <2> QED BY <2>2, <2>3
<1> QED BY <1>1, <1>2 DEF LocalsOK, OnlyAt, CallsOK

\* Where a call has nothing in hand but what it had.
LEMMA GoOn ==
  ASSUME CallsOK, NEW h \in Handlers, NEW p \in PCs, Go(h, p), UNCHANGED locals,
         nextFile' \in {nextFile, nextFile + 1},
         p \in Early => pc[h] \in Early,
         p # "insert",
         p \in Adding => pc[h] \in Adding,
         p \in Targeting => pc[h] \in Targeting,
         p \notin Removing,
         p \in {"phase1", "phase2"} => unsized[h] = {}
  PROVE  LocalsOK' /\ OnlyAt(h) /\ HandlerOK(h)' /\ pc'[h] = p
<1>1. LocalsOK' /\ OnlyAt(h) /\ pc'[h] = p
  BY GoStep DEF locals
<1>2. Made \subseteq Made' /\ HandlerOK(h)
  BY MadeGrows DEF CallsOK, StoreOK
<1> QED BY <1>1, <1>2 DEF locals, HandlerOK

\* The steps that change nothing that is shared.
LEMMA LookupCalls ==
  ASSUME CallsOK, NEW h \in Handlers,
         GetRow(h) \/ StatFile(h) \/ SendCached(h) \/ AddTask(h) \/ AddRow(h)
  PROVE  OnlyAt(h) /\ CallsOK'
<1>1. UNCHANGED <<store, clock, requests>>
  BY DEF GetRow, StatFile, SendCached, AddTask, AddRow
<1>2. StoreOK' /\ nextFile' = nextFile
  BY <1>1 DEF store, CallsOK, StoreOK, Made
<1>3. ASSUME NEW p \in PCs, Go(h, p), UNCHANGED <<req, content, listed, unsized, total>>,
             NEW f \in DOMAIN db, target' = [target EXCEPT ![h] = f],
             p \in {"stat", "replace", "keep"},
             pc[h] \in {"get", "add"}, p # "stat" => pc[h] = "add"
      PROVE  OnlyAt(h) /\ LocalsOK' /\ HandlerOK(h)'
  <2>1. LocalsOK' /\ OnlyAt(h) /\ pc'[h] = p
    BY <1>3, GoStep
  <2>2. target'[h] = f /\ f \in Made /\ Made' = Made /\ HandlerOK(h)
    BY <1>1, <1>3 DEF CallsOK, LocalsOK, StoreOK, Made, store
  <2> QED BY <1>3, <2>1, <2>2 DEF HandlerOK, Early, Adding, Targeting, Removing
<1>4. CASE GetRow(h)
  <2>1. CASE Go(h, "enqueue") /\ UNCHANGED locals
    <3>1. OnlyAt(h) /\ LocalsOK' /\ HandlerOK(h)'
      BY <1>2, <1>4, <2>1, GoOn DEF GetRow, Early, Adding, Targeting, Removing, PCs
    <3> QED BY <1>2, <3>1, CallsStep
  <2>2. ASSUME NEW f \in RowsOf(req[h].url), Go(h, "stat"), target' = [target EXCEPT ![h] = f]
        PROVE  OnlyAt(h) /\ CallsOK'
    <3>1. f \in DOMAIN db
      BY DEF RowsOf
    <3>2. OnlyAt(h) /\ LocalsOK' /\ HandlerOK(h)'
      BY <1>3, <1>4, <2>2, <3>1 DEF GetRow, PCs
    <3> QED BY <1>2, <3>2, CallsStep
  <2> QED BY <1>4, <2>1, <2>2 DEF GetRow, locals
<1>5. CASE StatFile(h)
  <2>1. PICK p \in {"touch", "enqueue"} : Go(h, p)
    BY <1>5 DEF StatFile
  <2>2. OnlyAt(h) /\ LocalsOK' /\ HandlerOK(h)'
    BY <1>2, <1>5, <2>1, GoOn DEF StatFile, Early, Adding, Targeting, Removing, PCs
  <2> QED BY <1>2, <2>2, CallsStep
<1>6. CASE SendCached(h)
  <2>1. OnlyAt(h) /\ LocalsOK' /\ HandlerOK(h)'
    BY <1>2, <1>6, ReturnOnly DEF SendCached
  <2> QED BY <1>2, <2>1, CallsStep
<1>7. CASE AddTask(h)
  <2>1. OnlyAt(h) /\ LocalsOK' /\ HandlerOK(h)'
    BY <1>2, <1>7, GoOn DEF AddTask, Early, Adding, Targeting, Removing, PCs
  <2> QED BY <1>2, <2>1, CallsStep
<1>8. CASE AddRow(h)
  <2>1. CASE Go(h, "create") /\ UNCHANGED locals
    <3>1. OnlyAt(h) /\ LocalsOK' /\ HandlerOK(h)'
      BY <1>2, <1>8, <2>1, GoOn DEF AddRow, Early, Adding, Targeting, Removing, PCs
    <3> QED BY <1>2, <3>1, CallsStep
  <2>2. ASSUME NEW f \in RowsOf(req[h].url), target' = [target EXCEPT ![h] = f],
               NEW p \in {"replace", "keep"}, Go(h, p)
        PROVE  OnlyAt(h) /\ CallsOK'
    <3>1. f \in DOMAIN db
      BY DEF RowsOf
    <3>2. OnlyAt(h) /\ LocalsOK' /\ HandlerOK(h)'
      BY <1>3, <1>8, <2>2, <3>1 DEF AddRow, PCs
    <3> QED BY <1>2, <3>2, CallsStep
  <2> QED BY <1>8, <2>1, <2>2 DEF AddRow, locals
<1> QED BY <1>4, <1>5, <1>6, <1>7, <1>8

LEMMA TouchStore ==
  ASSUME StoreOK, NEW f, TouchRowOf(f), UNCHANGED <<disk, nextFile, clock, requests>>
  PROVE  /\ StoreOK' /\ DOMAIN db' = DOMAIN db
         /\ \A g \in DOMAIN db : db'[g].url = db[g].url /\ db'[g].size = db[g].size
                                 /\ db'[g].sum = db[g].sum
<1>1. CASE db' = db
  BY <1>1 DEF StoreOK, Made
<1>2. CASE f \in DOMAIN db /\ db' = [db EXCEPT ![f].lastUsed = clock]
  <2>1. DOMAIN db' = DOMAIN db
    BY <1>2
  <2>2. ASSUME NEW g \in DOMAIN db
        PROVE  /\ db'[g] \in Rows /\ db'[g].url = db[g].url /\ db'[g].size = db[g].size
               /\ db'[g].sum = db[g].sum
    <3>1. db[g] \in Rows
      BY DEF StoreOK
    <3>2. CASE g = f
      <4>1. db'[g] = [db[g] EXCEPT !.lastUsed = clock]
        BY <1>2, <3>2
      <4> QED BY <3>1, <4>1 DEF Rows, StoreOK
    <3>3. CASE g # f
      BY <1>2, <3>1, <3>3
    <3> QED BY <3>2, <3>3
  <2> QED BY <2>1, <2>2 DEF StoreOK, Made
<1> QED BY <1>1, <1>2 DEF TouchRowOf

LEMMA TouchCalls ==
  ASSUME CallsOK, NEW h \in Handlers, TouchRow(h) \/ KeepRow(h)
  PROVE  OnlyAt(h) /\ CallsOK'
<1>1. StoreOK' /\ nextFile' = nextFile
  BY TouchStore DEF TouchRow, KeepRow, CallsOK
<1>2. CASE TouchRow(h)
  <2>1. OnlyAt(h) /\ LocalsOK' /\ HandlerOK(h)'
    BY <1>1, <1>2, GoOn DEF TouchRow, Early, Adding, Targeting, Removing, PCs
  <2> QED BY <1>1, <2>1, CallsStep
<1>3. CASE KeepRow(h)
  <2>1. OnlyAt(h) /\ LocalsOK' /\ HandlerOK(h)'
    BY <1>1, <1>3, BeginOnly DEF KeepRow
  <2> QED BY <1>1, <2>1, CallsStep
<1> QED BY <1>2, <1>3

\* A file is made.
LEMMA PutStore ==
  ASSUME StoreOK, NEW c \in Contents, PutFile(c), nextFile' = nextFile + 1,
         UNCHANGED <<db, clock, requests>>
  PROVE  /\ StoreOK' /\ nextFile \notin DOMAIN disk
         /\ DOMAIN disk' = DOMAIN disk \cup {nextFile} /\ disk'[nextFile] = c
         /\ \A f \in DOMAIN disk : disk'[f] = disk[f]
<1>1. nextFile \in Nat /\ nextFile \notin Made
  BY DEF StoreOK, Made
<1>2. Made \subseteq Made' /\ nextFile' \in Nat
  BY <1>1, MadeGrows
<1>3. nextFile \in Made'
  BY <1>1 DEF Made
<1>4. /\ nextFile \notin DOMAIN disk
      /\ DOMAIN disk' = DOMAIN disk \cup {nextFile} /\ disk'[nextFile] = c
      /\ \A f \in DOMAIN disk : disk'[f] = disk[f]
  BY <1>1 DEF StoreOK, PutFile
<1> QED BY <1>2, <1>3, <1>4 DEF StoreOK

LEMMA CreateCalls ==
  ASSUME CallsOK, NEW h \in Handlers, CreateFile(h)
  PROVE  OnlyAt(h) /\ CallsOK'
<1>1. /\ StoreOK /\ pc[h] = "create" /\ nextFile' = nextFile + 1
      /\ UNCHANGED <<db, clock, requests>>
      /\ content[h] \in Contents /\ EmptyFile \in Contents /\ HandlerOK(h)
  BY DEF CreateFile, CallsOK, HandlerOK, Adding, Contents
<1>2. CASE PutFile(content[h]) /\ target' = [target EXCEPT ![h] = nextFile]
           /\ Go(h, "insert") /\ UNCHANGED <<req, content, listed, unsized, total>>
  <2>1. StoreOK'
    BY <1>1, <1>2, PutStore
  <2>2. LocalsOK' /\ OnlyAt(h) /\ pc'[h] = "insert"
    BY <1>2, GoStep DEF PCs
  <2>3. target'[h] = nextFile /\ nextFile \in Made' /\ Made \subseteq Made'
    BY <1>1, <1>2, MadeGrows DEF CallsOK, LocalsOK, StoreOK, Made
  <2>4. HandlerOK(h)'
    BY <1>1, <1>2, <2>2, <2>3 DEF HandlerOK, Early, Adding, Targeting, Removing
  <2> QED BY <1>1, <2>1, <2>2, <2>4, CallsStep
<1>3. CASE (PutFile(EmptyFile) \/ UNCHANGED disk) /\ BeginCleanup(h)
  <2>1. ASSUME PutFile(EmptyFile) PROVE StoreOK'
    BY <1>1, <2>1, PutStore
  <2>2. ASSUME UNCHANGED disk PROVE StoreOK'
    BY <1>1, <2>2, MadeGrows DEF StoreOK
  <2>3. StoreOK'
    BY <1>3, <2>1, <2>2
  <2>4. LocalsOK' /\ OnlyAt(h) /\ HandlerOK(h)'
    BY <1>1, <1>3, BeginOnly
  <2> QED BY <1>1, <2>3, <2>4, CallsStep
<1> QED BY <1>2, <1>3 DEF CreateFile

\* A row is inserted.
LEMMA InsertStore ==
  ASSUME CallsOK, NEW h \in Handlers, InsertRow(h)
  PROVE  /\ StoreOK' /\ UNCHANGED <<disk, nextFile, clock, requests>>
         /\ \/ db' = db
            \/ /\ DOMAIN db' = DOMAIN db \cup {target[h]}
               /\ db'[target[h]].size = content[h].size /\ db'[target[h]].sum = req[h].sum
               /\ \A f \in DOMAIN db \ {target[h]} : db'[f] = db[f]
<1> DEFINE f == target[h]
           row == [url |-> req[h].url, size |-> content[h].size, sum |-> req[h].sum,
                   lastUsed |-> clock]
<1>1. /\ StoreOK /\ pc[h] = "insert" /\ UNCHANGED <<disk, nextFile, clock, requests>>
      /\ db' = db \/ db' = [g \in DOMAIN db \cup {f} |-> IF g = f THEN row ELSE db[g]]
  BY DEF InsertRow, CallsOK
<1>2. /\ req[h] \in Requests /\ content[h] \in Contents /\ f \in Made
      /\ clock \in 0..MaxClock
  BY <1>1 DEF CallsOK, HandlerOK, Adding, Targeting, StoreOK
<1>3. content[h].size \in Sizes \cup {0}
  BY <1>2, ContentsType
<1>4. row \in Rows
  BY <1>2, <1>3 DEF Rows, Requests
<1>5. row.size = content[h].size /\ row.sum = req[h].sum
  OBVIOUS
<1> HIDE DEF row
<1>6. CASE db' = [g \in DOMAIN db \cup {f} |-> IF g = f THEN row ELSE db[g]]
  <2>1. DOMAIN db' = DOMAIN db \cup {f} /\ db'[f] = row /\ \A g \in DOMAIN db \ {f} : db'[g] = db[g]
    BY <1>6
  <2>2. StoreOK'
    BY <1>1, <1>2, <1>4, <2>1 DEF StoreOK, Made
  <2> QED BY <1>1, <1>5, <2>1, <2>2
<1>7. CASE db' = db
  BY <1>1, <1>7 DEF StoreOK, Made
<1> QED BY <1>1, <1>6, <1>7

LEMMA InsertCalls ==
  ASSUME CallsOK, NEW h \in Handlers, InsertRow(h)
  PROVE  OnlyAt(h) /\ CallsOK'
<1>1. StoreOK' /\ nextFile' = nextFile
  BY InsertStore
<1>2. LocalsOK' /\ OnlyAt(h) /\ HandlerOK(h)'
  BY <1>1, BeginOnly DEF InsertRow
<1> QED BY <1>1, <1>2, CallsStep

-----------------------------------------------------------------------------
(* Cleanup.                                                                *)

LEMMA ListCalls ==
  ASSUME CallsOK, NEW h \in Handlers, ListRows(h)
  PROVE  OnlyAt(h) /\ CallsOK'
<1>1. UNCHANGED <<store, clock, requests>> /\ pc[h] = "clean"
  BY DEF ListRows
<1>2. StoreOK /\ StoreOK' /\ nextFile' = nextFile /\ Made' = Made
  BY <1>1 DEF store, CallsOK, StoreOK, Made
<1>3. CASE Return(h)
  BY <1>2, <1>3, ReturnOnly, CallsStep
<1>4. CASE /\ listed' = [listed EXCEPT ![h] = db]
           /\ unsized' = [unsized EXCEPT ![h] = DOMAIN db]
           /\ Go(h, "size") /\ UNCHANGED <<req, content, target, total>>
  <2>1. /\ pc' \in [Handlers -> PCs] /\ pc'[h] = "size"
        /\ \A g \in Handlers \ {h} : pc'[g] = pc[g]
    BY <1>4, GoOnly DEF CallsOK, PCs
  <2>2. /\ DOMAIN listed' = Handlers /\ DOMAIN unsized' = Handlers
        /\ listed'[h] = db /\ unsized'[h] = DOMAIN db
        /\ \A g \in Handlers \ {h} : listed'[g] = listed[g] /\ unsized'[g] = unsized[g]
    BY <1>4 DEF CallsOK, LocalsOK
  <2>3. LocalsOK' /\ OnlyAt(h)
    BY <1>4, <2>1, <2>2 DEF CallsOK, LocalsOK, OnlyAt
  <2>4. HandlerOK(h)'
    BY <1>2, <1>4, <2>1, <2>2 DEF HandlerOK, StoreOK, CallsOK, Early, Adding, Targeting, Removing
  <2> QED BY <1>2, <2>3, <2>4, CallsStep
<1> QED BY <1>3, <1>4 DEF ListRows

LEMMA SizeType == ASSUME StoreOK, NEW f PROVE SizeOnDisk(f) \in Nat
  BY ContentsType DEF StoreOK, SizeOnDisk

LEMMA SizeCalls ==
  ASSUME CallsOK, NEW h \in Handlers, SizeFile(h)
  PROVE  OnlyAt(h) /\ CallsOK'
<1>1. /\ UNCHANGED <<store, clock, requests>> /\ pc[h] = "size"
      /\ UNCHANGED <<req, content, target, listed>>
  BY DEF SizeFile
<1>2. StoreOK /\ StoreOK' /\ nextFile' = nextFile /\ Made' = Made /\ HandlerOK(h)
  BY <1>1 DEF store, CallsOK, StoreOK, Made
<1>3. CASE unsized[h] = {} /\ Go(h, "phase1") /\ UNCHANGED <<unsized, total>>
  <2>1. LocalsOK' /\ OnlyAt(h) /\ HandlerOK(h)'
    BY <1>1, <1>2, <1>3, GoOn DEF locals, Early, Adding, Targeting, Removing, PCs
  <2> QED BY <1>2, <2>1, CallsStep
<1>4. ASSUME NEW f \in unsized[h],
             unsized' = [unsized EXCEPT ![h] = @ \ {f}],
             total' = [total EXCEPT ![h] = @ + SizeOnDisk(f)], UNCHANGED pc
      PROVE  OnlyAt(h) /\ CallsOK'
  <2>1. DOMAIN unsized' = Handlers /\ unsized'[h] = unsized[h] \ {f}
        /\ \A g \in Handlers \ {h} : unsized'[g] = unsized[g]
    BY <1>4 DEF CallsOK, LocalsOK
  <2>2. total' \in [Handlers -> Int] /\ \A g \in Handlers \ {h} : total'[g] = total[g]
    BY <1>2, <1>4, SizeType DEF CallsOK, LocalsOK
  <2>3. LocalsOK' /\ OnlyAt(h)
    BY <1>1, <1>4, <2>1, <2>2 DEF CallsOK, LocalsOK, OnlyAt
  <2>4. HandlerOK(h)'
    BY <1>1, <1>2, <1>4, <2>1 DEF HandlerOK
  <2> QED BY <1>2, <2>3, <2>4, CallsStep
<1> QED BY <1>3, <1>4 DEF SizeFile

\* A file is removed, or is missing.
LEMMA RemoveStore ==
  ASSUME StoreOK, NEW f, disk' = Restrict(disk, DOMAIN disk \ {f}),
         UNCHANGED <<db, nextFile, clock, requests>>
  PROVE  /\ StoreOK' /\ DOMAIN disk' = DOMAIN disk \ {f}
         /\ \A g \in DOMAIN disk' : disk'[g] = disk[g]
  BY DEF StoreOK, Restrict, Made

\* The steps that may remove a file, and then have its row to delete.
LEMMA RemoveCalls ==
  ASSUME CallsOK, NEW h \in Handlers, Phase1(h) \/ Phase2(h) \/ ReplaceFile(h)
  PROVE  OnlyAt(h) /\ CallsOK'
<1>1. UNCHANGED <<db, nextFile, clock, requests>> /\ StoreOK /\ HandlerOK(h)
  BY DEF Phase1, Phase2, ReplaceFile, CallsOK
<1>2. nextFile' = nextFile /\ Made' = Made
  BY <1>1 DEF Made
<1>3. ASSUME UNCHANGED disk PROVE StoreOK'
  BY <1>1, <1>3 DEF StoreOK, Made
<1>4. ASSUME Return(h) \/ BeginCleanup(h), UNCHANGED disk PROVE OnlyAt(h) /\ CallsOK'
  <2>1. LocalsOK' /\ OnlyAt(h) /\ HandlerOK(h)'
    BY <1>2, <1>4, ReturnOnly, BeginOnly
  <2> QED BY <1>2, <1>3, <1>4, <2>1, CallsStep
<1>5. ASSUME NEW f, NEW p \in {"row0", "row1", "row2"}, Go(h, p),
             target' = [target EXCEPT ![h] = f], disk' = Restrict(disk, DOMAIN disk \ {f}),
             UNCHANGED <<req, content, listed, unsized, total>>,
             p = "row0" => pc[h] = "replace" /\ f \in Made,
             p # "row0" => f \in DOMAIN listed[h] /\ pc[h] \in {"phase1", "phase2"}
      PROVE  OnlyAt(h) /\ CallsOK'
  <2>1. StoreOK'
    BY <1>1, <1>5, RemoveStore
  <2>2. LocalsOK' /\ OnlyAt(h) /\ pc'[h] = p
    BY <1>5, GoStep DEF PCs
  <2>3. target'[h] = f /\ f \in Made
    BY <1>1, <1>5 DEF CallsOK, LocalsOK, HandlerOK
  <2>4. HandlerOK(h)'
    BY <1>1, <1>2, <1>5, <2>2, <2>3 DEF HandlerOK, Early, Adding, Targeting, Removing
  <2> QED BY <1>2, <2>1, <2>2, <2>4, CallsStep
<1>6. CASE Phase1(h)
  <2>1. CASE Go(h, "phase2") /\ UNCHANGED <<disk, locals>>
    <3>1. pc[h] = "phase1" /\ unsized[h] = {}
      BY <1>1, <1>6 DEF Phase1, HandlerOK
    <3>2. LocalsOK' /\ OnlyAt(h) /\ HandlerOK(h)'
      BY <1>2, <2>1, <3>1, GoOn DEF Early, Adding, Targeting, Removing, PCs
    <3> QED BY <1>2, <1>3, <2>1, <3>2, CallsStep
  <2>2. ASSUME NEW f \in Oldest(h), RemoveFile(h, f, "row1", Return(h))
        PROVE  OnlyAt(h) /\ CallsOK'
    <3>1. f \in DOMAIN listed[h]
      BY DEF Oldest
    <3> QED BY <1>4, <1>5, <1>6, <2>2, <3>1 DEF RemoveFile, Phase1
  <2> QED BY <1>6, <2>1, <2>2 DEF Phase1
<1>7. CASE Phase2(h)
  <2>1. ASSUME NEW f \in Oldest(h), RemoveFile(h, f, "row2", Return(h))
        PROVE  OnlyAt(h) /\ CallsOK'
    <3>1. f \in DOMAIN listed[h]
      BY DEF Oldest
    <3> QED BY <1>4, <1>5, <1>7, <2>1, <3>1 DEF RemoveFile, Phase2
  <2> QED BY <1>4, <1>7, <2>1 DEF Phase2
<1>8. CASE ReplaceFile(h)
  <2>1. target[h] \in Made
    BY <1>1, <1>8 DEF ReplaceFile, HandlerOK, Targeting
  <2> QED BY <1>4, <1>5, <1>8, <2>1 DEF RemoveFile, ReplaceFile
<1> QED BY <1>6, <1>7, <1>8

LEMMA DeleteStore ==
  ASSUME StoreOK, NEW f, db' = WithoutRow(f), UNCHANGED <<disk, nextFile, clock, requests>>
  PROVE  /\ StoreOK' /\ DOMAIN db' = DOMAIN db \ {f}
         /\ \A g \in DOMAIN db' : db'[g] = db[g]
  BY DEF StoreOK, WithoutRow, Restrict, Made

LEMMA DeleteCalls ==
  ASSUME CallsOK, NEW h \in Handlers, DeleteListedRow(h) \/ DeleteReplacedRow(h)
  PROVE  OnlyAt(h) /\ CallsOK'
<1>1. UNCHANGED <<disk, nextFile, clock, requests>> /\ StoreOK /\ HandlerOK(h)
  BY DEF DeleteListedRow, DeleteReplacedRow, CallsOK
<1>2. nextFile' = nextFile /\ Made' = Made
  BY <1>1 DEF Made
<1>3. StoreOK'
  <2>1. CASE db' = db
    BY <1>1, <2>1 DEF StoreOK, Made
  <2>2. CASE db' = WithoutRow(target[h])
    BY <1>1, <2>2, DeleteStore
  <2> QED BY <2>1, <2>2 DEF DeleteListedRow, DeleteReplacedRow
<1>4. CASE Return(h) \/ BeginCleanup(h)
  <2>1. LocalsOK' /\ OnlyAt(h) /\ HandlerOK(h)'
    BY <1>2, <1>4, ReturnOnly, BeginOnly
  <2> QED BY <1>2, <1>3, <2>1, CallsStep
<1>5. CASE /\ pc[h] \in Removing
           /\ total' = [total EXCEPT ![h] = @ - listed[h][target[h]].size]
           /\ listed' = [listed EXCEPT ![h] = Restrict(@, DOMAIN @ \ {target[h]})]
           /\ target' = [target EXCEPT ![h] = Nothing]
           /\ Go(h, IF pc[h] = "row1" THEN "phase1" ELSE "phase2")
           /\ UNCHANGED <<req, content, unsized>>
  <2>1. PICK p \in {"phase1", "phase2"} : Go(h, p)
    BY <1>5
  <2>2. /\ pc' \in [Handlers -> PCs] /\ pc'[h] = p
        /\ \A g \in Handlers \ {h} : pc'[g] = pc[g]
    BY <2>1, GoOnly DEF CallsOK, PCs
  <2>3. /\ DOMAIN listed' = Handlers
        /\ listed'[h] = Restrict(listed[h], DOMAIN listed[h] \ {target[h]})
        /\ \A g \in Handlers \ {h} : listed'[g] = listed[g]
    BY <1>5 DEF CallsOK, LocalsOK
  <2>4. /\ DOMAIN target' = Handlers /\ target' = [g \in Handlers |-> target'[g]]
        /\ target'[h] = Nothing /\ \A g \in Handlers \ {h} : target'[g] = target[g]
    BY <1>5 DEF CallsOK, LocalsOK
  <2>5. target[h] \in DOMAIN listed[h] /\ listed[h][target[h]] \in Rows /\ unsized[h] = {}
    BY <1>1, <1>5 DEF HandlerOK
  <2>6. total' \in [Handlers -> Int] /\ \A g \in Handlers \ {h} : total'[g] = total[g]
    BY <1>5, <2>5, RowsType DEF CallsOK, LocalsOK
  <2>7. LocalsOK' /\ OnlyAt(h)
    BY <1>5, <2>2, <2>3, <2>4, <2>6 DEF CallsOK, LocalsOK, OnlyAt
  <2>8. HandlerOK(h)'
    BY <1>1, <1>2, <1>5, <2>2, <2>3, <2>4, <2>5
       DEF HandlerOK, Restrict, Early, Adding, Targeting, Removing
  <2> QED BY <1>2, <1>3, <2>7, <2>8, CallsStep
<1>6. CASE /\ pc[h] = "row0" /\ target' = [target EXCEPT ![h] = Nothing]
           /\ Go(h, "create") /\ UNCHANGED <<req, content, listed, unsized, total>>
  <2>1. LocalsOK' /\ OnlyAt(h) /\ pc'[h] = "create"
    BY <1>6, GoStep DEF PCs
  <2>2. target'[h] = Nothing
    BY <1>6 DEF CallsOK, LocalsOK
  <2>3. HandlerOK(h)'
    BY <1>1, <1>2, <1>6, <2>1, <2>2 DEF HandlerOK, Early, Adding, Targeting, Removing
  <2> QED BY <1>2, <1>3, <2>1, <2>3, CallsStep
<1> QED BY <1>4, <1>5, <1>6 DEF DeleteListedRow, DeleteReplacedRow, Removing

LEMMA HandlerCalls ==
  ASSUME CallsOK, NEW h \in Handlers, HandlerStep(h)
  PROVE  OnlyAt(h) /\ CallsOK'
  BY LookupCalls, TouchCalls, CreateCalls, InsertCalls, ListCalls, SizeCalls, RemoveCalls,
     DeleteCalls
  DEF HandlerStep

LEMMA DownloadCalls ==
  ASSUME CallsOK, NEW h \in Handlers, Download(h)
  PROVE  OnlyAt(h) /\ CallsOK'
<1>1. /\ UNCHANGED <<store, clock, content, target, listed, unsized, total>>
      /\ pc[h] = "idle" /\ Go(h, "get") /\ requests < MaxRequests /\ requests' = requests + 1
  BY DEF Download
<1>2. StoreOK' /\ nextFile' = nextFile /\ Made' = Made
  BY <1>1, CleanupAssumption DEF store, CallsOK, StoreOK, Made
<1>3. PICK r \in Requests : req' = [req EXCEPT ![h] = r]
  BY DEF Download, Requests
<1>4. /\ pc' \in [Handlers -> PCs] /\ pc'[h] = "get"
      /\ \A g \in Handlers \ {h} : pc'[g] = pc[g]
  BY <1>1, GoOnly DEF CallsOK, PCs
<1>5. /\ req' \in [Handlers -> Requests \cup {Nothing}] /\ req'[h] = r
      /\ \A g \in Handlers \ {h} : req'[g] = req[g]
  BY <1>3 DEF CallsOK, LocalsOK
<1>6. LocalsOK' /\ OnlyAt(h)
  BY <1>1, <1>4, <1>5 DEF CallsOK, LocalsOK, OnlyAt
<1>7. HandlerOK(h)'
  BY <1>1, <1>2, <1>4, <1>5 DEF CallsOK, HandlerOK, Early, Adding, Targeting, Removing
<1> QED BY <1>2, <1>6, <1>7, CallsStep

LEMMA HeadWaits ==
  ASSUME QueueOK, queue # <<>>
  PROVE  Head(queue) \in Handlers /\ pc[Head(queue)] = "waiting"
<1>1. Len(queue) \in Nat /\ Len(queue) >= 1 /\ Head(queue) = queue[1] /\ queue[1] \in Handlers
  BY DEF QueueOK
<1> QED BY <1>1 DEF QueueOK

\* The runner takes the task of h.
Taken(h) ==
  /\ pc[h] = "waiting" /\ Go(h, "executing")
  /\ UNCHANGED <<store, clock, requests, locals>>

LEMMA TakenCalls ==
  ASSUME CallsOK, NEW h \in Handlers, Taken(h)
  PROVE  OnlyAt(h) /\ CallsOK'
<1>1. StoreOK' /\ nextFile' = nextFile
  BY DEF Taken, store, CallsOK, StoreOK, Made
<1>2. OnlyAt(h) /\ LocalsOK' /\ HandlerOK(h)'
  BY <1>1, GoOn DEF Taken, Early, Adding, Targeting, Removing, PCs
<1> QED BY <1>1, <1>2, CallsStep

LEMMA FinishCalls ==
  ASSUME CallsOK, NEW h \in Handlers, FinishTask(h)
  PROVE  OnlyAt(h) /\ CallsOK'
<1>1. UNCHANGED <<store, clock, requests>> /\ pc[h] = "executing"
  BY DEF FinishTask
<1>2. StoreOK' /\ nextFile' = nextFile /\ Made' = Made
  BY <1>1 DEF store, CallsOK, StoreOK, Made
<1>3. CASE Return(h) \/ BeginCleanup(h)
  <2>1. LocalsOK' /\ OnlyAt(h) /\ HandlerOK(h)'
    BY <1>2, <1>3, ReturnOnly, BeginOnly
  <2> QED BY <1>2, <2>1, CallsStep
<1>4. ASSUME NEW c \in Contents, content' = [content EXCEPT ![h] = c], Go(h, "add"),
             UNCHANGED <<req, target, listed, unsized, total>>
      PROVE  OnlyAt(h) /\ CallsOK'
  <2>1. /\ pc' \in [Handlers -> PCs] /\ pc'[h] = "add"
        /\ \A g \in Handlers \ {h} : pc'[g] = pc[g]
    BY <1>4, GoOnly DEF CallsOK, PCs
  <2>2. /\ content' \in [Handlers -> Contents \cup {Nothing}] /\ content'[h] = c
        /\ \A g \in Handlers \ {h} : content'[g] = content[g]
    BY <1>4 DEF CallsOK, LocalsOK
  <2>3. LocalsOK' /\ OnlyAt(h)
    BY <1>4, <2>1, <2>2 DEF CallsOK, LocalsOK, OnlyAt
  <2>4. HandlerOK(h)'
    BY <1>1, <1>2, <1>4, <2>1, <2>2 DEF CallsOK, HandlerOK, Early, Adding, Targeting, Removing
  <2> QED BY <1>2, <2>3, <2>4, CallsStep
<1> QED BY <1>3, <1>4 DEF FinishTask

LEMMA CrashCalls == ASSUME CallsOK, CrashAndRestart PROVE CallsOK' /\ QueueOK'
<1>1. StoreOK'
  BY DEF CallsOK, StoreOK, CrashAndRestart, store, Made
<1>2. LocalsOK' /\ QueueOK'
  BY DEF CallsOK, LocalsOK, CrashAndRestart, Every, PCs, QueueOK
<1>3. ASSUME NEW h \in Handlers PROVE HandlerOK(h)'
  BY DEF CrashAndRestart, Every, HandlerOK, NoRows, Early, Adding, Targeting, Removing
<1> QED BY <1>1, <1>2, <1>3 DEF CallsOK

LEMMA OthersCalls == ASSUME CallsOK, Tick \/ UNCHANGED vars PROVE CallsOK' /\ UNCHANGED <<store, locals, pc, queue>>
<1>1. UNCHANGED <<store, locals, pc, queue>>
  BY DEF Tick, vars
<1>2. clock' \in 0..MaxClock /\ requests' \in 0..MaxRequests
  BY CleanupAssumption DEF Tick, vars, CallsOK, StoreOK
<1>3. StoreOK'
  BY <1>1, <1>2 DEF CallsOK, StoreOK, store, Made
<1>4. LocalsOK' /\ \A h \in Handlers : HandlerOK(h)'
  BY <1>1 DEF CallsOK, LocalsOK, HandlerOK, store, locals, Made
<1> QED BY <1>1, <1>3, <1>4 DEF CallsOK

LEMMA QueueKept ==
  ASSUME QueueOK, NEW h \in Handlers, OnlyAt(h), pc[h] # "waiting", UNCHANGED queue
  PROVE  QueueOK'
<1>1. \A i \in 1..Len(queue) : queue[i] \in Handlers \ {h}
  BY DEF QueueOK
<1> QED BY <1>1 DEF QueueOK, OnlyAt

LEMMA QueueAppend ==
  ASSUME QueueOK, CallsOK, NEW h \in Handlers, OnlyAt(h), AddTask(h)
  PROVE  QueueOK'
<1>1. pc[h] = "enqueue" /\ queue' = Append(queue, h) /\ queue \in Seq(Handlers) /\ Len(queue) \in Nat
  BY DEF AddTask, QueueOK
<1>2. pc'[h] = "waiting"
  BY GoOnly DEF AddTask, CallsOK, PCs
<1>3. /\ queue' \in Seq(Handlers) /\ Len(queue') = Len(queue) + 1
      /\ \A i \in 1..Len(queue) : queue'[i] = queue[i]
      /\ queue'[Len(queue) + 1] = h
  BY <1>1
<1>4. ASSUME NEW i \in 1..Len(queue) PROVE queue'[i] # h /\ pc'[queue'[i]] = "waiting"
  <2>1. queue[i] \in Handlers \ {h} /\ pc[queue[i]] = "waiting"
    BY <1>1 DEF QueueOK
  <2> QED BY <1>3, <2>1 DEF OnlyAt
<1>5. \A i \in 1..Len(queue') : i = Len(queue) + 1 \/ i \in 1..Len(queue)
  BY <1>1, <1>3
<1>6. \A i, j \in 1..Len(queue') : queue'[i] = queue'[j] => i = j
  <2> SUFFICES ASSUME NEW i \in 1..Len(queue'), NEW j \in 1..Len(queue'), queue'[i] = queue'[j]
               PROVE  i = j
    OBVIOUS
  <2>1. CASE i \in 1..Len(queue) /\ j \in 1..Len(queue)
    BY <1>3, <2>1 DEF QueueOK
  <2>2. CASE i = Len(queue) + 1 \/ j = Len(queue) + 1
    BY <1>3, <1>4, <1>5, <2>2
  <2> QED BY <1>5, <2>1, <2>2
<1> QED BY <1>2, <1>3, <1>4, <1>5, <1>6 DEF QueueOK

LEMMA QueueTail ==
  ASSUME QueueOK, NEW h \in Handlers, OnlyAt(h), queue # <<>>, h = Head(queue),
         queue' = Tail(queue)
  PROVE  QueueOK'
<1>1. /\ queue' \in Seq(Handlers) /\ Len(queue') = Len(queue) - 1 /\ Len(queue) \in Nat
      /\ \A i \in 1..Len(queue') : queue'[i] = queue[i + 1]
      /\ h = queue[1] /\ Len(queue) >= 1
  BY DEF QueueOK
<1>2. \A i \in 1..Len(queue') : i + 1 \in 1..Len(queue) /\ 1 \in 1..Len(queue) /\ i + 1 # 1
  BY <1>1
<1>3. ASSUME NEW i \in 1..Len(queue') PROVE pc'[queue'[i]] = "waiting"
  <2>1. queue[i + 1] # h /\ pc[queue[i + 1]] = "waiting" /\ queue[i + 1] \in Handlers
    BY <1>1, <1>2 DEF QueueOK
  <2> QED BY <1>1, <2>1 DEF OnlyAt
<1>4. ASSUME NEW i \in 1..Len(queue'), NEW j \in 1..Len(queue'), queue'[i] = queue'[j]
      PROVE  i = j
  <2>1. i + 1 = j + 1
    BY <1>1, <1>2, <1>4 DEF QueueOK
  <2> QED BY <1>1, <2>1
<1> QED BY <1>1, <1>3, <1>4 DEF QueueOK

\* A step of one call, those of the runner for it included.
Ran(h) == Taken(h) \/ FinishTask(h)
CallStep(h) == OnlyAt(h) /\ (Download(h) \/ HandlerStep(h) \/ Ran(h))

LEMMA Steps ==
  ASSUME CallsOK, QueueOK, [Next]_vars
  PROVE  /\ CallsOK' /\ QueueOK'
         /\ \/ \E h \in Handlers : CallStep(h)
            \/ CrashAndRestart
            \/ UNCHANGED <<store, locals, pc>> /\ (Tick \/ UNCHANGED vars)
<1>1. ASSUME NEW h \in Handlers, Download(h) \/ HandlerStep(h) \/ FinishTask(h)
      PROVE  CallsOK' /\ QueueOK' /\ CallStep(h)
  <2>1. CallsOK' /\ OnlyAt(h)
    BY <1>1, DownloadCalls, HandlerCalls, FinishCalls
  <2>2. CASE AddTask(h)
    BY <2>1, <2>2, QueueAppend DEF CallStep, HandlerStep
  <2>3. CASE ~AddTask(h)
    <3>1. pc[h] # "waiting" /\ UNCHANGED queue
      BY <1>1, <2>3
      DEF Download, FinishTask, HandlerStep, GetRow, StatFile, TouchRow, SendCached, AddRow,
          KeepRow, ReplaceFile, DeleteReplacedRow, CreateFile, InsertRow, ListRows, SizeFile,
          Phase1, Phase2, DeleteListedRow
    <3> QED BY <1>1, <2>1, <3>1, QueueKept DEF CallStep, Ran
  <2> QED BY <2>2, <2>3
<1>2. CASE TakeTask
  <2>1. PICK h \in Handlers : h = Head(queue) /\ Taken(h)
    BY <1>2, HeadWaits DEF TakeTask, Taken
  <2>2. OnlyAt(h) /\ CallsOK' /\ queue # <<>> /\ queue' = Tail(queue)
    BY <1>2, <2>1, TakenCalls DEF TakeTask
  <2> QED BY <2>1, <2>2, QueueTail DEF CallStep, Ran
<1>3. CASE Tick \/ UNCHANGED vars
  <2>1. CallsOK' /\ UNCHANGED <<store, locals, pc, queue>>
    BY <1>3, OthersCalls
  <2>2. QueueOK'
    BY <2>1 DEF QueueOK
  <2> QED BY <1>3, <2>1, <2>2
<1>4. CASE CrashAndRestart
  BY <1>4, CrashCalls
<1> QED BY <1>1, <1>2, <1>3, <1>4 DEF Next

LEMMA CallsInvariance == Spec => [](CallsOK /\ QueueOK)
  BY CallsInit, Steps, PTL DEF Spec

-----------------------------------------------------------------------------
(* Every call makes at most one file.                                      *)

Starting == {h \in Handlers : pc[h] \in Early}
NamesInv == IsFiniteSet(Starting) /\ nextFile + Cardinality(Starting) <= requests

LEMMA NamesInit == Init => NamesInv
<1> SUFFICES ASSUME Init PROVE NamesInv
  OBVIOUS
<1>1. Starting = {} /\ nextFile = 0 /\ requests = 0
  BY DEF Init, Every, Starting, Early
<1> QED BY <1>1, FS_EmptySet DEF NamesInv

LEMMA NamesFewer ==
  ASSUME NamesInv, CallsOK, Starting' \subseteq Starting, UNCHANGED <<nextFile, requests>>
  PROVE  NamesInv'
<1>1. IsFiniteSet(Starting') /\ Cardinality(Starting') <= Cardinality(Starting)
      /\ Cardinality(Starting) \in Nat /\ Cardinality(Starting') \in Nat
  BY FS_Subset, FS_CardinalityType DEF NamesInv
<1>2. nextFile \in Nat /\ requests \in Nat
  BY DEF CallsOK, StoreOK
<1> QED BY <1>1, <1>2 DEF NamesInv

\* The step of a call at the end of which it is not new.
LEMMA StartingKept ==
  ASSUME NEW h \in Handlers, OnlyAt(h), pc'[h] \in Early => pc[h] \in Early
  PROVE  Starting' \subseteq Starting
  BY DEF OnlyAt, Starting

LEMMA NamesNext ==
  ASSUME NamesInv, CallsOK, QueueOK, [Next]_vars PROVE NamesInv'
<1>1. LocalsOK /\ CallsOK'
  BY Steps DEF CallsOK
<1>2. ASSUME NEW h \in Handlers, OnlyAt(h), Download(h) PROVE NamesInv'
  <2>1. requests' = requests + 1 /\ nextFile' = nextFile /\ pc'[h] = "get" /\ pc[h] = "idle"
    BY <1>1, <1>2, GoOnly DEF Download, store, PCs
  <2>2. Starting' = Starting \cup {h} /\ h \notin Starting
    BY <1>2, <2>1 DEF OnlyAt, Starting, Early
  <2>3. IsFiniteSet(Starting') /\ Cardinality(Starting') = Cardinality(Starting) + 1
        /\ Cardinality(Starting) \in Nat
    BY <2>2, FS_AddElement, FS_CardinalityType DEF NamesInv
  <2>4. nextFile \in Nat /\ requests \in Nat
    BY DEF CallsOK, StoreOK
  <2> QED BY <2>1, <2>3, <2>4 DEF NamesInv
<1>3. ASSUME NEW h \in Handlers, OnlyAt(h), CreateFile(h) PROVE NamesInv'
  <2>1. requests' = requests /\ nextFile' = nextFile + 1 /\ pc[h] = "create"
        /\ pc'[h] \in {"insert", "clean"}
    BY <1>1, <1>3, GoOnly DEF CreateFile, BeginCleanup, PCs
  <2>2. Starting' = Starting \ {h} /\ h \in Starting
    BY <1>3, <2>1 DEF OnlyAt, Starting, Early
  <2>3. IsFiniteSet(Starting') /\ Cardinality(Starting') = Cardinality(Starting) - 1
        /\ Cardinality(Starting) \in Nat
    BY <2>2, FS_RemoveElement, FS_CardinalityType DEF NamesInv
  <2>4. nextFile \in Nat /\ requests \in Nat
    BY DEF CallsOK, StoreOK
  <2> QED BY <2>1, <2>3, <2>4 DEF NamesInv
<1>4. ASSUME NEW h \in Handlers, OnlyAt(h), HandlerStep(h), ~CreateFile(h) PROVE NamesInv'
  <2>1. UNCHANGED <<nextFile, requests>>
    BY <1>4
    DEF HandlerStep, GetRow, StatFile, TouchRow, SendCached, AddTask, AddRow, KeepRow,
        ReplaceFile, DeleteReplacedRow, InsertRow, ListRows, SizeFile, Phase1,
        Phase2, DeleteListedRow, store
  <2>2. pc'[h] \in Early => pc[h] \in Early
    <3>1. CASE GetRow(h) \/ StatFile(h) \/ TouchRow(h) \/ AddTask(h) \/ AddRow(h)
      BY <3>1 DEF GetRow, StatFile, TouchRow, AddTask, AddRow, Early
    <3>2. CASE ReplaceFile(h) \/ DeleteReplacedRow(h) \/ KeepRow(h) \/ SendCached(h)
      BY <1>1, <3>2 DEF ReplaceFile, DeleteReplacedRow, KeepRow, SendCached, Return, Go, Early,
         LocalsOK
    <3>3. CASE InsertRow(h) \/ ListRows(h) \/ SizeFile(h)
      BY <1>1, <3>3 DEF InsertRow, ListRows, SizeFile, Return, BeginCleanup, Go, Early, LocalsOK
    <3>4. CASE Phase1(h) \/ Phase2(h) \/ DeleteListedRow(h)
      BY <1>1, <3>4 DEF Phase1, Phase2, DeleteListedRow, RemoveFile, Return, Go, Early, LocalsOK
    <3> QED BY <1>4, <3>1, <3>2, <3>3, <3>4 DEF HandlerStep
  <2> QED BY <1>4, <2>1, <2>2, StartingKept, NamesFewer
<1>5. ASSUME NEW h \in Handlers, OnlyAt(h), Ran(h) PROVE NamesInv'
  <2>1. UNCHANGED <<nextFile, requests>> /\ pc[h] \in Early
    BY <1>5 DEF Ran, Taken, FinishTask, store, Early
  <2> QED BY <1>5, <2>1, StartingKept, NamesFewer
<1>6. CASE CrashAndRestart
  <2>1. Starting' = {} /\ UNCHANGED <<nextFile, requests>>
    BY <1>6 DEF CrashAndRestart, Every, Starting, Early, store
  <2> QED BY <2>1, NamesFewer
<1>7. CASE UNCHANGED <<store, locals, pc>> /\ (Tick \/ UNCHANGED vars)
  <2>1. Starting' = Starting /\ UNCHANGED <<nextFile, requests>>
    BY <1>7 DEF Starting, store, Tick, vars
  <2> QED BY <2>1, NamesFewer
<1> QED BY <1>2, <1>3, <1>4, <1>5, <1>6, <1>7, Steps DEF CallStep

-----------------------------------------------------------------------------
(* Units of space.                                                         *)

LEMMA UpTo == ASSUME NEW n \in Nat PROVE IsFiniteSet(1..n) /\ Cardinality(1..n) = n
<1>1. IsFiniteSet(1..n) /\ Cardinality(1..n) = IF 1 > n THEN 0 ELSE n - 1 + 1
  BY FS_Interval
<1> QED BY <1>1

LEMMA UnitsFinite ==
  ASSUME NEW S, IsFiniteSet(S), NEW g, \A f \in S : g[f].size \in Nat
  PROVE  IsFiniteSet(Units(g, S)) /\ Cardinality(Units(g, S)) \in Nat
<1> DEFINE F == [f \in S |-> {f} \X (1..g[f].size)]
           T == {{f} \X (1..g[f].size) : f \in S}
<1>1. F \in Surjection(S, T)
  BY DEF Surjection
<1>2. IsFiniteSet(T)
  BY <1>1, FS_Surjection
<1>3. ASSUME NEW f \in S PROVE IsFiniteSet({f} \X (1..g[f].size))
  BY FS_Singleton, UpTo, FS_Product
<1>4. IsFiniteSet(UNION T)
  BY <1>2, <1>3, FS_UNION
<1> QED BY <1>4, FS_CardinalityType DEF Units

LEMMA UnitsSubset ==
  ASSUME NEW S, IsFiniteSet(S), NEW g, \A f \in S : g[f].size \in Nat, NEW R \in SUBSET S
  PROVE  IsFiniteSet(R) /\ Cardinality(Units(g, R)) <= Cardinality(Units(g, S))
<1>1. Units(g, R) \subseteq Units(g, S)
  BY DEF Units
<1> QED BY <1>1, UnitsFinite, FS_Subset

LEMMA UnitsSame ==
  ASSUME NEW S, NEW g, NEW k, \A f \in S : g[f].size = k[f].size
  PROVE  Units(g, S) = Units(k, S)
  BY DEF Units

LEMMA UnitsEmpty == ASSUME NEW g PROVE Cardinality(Units(g, {})) = 0
  BY FS_EmptySet DEF Units

LEMMA UnitsAdd ==
  ASSUME NEW S, IsFiniteSet(S), NEW g, NEW f, f \notin S,
         \A e \in S \cup {f} : g[e].size \in Nat
  PROVE  Cardinality(Units(g, S \cup {f})) = Cardinality(Units(g, S)) + g[f].size
<1> DEFINE U == {f} \X (1..g[f].size)
<1>1. IsFiniteSet(U) /\ Cardinality(U) = g[f].size
  <2>1. IsFiniteSet({f}) /\ Cardinality({f}) = 1
    BY FS_Singleton
  <2>2. IsFiniteSet(1..g[f].size) /\ Cardinality(1..g[f].size) = g[f].size
    BY UpTo
  <2>3. IsFiniteSet(U) /\ Cardinality(U) = 1 * g[f].size
    BY <2>1, <2>2, FS_Product
  <2> QED BY <2>3
<1>2. IsFiniteSet(Units(g, S)) /\ Cardinality(Units(g, S)) \in Nat
  BY UnitsFinite
<1>3. Units(g, S \cup {f}) = Units(g, S) \cup U
  BY DEF Units
<1>4. Units(g, S) \cap U = {}
  BY DEF Units
<1> HIDE DEF U
<1>5. Cardinality(Units(g, S) \cup U)
        = Cardinality(Units(g, S)) + Cardinality(U) - Cardinality(Units(g, S) \cap U)
  BY <1>1, <1>2, FS_Union
<1>6. Cardinality(Units(g, S) \cap U) = 0 /\ g[f].size \in Nat
  BY <1>4, FS_EmptySet
<1>7. Cardinality(Units(g, S \cup {f})) = Cardinality(Units(g, S)) + g[f].size - 0
  BY <1>1, <1>3, <1>5, <1>6
<1>8. \A m, n \in Nat : m + n - 0 = m + n
  OBVIOUS
<1> QED BY <1>2, <1>6, <1>7, <1>8

LEMMA UnitsRemove ==
  ASSUME NEW S, IsFiniteSet(S), NEW g, NEW f \in S, \A e \in S : g[e].size \in Nat
  PROVE  Cardinality(Units(g, S)) = Cardinality(Units(g, S \ {f})) + g[f].size
<1>1. IsFiniteSet(S \ {f}) /\ f \notin S \ {f} /\ (S \ {f}) \cup {f} = S
  BY FS_RemoveElement
<1>2. \A e \in (S \ {f}) \cup {f} : g[e].size \in Nat
  OBVIOUS
<1>3. Cardinality(Units(g, (S \ {f}) \cup {f})) = Cardinality(Units(g, S \ {f})) + g[f].size
  BY <1>1, <1>2, UnitsAdd
<1> QED BY <1>1, <1>3

LEMMA NamesFinite == ASSUME StoreOK, NEW S \in SUBSET Made PROVE IsFiniteSet(S)
<1>1. nextFile - 1 \in Int /\ 0 \in Int
  BY DEF StoreOK
<1>2. IsFiniteSet(Made)
  BY <1>1, FS_Interval DEF Made
<1> QED BY <1>2, FS_Subset

-----------------------------------------------------------------------------
(* Sizes: rows tell those of their files, and no total is too small.       *)

SizeInv ==
  /\ \A f \in DOMAIN disk \cap DOMAIN db : db[f].size = disk[f].size
  /\ \A h \in Handlers :
       pc[h] = "insert" /\ target[h] \in DOMAIN disk => disk[target[h]] = content[h]
  /\ \A h \in Handlers : \A f \in DOMAIN listed[h] \cap DOMAIN disk :
       listed[h][f].size = disk[f].size

\* Files are removed; a name that is given out is not used again.
DiskShrinks == \A f \in Made : f \in DOMAIN disk' => f \in DOMAIN disk /\ disk'[f] = disk[f]

LEMMA DiskSteps ==
  ASSUME CallsOK, NEW h \in Handlers, CallStep(h)
  PROVE  /\ DiskShrinks
         /\ ~CreateFile(h) => DOMAIN disk' \subseteq DOMAIN disk
<1>1. CASE UNCHANGED disk
  BY <1>1 DEF DiskShrinks
<1>2. ASSUME NEW f, disk' = Restrict(disk, DOMAIN disk \ {f})
      PROVE  DiskShrinks /\ DOMAIN disk' \subseteq DOMAIN disk
  BY <1>2 DEF DiskShrinks, Restrict
<1>3. CASE CreateFile(h)
  <2>1. nextFile \notin Made
    BY DEF Made, CallsOK, StoreOK
  <2>2. ASSUME NEW c, PutFile(c) PROVE DiskShrinks
    BY <2>1, <2>2 DEF PutFile, DiskShrinks
  <2> QED BY <1>1, <1>3, <2>2 DEF CreateFile
<1>4. CASE Phase1(h) \/ Phase2(h) \/ ReplaceFile(h)
  BY <1>1, <1>2, <1>4 DEF Phase1, Phase2, ReplaceFile, RemoveFile
<1>5. CASE Download(h) \/ Ran(h)
  BY <1>1, <1>5 DEF Download, Ran, Taken, FinishTask, store
<1>6. CASE GetRow(h) \/ StatFile(h) \/ TouchRow(h) \/ SendCached(h) \/ AddTask(h) \/ AddRow(h)
           \/ KeepRow(h) \/ DeleteReplacedRow(h) \/ InsertRow(h) \/ ListRows(h)
           \/ SizeFile(h) \/ DeleteListedRow(h)
  BY <1>1, <1>6 DEF GetRow, StatFile, TouchRow, SendCached, AddTask, AddRow, KeepRow,
     DeleteReplacedRow, InsertRow, ListRows, SizeFile, DeleteListedRow, store
<1> QED BY <1>3, <1>4, <1>5, <1>6 DEF CallStep, HandlerStep

\* Rows keep what is not about their use, and none comes but from InsertRow.
RowsShrink ==
  \A f \in DOMAIN db' : f \in DOMAIN db /\ db'[f].size = db[f].size /\ db'[f].sum = db[f].sum

LEMMA RowSteps ==
  ASSUME CallsOK, NEW h \in Handlers, CallStep(h), ~InsertRow(h)
  PROVE  RowsShrink
<1>1. CASE UNCHANGED db
  BY <1>1 DEF RowsShrink
<1>2. ASSUME NEW f, db' = WithoutRow(f) PROVE RowsShrink
  BY <1>2 DEF WithoutRow, Restrict, RowsShrink
<1>3. CASE TouchRow(h) \/ KeepRow(h)
  <2>1. ASSUME NEW f, TouchRowOf(f), UNCHANGED <<disk, nextFile, clock, requests>> PROVE RowsShrink
    BY <2>1, TouchStore DEF CallsOK, RowsShrink
  <2> QED BY <1>3, <2>1 DEF TouchRow, KeepRow
<1>4. CASE DeleteListedRow(h) \/ DeleteReplacedRow(h)
  BY <1>1, <1>2, <1>4 DEF DeleteListedRow, DeleteReplacedRow
<1>5. CASE Download(h) \/ Ran(h)
  BY <1>1, <1>5 DEF Download, Ran, Taken, FinishTask, store
<1>6. CASE GetRow(h) \/ StatFile(h) \/ SendCached(h) \/ AddTask(h) \/ AddRow(h) \/ CreateFile(h)
           \/ ReplaceFile(h) \/ ListRows(h) \/ SizeFile(h) \/ Phase1(h) \/ Phase2(h)
  BY <1>1, <1>6 DEF GetRow, StatFile, SendCached, AddTask, AddRow, CreateFile, ReplaceFile,
     ListRows, SizeFile, Phase1, Phase2, store
<1> QED BY <1>3, <1>4, <1>5, <1>6 DEF CallStep, HandlerStep

\* What Cleanup has listed, it keeps listed until it is done with it.
ListShrinks(h) ==
  \A f \in DOMAIN listed'[h] : f \in DOMAIN listed[h] /\ listed'[h][f] = listed[h][f]

LEMMA ListSteps ==
  ASSUME CallsOK, NEW h \in Handlers, CallStep(h), ~ListRows(h)
  PROVE  ListShrinks(h)
<1>1. CASE listed'[h] = listed[h]
  BY <1>1 DEF ListShrinks
<1>2. DOMAIN listed = Handlers
  BY DEF CallsOK, LocalsOK
<1>3. CASE Return(h)
  BY <1>2, <1>3 DEF Return, NoRows, ListShrinks
<1>4. CASE DeleteListedRow(h) /\ ~Return(h)
  <2>1. listed'[h] = Restrict(listed[h], DOMAIN listed[h] \ {target[h]})
    BY <1>2, <1>4 DEF DeleteListedRow
  <2> QED BY <2>1 DEF Restrict, ListShrinks
<1>5. CASE ~Return(h) /\ (Download(h) \/ Ran(h))
  BY <1>1, <1>5 DEF Download, Ran, Taken, FinishTask, BeginCleanup, locals
<1>6. CASE /\ ~Return(h)
           /\ \/ GetRow(h) \/ StatFile(h) \/ TouchRow(h) \/ SendCached(h) \/ AddTask(h)
              \/ AddRow(h) \/ KeepRow(h) \/ ReplaceFile(h) \/ DeleteReplacedRow(h)
              \/ CreateFile(h) \/ InsertRow(h) \/ SizeFile(h) \/ Phase1(h) \/ Phase2(h)
  BY <1>1, <1>6 DEF GetRow, StatFile, TouchRow, SendCached, AddTask, AddRow, KeepRow,
     ReplaceFile, DeleteReplacedRow, CreateFile, InsertRow, SizeFile, Phase1, Phase2,
     RemoveFile, BeginCleanup, locals
<1> QED BY <1>3, <1>4, <1>5, <1>6 DEF CallStep, HandlerStep

LEMMA InsertIsNext ==
  ASSUME CallsOK, NEW h \in Handlers, CallStep(h), pc'[h] = "insert"
  PROVE  CreateFile(h)
  BY DEF CallsOK, LocalsOK, CallStep, Download, Ran, Taken, FinishTask,
      HandlerStep, GetRow, StatFile, TouchRow, SendCached, AddTask, AddRow, KeepRow,
      ReplaceFile, DeleteReplacedRow, InsertRow, ListRows, SizeFile, Phase1,
      Phase2, DeleteListedRow, RemoveFile, Return, BeginCleanup, Go

\* A file as it has been made.
LEMMA Created ==
  ASSUME CallsOK, NEW h \in Handlers, OnlyAt(h), CreateFile(h), pc'[h] = "insert"
  PROVE  /\ content[h] \in Contents /\ content'[h] = content[h] /\ req'[h] = req[h]
         /\ target'[h] = nextFile /\ nextFile \notin Made
         /\ DOMAIN disk' = DOMAIN disk \cup {nextFile} /\ disk'[nextFile] = content[h]
         /\ UNCHANGED <<db, listed>>
<1>1. /\ StoreOK /\ LocalsOK /\ HandlerOK(h) /\ pc[h] = "create"
      /\ nextFile' = nextFile + 1 /\ UNCHANGED <<db, clock, requests>>
  BY DEF CallsOK, CreateFile
<1>2. content[h] \in Contents
  BY <1>1 DEF HandlerOK, Adding
<1>3. /\ PutFile(content[h]) /\ target' = [target EXCEPT ![h] = nextFile]
      /\ UNCHANGED <<req, content, listed>>
  BY <1>1 DEF CreateFile, BeginCleanup, Go, LocalsOK
<1>4. nextFile \notin Made
  BY <1>1 DEF StoreOK, Made
<1> QED BY <1>1, <1>2, <1>3, <1>4, PutStore DEF LocalsOK

LEMMA SizeInit == Init => SizeInv
  BY DEF Init, SizeInv, NoRows, Every

LEMMA SizeStep ==
  ASSUME SizeInv, CallsOK, CallsOK', NEW h \in Handlers, CallStep(h)
  PROVE  SizeInv'
<1>1. /\ DOMAIN disk \subseteq Made /\ DOMAIN db \subseteq Made /\ OnlyAt(h)
      /\ \A g \in Handlers : DOMAIN listed[g] \subseteq Made
      /\ \A g \in Handlers : pc[g] = "insert" => target[g] \in Made
  BY DEF CallsOK, StoreOK, HandlerOK, Targeting, CallStep
<1>2. DiskShrinks
  BY DiskSteps
<1>3. \A f \in DOMAIN disk' \cap DOMAIN db' : db'[f].size = disk'[f].size
  <2>1. CASE InsertRow(h)
    <3>1. pc[h] = "insert" /\ UNCHANGED disk
      BY <2>1 DEF InsertRow
    <3>2. \/ db' = db
          \/ /\ DOMAIN db' = DOMAIN db \cup {target[h]}
             /\ db'[target[h]].size = content[h].size
             /\ \A f \in DOMAIN db \ {target[h]} : db'[f] = db[f]
      BY <2>1, InsertStore
    <3>3. ASSUME NEW f \in DOMAIN disk' \cap DOMAIN db' PROVE db'[f].size = disk'[f].size
      <4>1. CASE db' = db \/ f # target[h]
        BY <3>1, <3>2, <3>3, <4>1 DEF SizeInv
      <4>2. CASE db' # db /\ f = target[h]
        BY <3>1, <3>2, <3>3, <4>2 DEF SizeInv
      <4> QED BY <4>1, <4>2
    <3> QED BY <3>3
  <2>2. CASE ~InsertRow(h)
    <3>1. RowsShrink
      BY <2>2, RowSteps
    <3> QED BY <1>1, <1>2, <3>1 DEF RowsShrink, DiskShrinks, SizeInv
  <2> QED BY <2>1, <2>2
<1>4. ASSUME NEW g \in Handlers, pc'[g] = "insert", target'[g] \in DOMAIN disk'
      PROVE  disk'[target'[g]] = content'[g]
  <2>1. CASE g = h
    <3>1. CreateFile(h)
      BY <1>4, <2>1, InsertIsNext
    <3> QED BY <1>1, <1>4, <2>1, <3>1, Created
  <2>2. CASE g # h
    <3>1. pc[g] = "insert" /\ target'[g] = target[g] /\ content'[g] = content[g]
      BY <1>1, <1>4, <2>2 DEF OnlyAt
    <3> QED BY <1>1, <1>2, <1>4, <3>1 DEF DiskShrinks, SizeInv
  <2> QED BY <2>1, <2>2
<1>5. ASSUME NEW g \in Handlers, NEW f \in DOMAIN listed'[g] \cap DOMAIN disk'
      PROVE  listed'[g][f].size = disk'[f].size
  <2>1. CASE g # h
    <3>1. listed'[g] = listed[g]
      BY <1>1, <2>1 DEF OnlyAt
    <3> QED BY <1>1, <1>2, <1>5, <3>1 DEF DiskShrinks, SizeInv
  <2>2. CASE g = h /\ ListRows(h)
    <3>1. UNCHANGED <<disk, db>>
      BY <2>2 DEF ListRows, store
    <3>2. listed'[h] = db \/ listed'[h] = NoRows
      BY <2>2 DEF ListRows, Return, CallsOK, LocalsOK
    <3> QED BY <1>5, <2>2, <3>1, <3>2 DEF NoRows, SizeInv
  <2>3. CASE g = h /\ ~ListRows(h)
    <3>1. ListShrinks(h)
      BY <2>3, ListSteps
    <3> QED BY <1>1, <1>2, <1>5, <2>3, <3>1 DEF DiskShrinks, ListShrinks, SizeInv
  <2> QED BY <2>1, <2>2, <2>3
<1> QED BY <1>3, <1>4, <1>5 DEF SizeInv

LEMMA SizeNext == ASSUME SizeInv, CallsOK, QueueOK, [Next]_vars PROVE SizeInv'
<1>1. CASE CrashAndRestart
  BY <1>1 DEF SizeInv, CrashAndRestart, Every, NoRows, store
<1>2. CASE UNCHANGED <<store, locals, pc>>
  BY <1>2 DEF SizeInv, store, locals
<1> QED BY <1>1, <1>2, Steps, SizeStep

\* The files that the total of a Cleanup still contains.
Sized(h) ==
  {f \in DOMAIN listed[h] \ unsized[h] :
     f \in DOMAIN disk \/ (pc[h] \in Removing /\ f = target[h])}

TotalOK(h) == total[h] \in Nat /\ Cardinality(Units(listed[h], Sized(h))) <= total[h]

TotalInv == \A h \in Handlers : TotalOK(h)

LEMMA SizedFinite ==
  ASSUME CallsOK, NEW h \in Handlers
  PROVE  /\ IsFiniteSet(Sized(h)) /\ \A f \in DOMAIN listed[h] : listed[h][f].size \in Nat
         /\ Cardinality(Units(listed[h], Sized(h))) \in Nat
<1>1. /\ StoreOK /\ Sized(h) \subseteq Made /\ Sized(h) \subseteq DOMAIN listed[h]
      /\ \A f \in DOMAIN listed[h] : listed[h][f] \in Rows
  BY DEF CallsOK, HandlerOK, Sized
<1>2. IsFiniteSet(Sized(h)) /\ \A f \in DOMAIN listed[h] : listed[h][f].size \in Nat
  BY <1>1, NamesFinite, RowsType
<1> QED BY <1>1, <1>2, UnitsFinite

LEMMA TotalKept ==
  ASSUME CallsOK, NEW g \in Handlers, TotalOK(g), listed'[g] = listed[g], total'[g] = total[g],
         Sized(g)' \subseteq Sized(g)
  PROVE  TotalOK(g)'
<1> DEFINE S == Sized(g)
           R == Sized(g)'
           k == listed[g]
<1>1. IsFiniteSet(S) /\ (\A f \in S : k[f].size \in Nat) /\ Cardinality(Units(k, S)) \in Nat
  BY SizedFinite DEF Sized
<1>2. R \in SUBSET S
  OBVIOUS
<1> HIDE DEF S, R, k
<1>3. IsFiniteSet(R) /\ Cardinality(Units(k, R)) <= Cardinality(Units(k, S))
  BY <1>1, <1>2, UnitsSubset
<1>4. Cardinality(Units(k, R)) \in Nat
  BY <1>1, <1>2, <1>3, UnitsFinite
<1>5. Units(listed[g], Sized(g))' = Units(k, R)
  BY DEF Units, k, R
<1> QED BY <1>1, <1>3, <1>4, <1>5 DEF TotalOK, S, k

LEMMA TotalInit == Init => TotalInv
<1> SUFFICES ASSUME Init, NEW h \in Handlers PROVE TotalOK(h)
  BY DEF TotalInv
<1>1. listed[h] = NoRows /\ unsized[h] = {} /\ total[h] = 0
  BY DEF Init, Every
<1>2. Sized(h) = {}
  BY <1>1 DEF Sized, NoRows
<1> QED BY <1>1, <1>2, UnitsEmpty DEF TotalOK

LEMMA TotalReset ==
  ASSUME LocalsOK, NEW h \in Handlers, Return(h)
  PROVE  TotalOK(h)'
<1>1. listed'[h] = NoRows /\ total'[h] = 0
  BY DEF Return, LocalsOK
<1>2. Sized(h)' = {}
  BY <1>1 DEF Sized, NoRows
<1> QED BY <1>1, <1>2, UnitsEmpty DEF TotalOK

\* The calls that do not take the step.
LEMMA TotalOthers ==
  ASSUME CallsOK, NEW h \in Handlers, CallStep(h), NEW g \in Handlers \ {h}, TotalOK(g)
  PROVE  TotalOK(g)'
<1>1. /\ listed'[g] = listed[g] /\ unsized'[g] = unsized[g] /\ total'[g] = total[g]
      /\ pc'[g] = pc[g] /\ target'[g] = target[g]
  BY DEF CallStep, OnlyAt
<1>2. DiskShrinks /\ DOMAIN listed[g] \subseteq Made
  BY DiskSteps DEF CallsOK, HandlerOK
<1>3. Sized(g)' \subseteq Sized(g)
  BY <1>1, <1>2 DEF Sized, DiskShrinks
<1> QED BY <1>1, <1>3, TotalKept

LEMMA TotalSized ==
  ASSUME CallsOK, SizeInv, NEW h \in Handlers, TotalOK(h), SizeFile(h)
  PROVE  TotalOK(h)'
<1>1. UNCHANGED <<disk, target, listed>> /\ pc[h] = "size"
  BY DEF SizeFile, store
<1>2. CASE unsized[h] = {} /\ Go(h, "phase1") /\ UNCHANGED <<unsized, total>>
  <2>1. pc'[h] = "phase1"
    BY <1>2 DEF Go, CallsOK, LocalsOK
  <2>2. Sized(h)' \subseteq Sized(h)
    BY <1>1, <1>2, <2>1 DEF Sized, Removing
  <2> QED BY <1>1, <1>2, <2>2, TotalKept
<1>3. ASSUME NEW f \in unsized[h],
             unsized' = [unsized EXCEPT ![h] = @ \ {f}],
             total' = [total EXCEPT ![h] = @ + SizeOnDisk(f)], UNCHANGED pc
      PROVE  TotalOK(h)'
  <2>1. unsized'[h] = unsized[h] \ {f} /\ total'[h] = total[h] + SizeOnDisk(f)
    BY <1>3 DEF CallsOK, LocalsOK
  <2>2. f \in DOMAIN listed[h] /\ f \notin Sized(h) /\ SizeOnDisk(f) \in Nat
    BY <1>3, SizeType DEF CallsOK, HandlerOK, Sized
  <2>3. /\ IsFiniteSet(Sized(h)) /\ \A e \in DOMAIN listed[h] : listed[h][e].size \in Nat
        /\ Cardinality(Units(listed[h], Sized(h))) \in Nat
    BY SizedFinite
  <2>4. total[h] \in Nat /\ Cardinality(Units(listed[h], Sized(h))) <= total[h]
    BY DEF TotalOK
  <2>5. CASE f \in DOMAIN disk
    <3>1. Sized(h)' = Sized(h) \cup {f}
      BY <1>1, <1>3, <2>1, <2>2, <2>5 DEF Sized, Removing
    <3>2. SizeOnDisk(f) = listed[h][f].size
      BY <2>2, <2>5 DEF SizeOnDisk, SizeInv
    <3>3. Cardinality(Units(listed[h], Sized(h) \cup {f}))
            = Cardinality(Units(listed[h], Sized(h))) + SizeOnDisk(f)
      BY <2>2, <2>3, <3>2, UnitsAdd DEF Sized
    <3>4. \A x, y, z \in Nat : x <= y => x + z <= y + z /\ y + z \in Nat
      OBVIOUS
    <3>5. /\ total[h] + SizeOnDisk(f) \in Nat
          /\ Cardinality(Units(listed[h], Sized(h))) + SizeOnDisk(f) <= total[h] + SizeOnDisk(f)
      BY <2>2, <2>3, <2>4, <3>4
    <3>6. Units(listed[h], Sized(h))' = Units(listed[h], Sized(h) \cup {f})
      BY <1>1, <3>1 DEF Units
    <3> QED BY <2>1, <3>3, <3>5, <3>6 DEF TotalOK
  <2>6. CASE f \notin DOMAIN disk
    <3>1. Sized(h)' \subseteq Sized(h)
      BY <1>1, <1>3, <2>1, <2>6 DEF Sized, Removing
    <3>2. SizeOnDisk(f) = 0 /\ total[h] + 0 = total[h]
      BY <2>4, <2>6 DEF SizeOnDisk
    <3> QED BY <1>1, <2>1, <3>1, <3>2, TotalKept
  <2> QED BY <2>5, <2>6
<1> QED BY <1>2, <1>3 DEF SizeFile

LEMMA TotalDeleted ==
  ASSUME CallsOK, NEW h \in Handlers, TotalOK(h), DeleteListedRow(h)
  PROVE  TotalOK(h)'
<1>1. CASE Return(h)
  BY <1>1, TotalReset DEF CallsOK
<1>2. CASE ~Return(h)
  <2>1. /\ pc[h] \in Removing /\ UNCHANGED <<disk, unsized>>
        /\ total'[h] = total[h] - listed[h][target[h]].size
        /\ listed'[h] = Restrict(listed[h], DOMAIN listed[h] \ {target[h]})
        /\ pc'[h] \in {"phase1", "phase2"}
    BY <1>2 DEF DeleteListedRow, CallsOK, LocalsOK, Go, Removing
  <2>2. target[h] \in DOMAIN listed[h] /\ unsized[h] = {}
    BY <2>1 DEF CallsOK, HandlerOK
  <2> DEFINE f == target[h]
             k == listed[h]
             S == Sized(h)
             R == Sized(h)'
  <2>3. f \in S
    BY <2>1, <2>2 DEF Sized
  <2>4. IsFiniteSet(S) /\ S \subseteq DOMAIN k /\ (\A e \in DOMAIN k : k[e].size \in Nat)
        /\ f \in DOMAIN k
    BY <2>2, SizedFinite DEF Sized
  <2>5. R \subseteq S \ {f}
    BY <2>1, <2>2 DEF Sized, Restrict, Removing
  <2>6. Cardinality(Units(k, S)) <= total[h] /\ total[h] \in Nat
    BY DEF TotalOK
  <2>7. Units(listed[h], Sized(h))' = Units(k, R)
    <3>1. \A e \in R : listed'[h][e] = k[e]
      BY <2>1 DEF Sized, Restrict
    <3>2. Units(listed[h], Sized(h))' = Units(listed'[h], R)
      BY DEF Units
    <3> QED BY <3>1, <3>2, UnitsSame
  <2>8. total'[h] = total[h] - k[f].size
    BY <2>1
  <2> HIDE DEF f, k, S, R
  <2>9. IsFiniteSet(S \ {f}) /\ Cardinality(Units(k, S)) = Cardinality(Units(k, S \ {f})) + k[f].size
    BY <2>3, <2>4, UnitsRemove, FS_RemoveElement
  <2>10. /\ Cardinality(Units(k, R)) <= Cardinality(Units(k, S \ {f})) /\ IsFiniteSet(R)
         /\ Cardinality(Units(k, S \ {f})) \in Nat
    BY <2>4, <2>5, <2>9, UnitsSubset, UnitsFinite
  <2>11. Cardinality(Units(k, R)) \in Nat /\ k[f].size \in Nat
    BY <2>4, <2>5, <2>10, UnitsFinite
  <2>12. \A r, s, z, t \in Nat : r <= s /\ s + z <= t => t - z \in Nat /\ r <= t - z
    OBVIOUS
  <2>13. total[h] - k[f].size \in Nat /\ Cardinality(Units(k, R)) <= total[h] - k[f].size
    BY <2>6, <2>9, <2>10, <2>11, <2>12
  <2> QED BY <2>7, <2>8, <2>13 DEF TotalOK
<1> QED BY <1>1, <1>2

LEMMA TotalListed ==
  ASSUME CallsOK, NEW h \in Handlers, TotalOK(h), ListRows(h)
  PROVE  TotalOK(h)'
<1>1. CASE Return(h)
  BY <1>1, TotalReset DEF CallsOK
<1>2. CASE ~Return(h)
  <2>1. /\ listed'[h] = db /\ unsized'[h] = DOMAIN db /\ total'[h] = total[h]
    BY <1>2 DEF ListRows, CallsOK, LocalsOK
  <2>2. Sized(h)' = {}
    BY <2>1 DEF Sized
  <2>3. Units(listed[h], Sized(h))' = {}
    BY <2>2 DEF Units
  <2>4. Cardinality({}) = 0 /\ total[h] \in Nat
    BY FS_EmptySet DEF TotalOK
  <2> QED BY <2>1, <2>3, <2>4 DEF TotalOK
<1> QED BY <1>1, <1>2

LEMMA TotalStep ==
  ASSUME CallsOK, SizeInv, TotalInv, NEW h \in Handlers, CallStep(h)
  PROVE  TotalInv'
<1>1. ASSUME NEW g \in Handlers \ {h} PROVE TotalOK(g)'
  BY TotalOthers DEF TotalInv
<1>2. TotalOK(h) /\ LocalsOK /\ DOMAIN listed[h] \subseteq Made
  BY DEF TotalInv, CallsOK, HandlerOK
<1>3. ASSUME Return(h) PROVE TotalOK(h)'
  BY <1>2, <1>3, TotalReset
<1>4. ASSUME UNCHANGED <<listed, unsized, total>>, pc'[h] \notin Removing PROVE TotalOK(h)'
  <2>1. DiskShrinks
    BY DiskSteps
  <2>2. Sized(h)' \subseteq Sized(h)
    BY <1>2, <1>4, <2>1 DEF Sized, DiskShrinks
  <2> QED BY <1>2, <1>4, <2>2, TotalKept
<1>5. ASSUME UNCHANGED <<listed, unsized, total>>, pc[h] \in {"phase1", "phase2"},
             NEW f \in DOMAIN listed[h], target' = [target EXCEPT ![h] = f],
             f \in DOMAIN disk, disk' = Restrict(disk, DOMAIN disk \ {f})
      PROVE  TotalOK(h)'
  <2>1. unsized[h] = {} /\ target'[h] = f
    BY <1>2, <1>5 DEF CallsOK, HandlerOK, LocalsOK
  <2>2. Sized(h)' \subseteq Sized(h)
    BY <1>5, <2>1 DEF Sized, Restrict
  <2> QED BY <1>2, <1>5, <2>2, TotalKept
<1>6. ASSUME ~Return(h), Phase1(h) \/ Phase2(h) PROVE TotalOK(h)'
  <2>1. CASE Go(h, "phase2") /\ UNCHANGED <<disk, locals>>
    <3>1. pc'[h] \notin Removing
      BY <1>2, <2>1 DEF Go, LocalsOK, Removing
    <3> QED BY <1>4, <2>1, <3>1 DEF locals
  <2>2. ASSUME NEW f \in Oldest(h), NEW p, RemoveFile(h, f, p, Return(h)) PROVE TotalOK(h)'
    <3>1. f \in DOMAIN listed[h]
      BY DEF Oldest
    <3>2. pc[h] \in {"phase1", "phase2"}
      BY <1>6 DEF Phase1, Phase2
    <3> QED BY <1>5, <1>6, <2>2, <3>1, <3>2 DEF RemoveFile
  <2> QED BY <1>6, <2>1, <2>2 DEF Phase1, Phase2
<1>7. ASSUME ~Return(h), Download(h) \/ Ran(h) PROVE TotalOK(h)'
  BY <1>2, <1>4, <1>7 DEF Download, Ran, Taken, FinishTask, BeginCleanup, Go, LocalsOK, Removing, locals
<1>8. ASSUME ~Return(h),
             \/ GetRow(h) \/ StatFile(h) \/ TouchRow(h) \/ SendCached(h) \/ AddTask(h)
             \/ AddRow(h) \/ KeepRow(h) \/ ReplaceFile(h) \/ DeleteReplacedRow(h)
             \/ CreateFile(h) \/ InsertRow(h)
      PROVE  TotalOK(h)'
  BY <1>2, <1>4, <1>8 DEF GetRow, StatFile, TouchRow, SendCached, AddTask, AddRow, KeepRow,
     ReplaceFile, DeleteReplacedRow, CreateFile, InsertRow, RemoveFile, BeginCleanup, locals,
     Go, LocalsOK, Removing
<1> QED BY <1>1, <1>2, <1>3, <1>6, <1>7, <1>8, TotalListed, TotalSized, TotalDeleted
        DEF CallStep, HandlerStep, TotalInv

LEMMA TotalNext == ASSUME TotalInv, SizeInv, CallsOK, QueueOK, [Next]_vars PROVE TotalInv'
<1>1. ASSUME CrashAndRestart, NEW h \in Handlers PROVE TotalOK(h)'
  <2>1. listed'[h] = NoRows /\ total'[h] = 0
    BY <1>1 DEF CrashAndRestart, Every
  <2>2. Sized(h)' = {}
    BY <2>1 DEF Sized, NoRows
  <2> QED BY <2>1, <2>2, UnitsEmpty DEF TotalOK
<1>2. CASE UNCHANGED <<store, locals, pc>>
  BY <1>2 DEF TotalInv, TotalOK, Sized, Units, store, locals
<1> QED BY <1>1, <1>2, Steps, TotalStep DEF TotalInv

LEMMA CacheInvariance == Spec => [](CallsOK /\ QueueOK /\ NamesInv /\ SizeInv /\ TotalInv)
  BY CallsInit, NamesInit, SizeInit, TotalInit, Steps, NamesNext, SizeNext, TotalNext, PTL DEF Spec

\* Every variable stays within its type, whatever fails: in particular no more
\* files are made than there are calls, and the total that Cleanup keeps while
\* others remove files and rows never becomes negative (Cleanup).
THEOREM TypeCorrect == Spec => []TypeOK
<1>1. CallsOK /\ QueueOK /\ NamesInv /\ TotalInv => TypeOK
  <2> SUFFICES ASSUME CallsOK, QueueOK, NamesInv, TotalInv PROVE TypeOK
    OBVIOUS
  <2>1. nextFile \in 0..requests /\ requests \in 0..MaxRequests /\ MaxRequests \in Nat
    <3>1. Cardinality(Starting) \in Nat
      BY FS_CardinalityType DEF NamesInv
    <3>2. nextFile \in Nat /\ requests \in 0..MaxRequests
      BY DEF CallsOK, StoreOK
    <3> QED BY <3>1, <3>2, CleanupAssumption DEF NamesInv
  <2>2. Made \subseteq FileIds
    BY <2>1 DEF Made, FileIds
  <2>3. /\ DOMAIN disk \subseteq FileIds /\ \A f \in DOMAIN disk : disk[f] \in Contents
        /\ DOMAIN db \subseteq FileIds /\ \A f \in DOMAIN db : db[f] \in Rows
        /\ clock \in 0..MaxClock
    BY <2>2 DEF CallsOK, StoreOK
  <2>4. Range(queue) \subseteq Handlers
    BY DEF QueueOK, Range
  <2>5. /\ pc \in [Handlers -> PCs]
        /\ req \in [Handlers -> [url : Urls, sum : Sums \cup {NoSum}] \cup {Nothing}]
        /\ content \in [Handlers -> Contents \cup {Nothing}]
    BY DEF CallsOK, LocalsOK, Requests
  <2>6. target \in [Handlers -> FileIds \cup {Nothing}]
    BY <2>2 DEF CallsOK, LocalsOK, HandlerOK
  <2>7. \A h \in Handlers : unsized[h] \subseteq DOMAIN listed[h]
    BY DEF CallsOK, HandlerOK
  <2>8. total \in [Handlers -> Nat]
    BY DEF CallsOK, LocalsOK, TotalInv, TotalOK
  <2> QED BY <2>1, <2>3, <2>4, <2>5, <2>6, <2>7, <2>8 DEF TypeOK
<1> QED BY <1>1, CacheInvariance, PTL

-----------------------------------------------------------------------------
(* Where the first phase of Cleanup stops.                                 *)

FitInv ==
  \A h \in Handlers :
    pc[h] \in {"phase2", "row2"} => total[h] <= MaxSize \/ DOMAIN listed[h] = {}

LEMMA FitInit == Init => FitInv
  BY DEF Init, Every, FitInv

LEMMA FitDeleted ==
  ASSUME CallsOK, TotalInv, FitInv, NEW h \in Handlers, DeleteListedRow(h), pc'[h] = "phase2"
  PROVE  total'[h] <= MaxSize
<1>1. /\ pc[h] = "row2" /\ total'[h] = total[h] - listed[h][target[h]].size
  BY DEF DeleteListedRow, Go, Return, CallsOK, LocalsOK
<1>2. target[h] \in DOMAIN listed[h] /\ listed[h][target[h]] \in Rows
  BY <1>1 DEF CallsOK, HandlerOK, Removing
<1>3. total[h] <= MaxSize
  BY <1>1, <1>2 DEF FitInv
<1>4. total[h] \in Nat /\ listed[h][target[h]].size \in Nat /\ MaxSize \in Nat
  BY <1>2, RowsType, CleanupAssumption DEF TotalInv, TotalOK
<1>5. \A x, y, z \in Nat : x <= z => x - y <= z
  OBVIOUS
<1> QED BY <1>1, <1>3, <1>4, <1>5

\* What leads to, or keeps a call in, the second phase.
LEMMA SecondPhase ==
  ASSUME CallsOK, NEW h \in Handlers, CallStep(h), pc'[h] \in {"phase2", "row2"}
  PROVE  \/ Phase1(h) /\ (~TooLarge(h) \/ DOMAIN listed[h] = {}) /\ UNCHANGED <<listed, total>>
         \/ Phase2(h) /\ UNCHANGED <<listed, total>>
         \/ DeleteListedRow(h) /\ pc'[h] = "phase2"
<1>1. Phase1(h) \/ Phase2(h) \/ DeleteListedRow(h)
  BY DEF CallsOK, LocalsOK, CallStep, Download, Ran, Taken, FinishTask,
      HandlerStep, GetRow, StatFile, TouchRow, SendCached, AddTask, AddRow, KeepRow,
      ReplaceFile, DeleteReplacedRow, CreateFile, InsertRow, ListRows, SizeFile,
      RemoveFile, Return, BeginCleanup, Go
<1>2. CASE Phase1(h)
  <2>1. ~Return(h) /\ ~Go(h, "row1")
    BY DEF Return, Go, CallsOK, LocalsOK
  <2> QED BY <1>2, <2>1 DEF Phase1, RemoveFile, locals
<1>3. CASE Phase2(h)
  <2>1. ~Return(h)
    BY DEF Return, Go, CallsOK, LocalsOK
  <2> QED BY <1>3, <2>1 DEF Phase2, RemoveFile
<1>4. CASE DeleteListedRow(h)
  BY <1>4 DEF DeleteListedRow, Return, Go, CallsOK, LocalsOK
<1> QED BY <1>1, <1>2, <1>3, <1>4

LEMMA FitNext == ASSUME FitInv, TotalInv, CallsOK, QueueOK, [Next]_vars PROVE FitInv'
<1>1. ASSUME NEW h \in Handlers, CallStep(h) PROVE FitInv'
  <2>1. ASSUME pc'[h] \in {"phase2", "row2"}
        PROVE  total'[h] <= MaxSize \/ DOMAIN listed'[h] = {}
    <3>1. CASE Phase1(h) /\ (~TooLarge(h) \/ DOMAIN listed[h] = {}) /\ UNCHANGED <<listed, total>>
      <4>1. total[h] \in Nat /\ MaxSize \in Nat
        BY CleanupAssumption DEF TotalInv, TotalOK
      <4> QED BY <3>1, <4>1 DEF TooLarge
    <3>2. CASE Phase2(h) /\ UNCHANGED <<listed, total>>
      BY <3>2 DEF Phase2, FitInv
    <3>3. CASE DeleteListedRow(h) /\ pc'[h] = "phase2"
      BY <3>3, FitDeleted
    <3> QED BY <1>1, <2>1, <3>1, <3>2, <3>3, SecondPhase
  <2> QED BY <1>1, <2>1 DEF FitInv, CallStep, OnlyAt
<1>2. CASE CrashAndRestart
  BY <1>2 DEF CrashAndRestart, Every, FitInv
<1>3. CASE UNCHANGED <<store, locals, pc>>
  BY <1>3 DEF FitInv, locals
<1> QED BY <1>1, <1>2, <1>3, Steps

\* The total that Cleanup has reached when its first phase ends, from rows and
\* sizes read at different moments while others remove, replace and add files,
\* is enough to bound what it knows of: with any number of calls, failing
\* statements and crashes (Cleanup).
THEOREM StaleTotalSuffices == Spec => []KnownFilesFit
<1>1. CallsOK /\ SizeInv /\ TotalInv /\ FitInv => KnownFilesFit
  <2> SUFFICES ASSUME CallsOK, SizeInv, TotalInv, FitInv, NEW h \in Handlers,
                      pc[h] \in {"phase2", "row2"}
               PROVE  Cardinality(Units(disk, DOMAIN disk \cap DOMAIN listed[h])) <= MaxSize
    BY DEF KnownFilesFit
  <2>1. PICK R : R = DOMAIN disk \cap DOMAIN listed[h]
    OBVIOUS
  <2>2. CASE DOMAIN listed[h] = {}
    <3>1. R = {}
      BY <2>1, <2>2
    <3> QED BY <2>1, <3>1, UnitsEmpty, CleanupAssumption
  <2>3. CASE total[h] <= MaxSize
    <3>1. unsized[h] = {}
      BY DEF CallsOK, HandlerOK, Removing
    <3>2. R \subseteq Sized(h) /\ Sized(h) \subseteq DOMAIN listed[h]
      BY <2>1, <3>1 DEF Sized
    <3>3. Units(disk, R) = Units(listed[h], R)
      <4>1. \A f \in R : disk[f].size = listed[h][f].size
        BY <2>1 DEF SizeInv
      <4> QED BY <4>1, UnitsSame
    <3>4. /\ IsFiniteSet(Sized(h)) /\ \A f \in Sized(h) : listed[h][f].size \in Nat
          /\ Cardinality(Units(listed[h], Sized(h))) \in Nat
      BY <3>2, SizedFinite
    <3>5. IsFiniteSet(R) /\ Cardinality(Units(listed[h], R)) <= Cardinality(Units(listed[h], Sized(h)))
      BY <3>2, <3>4, UnitsSubset
    <3>6. Cardinality(Units(listed[h], R)) \in Nat
      BY <3>2, <3>4, <3>5, UnitsFinite
    <3>7. Cardinality(Units(listed[h], Sized(h))) <= total[h] /\ total[h] \in Nat /\ MaxSize \in Nat
      BY CleanupAssumption DEF TotalInv, TotalOK
    <3>8. \A w, x, y, z \in Nat : w <= x /\ x <= y /\ y <= z => w <= z
      OBVIOUS
    <3> QED BY <2>1, <2>3, <3>3, <3>4, <3>5, <3>6, <3>7, <3>8
  <2> QED BY <2>2, <2>3 DEF FitInv
<1>2. Spec => []FitInv
  BY FitInit, FitNext, CacheInvariance, PTL DEF Spec
<1> QED BY <1>1, <1>2, CacheInvariance, PTL

-----------------------------------------------------------------------------
(* What is served.  If the task's own move of a file fails unseen, an empty *)
(* file gets a row with the checksum asked for: without that, rows tell the *)
(* checksums of their files, or none.                                      *)

Agrees(sum, c) == sum \in {NoSum, c.sum}

SumInv ==
  /\ \A f \in DOMAIN disk \cap DOMAIN db : Agrees(db[f].sum, disk[f])
  /\ \A h \in Handlers : pc[h] \in Adding => Agrees(req[h].sum, content[h])
  /\ \A h \in Handlers :
       pc[h] \in {"stat", "touch", "send"} /\ target[h] \in DOMAIN disk =>
         Agrees(req[h].sum, disk[target[h]])

LEMMA SumInit == Init => SumInv
  BY DEF Init, SumInv, NoRows, Every, Adding

\* What the steps of a call do to its request.
LEMMA RequestSteps ==
  ASSUME CallsOK, NEW h \in Handlers, CallStep(h)
  PROVE  /\ pc'[h] \in Adding =>
              \/ pc[h] \in Adding /\ req'[h] = req[h] /\ content'[h] = content[h]
              \/ Ran(h) /\ pc'[h] = "add"
         /\ pc'[h] \in {"stat", "touch", "send"} =>
              \/ pc[h] \in {"stat", "touch", "send"} /\ req'[h] = req[h] /\ target'[h] = target[h]
              \/ GetRow(h) /\ pc'[h] = "stat"
<1>1. CASE Ran(h)
  <2>1. CASE Taken(h)
    BY <2>1 DEF Taken, Go, Adding, CallsOK, LocalsOK
  <2>2. CASE FinishTask(h)
    BY <1>1, <2>2 DEF FinishTask, Return, BeginCleanup, Go, Adding, CallsOK, LocalsOK
  <2> QED BY <1>1, <2>1, <2>2 DEF Ran
<1>2. CASE GetRow(h) \/ Download(h)
  BY <1>2 DEF GetRow, Download, Go, Adding, CallsOK, LocalsOK
<1>3. CASE \/ StatFile(h) \/ TouchRow(h) \/ SendCached(h) \/ AddTask(h) \/ AddRow(h)
           \/ KeepRow(h)
  BY <1>3 DEF StatFile, TouchRow, SendCached, AddTask, AddRow, KeepRow, Return, BeginCleanup,
     Go, Adding, locals, CallsOK, LocalsOK
<1>4. CASE \/ ReplaceFile(h) \/ DeleteReplacedRow(h) \/ CreateFile(h) \/ InsertRow(h)
           \/ ListRows(h)
  BY <1>4 DEF ReplaceFile, DeleteReplacedRow, CreateFile, InsertRow, ListRows, RemoveFile,
     Return, BeginCleanup, Go, Adding, CallsOK, LocalsOK
<1>5. CASE SizeFile(h) \/ Phase1(h) \/ Phase2(h) \/ DeleteListedRow(h)
  BY <1>5 DEF SizeFile, Phase1, Phase2, DeleteListedRow, RemoveFile, Return, Go, Adding,
     locals, CallsOK, LocalsOK
<1> QED BY <1>1, <1>2, <1>3, <1>4, <1>5 DEF CallStep, HandlerStep

LEMMA SumStep ==
  ASSUME ~MoveMayFail, SumInv, SizeInv, CallsOK, NEW h \in Handlers, CallStep(h)
  PROVE  SumInv'
<1>1. /\ DOMAIN disk \subseteq Made /\ DOMAIN db \subseteq Made /\ OnlyAt(h) /\ LocalsOK
      /\ \A g \in Handlers : pc[g] \in Targeting => target[g] \in Made
  BY DEF CallsOK, StoreOK, HandlerOK, CallStep
<1>2. DiskShrinks
  BY DiskSteps
<1>3. \A f \in DOMAIN disk' \cap DOMAIN db' : Agrees(db'[f].sum, disk'[f])
  <2>1. CASE InsertRow(h)
    <3>1. pc[h] = "insert" /\ UNCHANGED disk /\ Agrees(req[h].sum, content[h])
      BY <2>1 DEF InsertRow, SumInv, Adding
    <3>2. \/ db' = db
          \/ /\ DOMAIN db' = DOMAIN db \cup {target[h]}
             /\ db'[target[h]].sum = req[h].sum
             /\ \A f \in DOMAIN db \ {target[h]} : db'[f] = db[f]
      BY <2>1, InsertStore
    <3>3. target[h] \in DOMAIN disk => disk[target[h]] = content[h]
      BY <3>1 DEF SizeInv
    <3>4. ASSUME NEW f \in DOMAIN disk' \cap DOMAIN db' PROVE Agrees(db'[f].sum, disk'[f])
      <4>1. CASE db' = db \/ f # target[h]
        BY <3>1, <3>2, <3>4, <4>1 DEF SumInv
      <4>2. CASE db' # db /\ f = target[h]
        BY <3>1, <3>2, <3>3, <3>4, <4>2
      <4> QED BY <4>1, <4>2
    <3> QED BY <3>4
  <2>2. CASE ~InsertRow(h)
    <3>1. RowsShrink
      BY <2>2, RowSteps
    <3> QED BY <1>1, <1>2, <3>1 DEF RowsShrink, DiskShrinks, SumInv
  <2> QED BY <2>1, <2>2
<1>4. ASSUME NEW g \in Handlers, pc'[g] \in Adding PROVE Agrees(req'[g].sum, content'[g])
  <2>1. CASE pc[g] \in Adding /\ req'[g] = req[g] /\ content'[g] = content[g]
    BY <2>1 DEF SumInv
  <2>2. CASE g = h /\ Ran(h) /\ pc'[h] = "add"
    <3>1. PICK c \in Contents : /\ IF c = EmptyFile THEN MoveMayFail ELSE Agrees(req[h].sum, c)
                                /\ content' = [content EXCEPT ![h] = c] /\ UNCHANGED req
      BY <1>1, <2>2 DEF Ran, Taken, FinishTask, Return, BeginCleanup, Go, LocalsOK, Agrees
    <3> QED BY <1>1, <2>2, <3>1 DEF LocalsOK
  <2> QED BY <1>1, <1>4, <2>1, <2>2, RequestSteps DEF OnlyAt
<1>5. ASSUME NEW g \in Handlers, pc'[g] \in {"stat", "touch", "send"},
             target'[g] \in DOMAIN disk'
      PROVE  Agrees(req'[g].sum, disk'[target'[g]])
  <2>1. CASE pc[g] \in {"stat", "touch", "send"} /\ req'[g] = req[g] /\ target'[g] = target[g]
    <3>1. target[g] \in Made
      BY <1>1, <2>1 DEF Targeting
    <3> QED BY <1>2, <1>5, <2>1, <3>1 DEF DiskShrinks, SumInv
  <2>2. CASE g = h /\ GetRow(h) /\ pc'[h] = "stat"
    <3>1. PICK f \in RowsOf(req[h].url) : Matches(h, f) /\ target' = [target EXCEPT ![h] = f]
      BY <1>1, <2>2 DEF GetRow, Go, LocalsOK
    <3>2. /\ target'[h] = f /\ f \in DOMAIN db /\ req'[h] = req[h]
          /\ UNCHANGED <<disk, db>> /\ Agrees(req[h].sum, db[f])
      BY <1>1, <2>2, <3>1 DEF GetRow, RowsOf, LocalsOK, store, Matches, Agrees
    <3>3. Agrees(db[f].sum, disk[f])
      BY <1>5, <2>2, <3>2 DEF SumInv
    <3> QED BY <2>2, <3>2, <3>3 DEF Agrees
  <2> QED BY <1>1, <1>5, <2>1, <2>2, RequestSteps DEF OnlyAt
<1> QED BY <1>3, <1>4, <1>5 DEF SumInv

LEMMA SumNext ==
  ASSUME ~MoveMayFail, SumInv, SizeInv, CallsOK, QueueOK, [Next]_vars PROVE SumInv'
<1>1. CASE CrashAndRestart
  BY <1>1 DEF SumInv, CrashAndRestart, Every, store, Adding
<1>2. CASE UNCHANGED <<store, locals, pc>>
  BY <1>2 DEF SumInv, store, locals
<1> QED BY <1>1, <1>2, Steps, SumStep

\* Concurrent calls, failing statements and crashes do not make the server send
\* a cached file for a checksum it does not have, as long as tasks do not leave
\* empty files behind (GetPersistedFile, AddDownloadedFile).
THEOREM ServesTheRequested == ASSUME ~MoveMayFail PROVE Spec => []ServedIsRequested
<1>1. SumInv => ServedIsRequested
  BY DEF SumInv, ServedIsRequested, Agrees
<1>2. Spec => []SumInv
  BY SumInit, SumNext, CacheInvariance, PTL DEF Spec
<1> QED BY <1>1, <1>2, PTL

-----------------------------------------------------------------------------
(* Files and rows.  If statements and moves succeed and the server does not *)
(* crash, one has the other but for the call that is between its two steps. *)

\* A file that has been made for a row: the call that inserts the row alone
\* knows its name.
Fresh(h) ==
  /\ target[h] \in DOMAIN disk /\ target[h] \notin DOMAIN db
  /\ \A g \in Handlers :
       /\ target[h] \notin DOMAIN listed[g]
       /\ g # h /\ pc[g] \in {"insert", "replace", "row0"} => target[g] # target[h]

RowInv ==
  /\ NoDanglingRow
  /\ NoOrphanFile
  /\ \A h \in Handlers : pc[h] = "insert" => Fresh(h)
  /\ \A h \in Handlers : pc[h] \in {"row0", "row1", "row2"} => target[h] \notin DOMAIN disk

LEMMA RowInit == Init => RowInv
  BY DEF Init, RowInv, NoDanglingRow, NoOrphanFile, NoRows, Every

\* Steps that leave files and rows where they are, and take no file in hand that
\* has no row.
LEMMA RowKept ==
  ASSUME RowInv, CallsOK, NEW h \in Handlers, OnlyAt(h), UNCHANGED disk,
         DOMAIN db' = DOMAIN db,
         pc[h] \notin {"insert", "row0", "row1", "row2"},
         pc'[h] \notin {"insert", "row0", "row1", "row2"},
         \A f \in DOMAIN listed'[h] : f \in DOMAIN listed[h] \/ f \in DOMAIN db,
         pc'[h] = "replace" => target'[h] \in DOMAIN db
  PROVE  RowInv'
<1>1. NoDanglingRow'
  BY DEF RowInv, NoDanglingRow, OnlyAt
<1>2. NoOrphanFile'
  BY DEF RowInv, NoOrphanFile, OnlyAt
<1>3. ASSUME NEW i \in Handlers, pc'[i] = "insert" PROVE Fresh(i)'
  <2>1. i # h /\ pc[i] = "insert" /\ target'[i] = target[i] /\ Fresh(i)
    BY <1>3 DEF OnlyAt, RowInv
  <2> QED BY <2>1 DEF Fresh, OnlyAt
<1>4. \A g \in Handlers : pc'[g] \in {"row0", "row1", "row2"} => target'[g] \notin DOMAIN disk'
  BY DEF RowInv, OnlyAt
<1> QED BY <1>1, <1>2, <1>3, <1>4 DEF RowInv

LEMMA RowCreated ==
  ASSUME RowInv, CallsOK, NEW h \in Handlers, OnlyAt(h), CreateFile(h), pc'[h] = "insert"
  PROVE  RowInv'
<1>1. /\ target'[h] = nextFile /\ nextFile \notin Made
      /\ DOMAIN disk' = DOMAIN disk \cup {nextFile} /\ UNCHANGED <<db, listed>>
      /\ pc[h] = "create"
  BY Created DEF CreateFile
<1>2. /\ DOMAIN disk \subseteq Made /\ DOMAIN db \subseteq Made
      /\ \A g \in Handlers : DOMAIN listed[g] \subseteq Made
      /\ \A g \in Handlers : pc[g] \in Targeting \cup Removing => target[g] \in Made
  BY DEF CallsOK, StoreOK, HandlerOK
<1>3. NoDanglingRow'
  BY <1>1 DEF RowInv, NoDanglingRow, OnlyAt
<1>4. NoOrphanFile'
  BY <1>1 DEF RowInv, NoOrphanFile, OnlyAt
<1>5. Fresh(h)'
  BY <1>1, <1>2 DEF Fresh, OnlyAt, Targeting
<1>6. ASSUME NEW i \in Handlers \ {h}, pc'[i] = "insert" PROVE Fresh(i)'
  <2>1. pc[i] = "insert" /\ target'[i] = target[i] /\ Fresh(i) /\ target[i] \in Made
    BY <1>2, <1>6 DEF OnlyAt, RowInv, Targeting
  <2> QED BY <1>1, <2>1 DEF Fresh, OnlyAt
<1>7. \A g \in Handlers : pc'[g] \in {"row0", "row1", "row2"} => target'[g] \notin DOMAIN disk'
  BY <1>1, <1>2 DEF RowInv, OnlyAt, Targeting, Removing
<1> QED BY <1>3, <1>4, <1>5, <1>6, <1>7 DEF RowInv

LEMMA RowInserted ==
  ASSUME RowInv, CallsOK, NEW h \in Handlers, OnlyAt(h), InsertRow(h), ~StoreMayFail
  PROVE  RowInv'
<1>1. /\ DOMAIN db' = DOMAIN db \cup {target[h]} /\ UNCHANGED disk
      /\ pc[h] = "insert" /\ pc'[h] = "clean" /\ listed'[h] = listed[h]
  BY GoOnly DEF InsertRow, BeginCleanup, CallsOK, PCs
<1>2. Fresh(h)
  BY <1>1 DEF RowInv
<1>3. NoDanglingRow'
  BY <1>1, <1>2 DEF RowInv, NoDanglingRow, OnlyAt, Fresh
<1>4. NoOrphanFile'
  BY <1>1, <1>2 DEF RowInv, NoOrphanFile, OnlyAt, Fresh
<1>5. ASSUME NEW i \in Handlers, pc'[i] = "insert" PROVE Fresh(i)'
  <2>1. i # h /\ pc[i] = "insert" /\ target'[i] = target[i] /\ Fresh(i)
    BY <1>1, <1>5 DEF OnlyAt, RowInv
  <2>2. target[i] # target[h]
    BY <1>1, <2>1 DEF Fresh
  <2> QED BY <1>1, <2>1, <2>2 DEF Fresh, OnlyAt
<1>6. \A g \in Handlers : pc'[g] \in {"row0", "row1", "row2"} => target'[g] \notin DOMAIN disk'
  BY <1>1 DEF RowInv, OnlyAt
<1> QED BY <1>3, <1>4, <1>5, <1>6 DEF RowInv

LEMMA RowRemoved ==
  ASSUME RowInv, CallsOK, NEW h \in Handlers, OnlyAt(h), NEW f,
         f \in DOMAIN disk, disk' = Restrict(disk, DOMAIN disk \ {f}), UNCHANGED <<db, listed>>,
         pc[h] \in {"replace", "phase1", "phase2"},
         pc'[h] \in {"row0", "row1", "row2"}, target'[h] = f,
         f \in DOMAIN listed[h] \/ (pc[h] = "replace" /\ f = target[h])
  PROVE  RowInv'
<1>1. DOMAIN disk' = DOMAIN disk \ {f}
  BY DEF Restrict
<1>2. ASSUME NEW i \in Handlers, pc[i] = "insert" PROVE target[i] # f /\ i # h
  BY <1>2 DEF RowInv, Fresh
<1>3. NoDanglingRow'
  BY <1>1 DEF RowInv, NoDanglingRow, OnlyAt
<1>4. NoOrphanFile'
  BY <1>1, <1>2 DEF RowInv, NoOrphanFile, OnlyAt
<1>5. ASSUME NEW i \in Handlers, pc'[i] = "insert" PROVE Fresh(i)'
  <2>1. i # h /\ pc[i] = "insert" /\ target'[i] = target[i] /\ Fresh(i) /\ target[i] # f
    BY <1>2, <1>5 DEF OnlyAt, RowInv
  <2> QED BY <1>1, <2>1 DEF Fresh, OnlyAt
<1>6. \A g \in Handlers : pc'[g] \in {"row0", "row1", "row2"} => target'[g] \notin DOMAIN disk'
  BY <1>1 DEF RowInv, OnlyAt
<1> QED BY <1>3, <1>4, <1>5, <1>6 DEF RowInv

LEMMA RowDeleted ==
  ASSUME RowInv, CallsOK, NEW h \in Handlers, OnlyAt(h), UNCHANGED disk,
         db' = WithoutRow(target[h]), ListShrinks(h),
         pc[h] \in {"row0", "row1", "row2"},
         pc'[h] \in {"create", "phase1", "phase2"}
  PROVE  RowInv'
<1>1. DOMAIN db' = DOMAIN db \ {target[h]}
  BY DEF WithoutRow, Restrict
<1>2. target[h] \notin DOMAIN disk
  BY DEF RowInv
<1>3. NoDanglingRow'
  BY <1>1 DEF RowInv, NoDanglingRow, OnlyAt
<1>4. NoOrphanFile'
  BY <1>1, <1>2 DEF RowInv, NoOrphanFile, OnlyAt
<1>5. ASSUME NEW i \in Handlers, pc'[i] = "insert" PROVE Fresh(i)'
  <2>1. i # h /\ pc[i] = "insert" /\ target'[i] = target[i] /\ Fresh(i)
    BY <1>5 DEF OnlyAt, RowInv
  <2> QED BY <1>1, <2>1 DEF Fresh, OnlyAt, ListShrinks
<1>6. \A g \in Handlers : pc'[g] \in {"row0", "row1", "row2"} => target'[g] \notin DOMAIN disk'
  BY DEF RowInv, OnlyAt
<1> QED BY <1>3, <1>4, <1>5, <1>6 DEF RowInv

\* Where a row was found.
LEMMA FoundRow ==
  ASSUME CallsOK, NEW h \in Handlers, AddRow(h), pc'[h] = "replace"
  PROVE  target'[h] \in DOMAIN db
<1>1. PICK f \in RowsOf(req[h].url) : target' = [target EXCEPT ![h] = f]
  BY DEF AddRow, Go, CallsOK, LocalsOK
<1> QED BY <1>1 DEF RowsOf, CallsOK, LocalsOK

LEMMA RowLookup ==
  ASSUME RowInv, CallsOK, NEW h \in Handlers, OnlyAt(h),
         \/ GetRow(h) \/ StatFile(h) \/ SendCached(h) \/ AddTask(h) \/ AddRow(h)
         \/ Download(h) \/ Ran(h)
  PROVE  RowInv'
<1>1. UNCHANGED store
  BY DEF GetRow, StatFile, SendCached, AddTask, AddRow, Download, Ran, Taken, FinishTask
<1>2. /\ pc[h] \notin {"insert", "row0", "row1", "row2"}
      /\ pc'[h] \notin {"insert", "row0", "row1", "row2"}
      /\ pc'[h] = "replace" => AddRow(h)
  BY DEF GetRow, StatFile, SendCached, AddTask, AddRow, Download, Ran, Taken, FinishTask, Return,
         BeginCleanup, Go, CallsOK, LocalsOK
<1>3. \A f \in DOMAIN listed'[h] : f \in DOMAIN listed[h]
  BY DEF GetRow, StatFile, SendCached, AddTask, AddRow, Download, Ran, Taken, FinishTask, Return,
         BeginCleanup, CallsOK, LocalsOK, NoRows, locals
<1> QED BY <1>1, <1>2, <1>3, FoundRow, RowKept DEF store

LEMMA RowTouched ==
  ASSUME RowInv, CallsOK, NEW h \in Handlers, OnlyAt(h), TouchRow(h) \/ KeepRow(h)
  PROVE  RowInv'
<1>1. UNCHANGED disk /\ DOMAIN db' = DOMAIN db
  BY TouchStore DEF TouchRow, KeepRow, CallsOK
<1>2. /\ pc[h] \in {"touch", "keep"} /\ pc'[h] \in {"send", "clean"}
      /\ listed'[h] = listed[h]
  BY DEF TouchRow, KeepRow, BeginCleanup, Go, CallsOK, LocalsOK, locals
<1> QED BY <1>1, <1>2, RowKept

LEMMA RowCounted ==
  ASSUME RowInv, CallsOK, NEW h \in Handlers, OnlyAt(h), ListRows(h) \/ SizeFile(h)
  PROVE  RowInv'
<1>1. UNCHANGED store
  BY DEF ListRows, SizeFile
<1>2. pc[h] \in {"clean", "size"} /\ pc'[h] \in {"idle", "size", "phase1"}
  BY DEF ListRows, SizeFile, Return, Go, CallsOK, LocalsOK
<1>3. \A f \in DOMAIN listed'[h] : f \in DOMAIN listed[h] \/ f \in DOMAIN db
  BY DEF ListRows, SizeFile, Return, CallsOK, LocalsOK, NoRows
<1> QED BY <1>1, <1>2, <1>3, RowKept DEF store

\* The two phases and the replacing of a file.
LEMMA RowPhases ==
  ASSUME RowInv, CallsOK, NEW h \in Handlers, OnlyAt(h),
         Phase1(h) \/ Phase2(h) \/ ReplaceFile(h)
  PROVE  RowInv'
<1>1. UNCHANGED db /\ pc[h] \in {"replace", "phase1", "phase2"}
  BY DEF Phase1, Phase2, ReplaceFile
<1>2. ASSUME UNCHANGED disk, \/ Return(h) \/ BeginCleanup(h)
                             \/ Go(h, "phase2") /\ UNCHANGED locals
      PROVE  RowInv'
  <2>1. /\ pc'[h] \in {"idle", "clean", "phase2"}
        /\ \A f \in DOMAIN listed'[h] : f \in DOMAIN listed[h]
    BY <1>2 DEF Return, BeginCleanup, Go, CallsOK, LocalsOK, NoRows, locals
  <2> QED BY <1>1, <1>2, <2>1, RowKept
<1>3. ASSUME NEW f, NEW p \in {"row0", "row1", "row2"}, f \in DOMAIN disk,
             RemoveFile(h, f, p, Return(h)) \/ RemoveFile(h, f, p, BeginCleanup(h)),
             f \in DOMAIN listed[h] \/ (pc[h] = "replace" /\ f = target[h])
      PROVE  RowInv'
  <2>1. /\ disk' = Restrict(disk, DOMAIN disk \ {f}) /\ UNCHANGED listed
        /\ pc'[h] = p /\ target'[h] = f
    BY <1>3 DEF RemoveFile, Go, CallsOK, LocalsOK
  <2> QED BY <1>1, <1>3, <2>1, RowRemoved
<1>4. ASSUME NEW f, f \notin DOMAIN disk, NEW p,
             RemoveFile(h, f, p, Return(h)) \/ RemoveFile(h, f, p, BeginCleanup(h))
      PROVE  RowInv'
  BY <1>2, <1>4 DEF RemoveFile
<1>5. CASE Phase1(h)
  <2>1. \/ UNCHANGED disk /\ Go(h, "phase2") /\ UNCHANGED locals
        \/ \E f \in DOMAIN listed[h] : RemoveFile(h, f, "row1", Return(h))
    BY <1>5 DEF Phase1, Oldest
  <2> QED BY <1>2, <1>3, <1>4, <2>1
<1>6. CASE Phase2(h)
  <2>1. \/ UNCHANGED disk /\ Return(h)
        \/ \E f \in DOMAIN listed[h] : RemoveFile(h, f, "row2", Return(h))
    BY <1>6 DEF Phase2, Oldest
  <2> QED BY <1>2, <1>3, <1>4, <2>1
<1>7. CASE ReplaceFile(h)
  BY <1>3, <1>4, <1>7 DEF ReplaceFile
<1> QED BY <1>5, <1>6, <1>7

LEMMA RowRows ==
  ASSUME ~StoreMayFail, RowInv, CallsOK, NEW h \in Handlers, CallStep(h),
         DeleteListedRow(h) \/ DeleteReplacedRow(h)
  PROVE  RowInv'
<1>1. /\ UNCHANGED disk /\ db' = WithoutRow(target[h])
      /\ pc[h] \in {"row0", "row1", "row2"} /\ pc'[h] \in {"create", "phase1", "phase2"}
  BY DEF DeleteListedRow, DeleteReplacedRow, Go, CallsOK, LocalsOK
<1>2. ~ListRows(h)
  BY <1>1 DEF ListRows
<1> QED BY <1>1, <1>2, ListSteps, RowDeleted DEF CallStep

LEMMA RowStep ==
  ASSUME ~StoreMayFail, RowInv, CallsOK, NEW h \in Handlers, CallStep(h)
  PROVE  RowInv'
<1>1. OnlyAt(h) /\ (Download(h) \/ HandlerStep(h) \/ Ran(h))
  BY DEF CallStep
<1>2. CreateFile(h) => pc'[h] = "insert"
  BY DEF CreateFile, Go, CallsOK, LocalsOK
<1> QED BY <1>1, <1>2, RowLookup, RowTouched, RowCounted, RowPhases, RowRows, RowCreated,
           RowInserted DEF HandlerStep

LEMMA RowNext ==
  ASSUME ~StoreMayFail, ~MayCrash, RowInv, CallsOK, QueueOK, [Next]_vars PROVE RowInv'
<1>1. ~CrashAndRestart
  BY DEF CrashAndRestart
<1>2. CASE UNCHANGED <<store, locals, pc>>
  BY <1>2 DEF RowInv, NoDanglingRow, NoOrphanFile, Fresh, store, locals
<1> QED BY <1>1, <1>2, Steps, RowStep

LEMMA RowInvariance == ASSUME ~StoreMayFail, ~MayCrash PROVE Spec => []RowInv
  BY RowInit, RowNext, CacheInvariance, PTL DEF Spec

\* However calls replace, clean up and add files at the same time, a row is
\* without its file only while the call that removed the file deletes it
\* (RemoveFileAndDbEntry), if statements and moves succeed and the server lives.
THEOREM RowsHaveFiles == ASSUME ~StoreMayFail, ~MayCrash PROVE Spec => []NoDanglingRow
<1>1. RowInv => NoDanglingRow
  BY DEF RowInv
<1> QED BY <1>1, RowInvariance, PTL

\* And a file is without a row only while the call that made it inserts the row
\* (AddDownloadedFile).
THEOREM FilesHaveRows == ASSUME ~StoreMayFail, ~MayCrash PROVE Spec => []NoOrphanFile
<1>1. RowInv => NoOrphanFile
  BY DEF RowInv
<1> QED BY <1>1, RowInvariance, PTL

-----------------------------------------------------------------------------
(* One call at a time, without faults: what Cleanup has read is what there  *)
(* is, and its total is the size of the cache.                             *)

Cleaning == {"size", "phase1", "row1", "phase2", "row2"}
\* From the insertion of a row until the first phase is done.
Overfull == {"clean", "size", "phase1", "row1"}

\* The size of the files that have been asked for theirs.
Asked(h) == Cardinality(Units(db, DOMAIN db \ unsized[h]))

AloneInv(h) ==
  /\ pc[h] \in Cleaning => listed[h] = db /\ total[h] = Asked(h)
  /\ pc[h] \notin Cleaning => total[h] = 0
  /\ pc[h] \notin Overfull => CachedSize <= MaxSize

LEMMA CachedFinite ==
  ASSUME CallsOK
  PROVE  /\ IsFiniteSet(DOMAIN disk \cap DOMAIN db) /\ IsFiniteSet(DOMAIN db)
         /\ \A f \in DOMAIN disk : disk[f].size \in Nat
         /\ \A f \in DOMAIN db : db[f].size \in Nat
         /\ CachedSize \in Nat
<1>1. /\ StoreOK /\ DOMAIN disk \cap DOMAIN db \in SUBSET Made /\ DOMAIN db \in SUBSET Made
  BY DEF CallsOK, StoreOK
<1>2. IsFiniteSet(DOMAIN disk \cap DOMAIN db) /\ IsFiniteSet(DOMAIN db)
  BY <1>1, NamesFinite
<1>3. /\ \A f \in DOMAIN disk : disk[f].size \in Nat
      /\ \A f \in DOMAIN db : db[f].size \in Nat
  BY <1>1, ContentsType, RowsType DEF StoreOK
<1>4. \A f \in DOMAIN disk \cap DOMAIN db : disk[f].size \in Nat
  BY <1>3
<1>5. CachedSize \in Nat
  BY <1>2, <1>4, UnitsFinite DEF CachedSize
<1> QED BY <1>2, <1>3, <1>5

\* Only the insertion of a row makes the cache larger.
LEMMA CachedShrinks ==
  ASSUME CallsOK, NEW h \in Handlers, CallStep(h), ~InsertRow(h)
  PROVE  CachedSize' \in Nat /\ CachedSize \in Nat /\ CachedSize' <= CachedSize
<1> DEFINE S == DOMAIN disk \cap DOMAIN db
<1>1. PICK R : R = DOMAIN disk' \cap DOMAIN db'
  OBVIOUS
<1>2. DiskShrinks /\ RowsShrink
  BY DiskSteps, RowSteps
<1>3. R \subseteq S /\ \A f \in R : disk'[f] = disk[f]
  BY <1>1, <1>2 DEF DiskShrinks, RowsShrink, CallsOK, StoreOK
<1>4. Units(disk', R) = Units(disk, R)
  BY <1>3, UnitsSame
<1>5. IsFiniteSet(S) /\ \A f \in S : disk[f].size \in Nat
  BY CachedFinite
<1>6. IsFiniteSet(R) /\ Cardinality(Units(disk, R)) <= Cardinality(Units(disk, S))
  BY <1>3, <1>5, UnitsSubset
<1>7. CachedSize' = Cardinality(Units(disk', R)) /\ CachedSize = Cardinality(Units(disk, S))
  BY <1>1 DEF CachedSize, Units
<1>8. \A f \in R : disk[f].size \in Nat
  BY <1>3, <1>5
<1>9. Cardinality(Units(disk, R)) \in Nat
  BY <1>6, <1>8, UnitsFinite
<1>10. CachedSize \in Nat
  BY CachedFinite
<1> QED BY <1>4, <1>6, <1>7, <1>9, <1>10

\* No file that has a row is missing.
LEMMA NoneMissing ==
  ASSUME NEW h, Handlers = {h}, RowInv, pc[h] \notin {"row0", "row1", "row2"}
  PROVE  DOMAIN db \subseteq DOMAIN disk
  BY DEF RowInv, NoDanglingRow

\* The size that Cleanup compares is that of the cache.
LEMMA TotalIsCached ==
  ASSUME NEW h, Handlers = {h}, CallsOK, RowInv, SizeInv, AloneInv(h),
         pc[h] \in {"phase1", "phase2"}
  PROVE  total[h] = CachedSize /\ listed[h] = db
<1>1. DOMAIN db \subseteq DOMAIN disk
  BY NoneMissing
<1>2. DOMAIN disk \cap DOMAIN db = DOMAIN db /\ \A f \in DOMAIN db : disk[f].size = db[f].size
  BY <1>1 DEF SizeInv
<1>3. Units(disk, DOMAIN db) = Units(db, DOMAIN db)
  BY <1>2, UnitsSame
<1>4. unsized[h] = {}
  BY DEF CallsOK, HandlerOK
<1>5. DOMAIN db \ unsized[h] = DOMAIN db
  BY <1>4
<1>6. total[h] = Cardinality(Units(db, DOMAIN db)) /\ listed[h] = db
  BY <1>5 DEF AloneInv, Asked, Cleaning
<1>7. CachedSize = Cardinality(Units(disk, DOMAIN db))
  BY <1>2 DEF CachedSize
<1> QED BY <1>3, <1>6, <1>7

\* No file is missing, so neither phase gives up.
LEMMA Phase1Steps ==
  ASSUME NEW h, Handlers = {h}, CallsOK, RowInv, AloneInv(h), Phase1(h)
  PROVE  /\ UNCHANGED db /\ pc[h] = "phase1" /\ UNCHANGED <<listed, unsized, total>>
         /\ \/ pc'[h] = "row1"
            \/ pc'[h] = "phase2" /\ (~TooLarge(h) \/ DOMAIN listed[h] = {})
<1>1. pc[h] = "phase1" /\ UNCHANGED db
  BY DEF Phase1
<1>2. DOMAIN listed[h] \subseteq DOMAIN disk
  BY <1>1, NoneMissing DEF AloneInv, Cleaning
<1>3. \/ /\ ~TooLarge(h) \/ DOMAIN listed[h] = {}
         /\ Go(h, "phase2") /\ UNCHANGED locals
      \/ \E f \in DOMAIN listed[h] :
           Go(h, "row1") /\ UNCHANGED <<req, content, listed, unsized, total>>
  BY <1>2 DEF Phase1, Oldest, RemoveFile
<1> QED BY <1>1, <1>3 DEF Go, CallsOK, LocalsOK, locals

LEMMA Phase2Steps ==
  ASSUME NEW h, Handlers = {h}, CallsOK, RowInv, AloneInv(h), Phase2(h)
  PROVE  /\ UNCHANGED db /\ pc[h] = "phase2"
         /\ \/ pc'[h] = "row2" /\ UNCHANGED <<listed, unsized, total>>
            \/ pc'[h] = "idle" /\ total'[h] = 0
<1>1. pc[h] = "phase2" /\ UNCHANGED db
  BY DEF Phase2
<1>2. \/ Return(h)
      \/ Go(h, "row2") /\ UNCHANGED <<req, content, listed, unsized, total>>
  BY DEF Phase2, Oldest, RemoveFile
<1> QED BY <1>1, <1>2 DEF Return, Go, CallsOK, LocalsOK

LEMMA AloneInit == ASSUME NEW h, Handlers = {h} PROVE Init => AloneInv(h)
<1> SUFFICES ASSUME Init PROVE AloneInv(h)
  OBVIOUS
<1>1. pc[h] = "idle" /\ total[h] = 0 /\ disk = NoRows /\ db = NoRows
  BY DEF Init, Every
<1>2. DOMAIN disk \cap DOMAIN db = {}
  BY <1>1 DEF NoRows
<1>3. CachedSize = 0
  BY <1>2, UnitsEmpty DEF CachedSize
<1> QED BY <1>1, <1>3, CleanupAssumption DEF AloneInv, Cleaning, Overfull

LEMMA AloneSized ==
  ASSUME NEW h, Handlers = {h}, CallsOK, RowInv, SizeInv, AloneInv(h), SizeFile(h)
  PROVE  /\ pc'[h] \in {"size", "phase1"} /\ listed'[h] = db'
         /\ total'[h] = Asked(h)'
<1>1. pc[h] = "size" /\ UNCHANGED <<disk, db, listed>>
  BY DEF SizeFile, store
<1>2. listed[h] = db /\ total[h] = Asked(h)
  BY <1>1 DEF AloneInv, Cleaning
<1>3. CASE unsized[h] = {} /\ Go(h, "phase1") /\ UNCHANGED <<unsized, total>>
  <2>1. pc'[h] = "phase1"
    BY <1>3 DEF Go, CallsOK, LocalsOK
  <2>2. Asked(h)' = Asked(h)
    BY <1>1, <1>3 DEF Asked, Units
  <2> QED BY <1>1, <1>2, <1>3, <2>1, <2>2
<1>4. ASSUME NEW f \in unsized[h],
             unsized' = [unsized EXCEPT ![h] = @ \ {f}],
             total' = [total EXCEPT ![h] = @ + SizeOnDisk(f)], UNCHANGED pc
      PROVE  total'[h] = Asked(h)'
  <2>1. unsized'[h] = unsized[h] \ {f} /\ total'[h] = total[h] + SizeOnDisk(f)
    BY <1>4 DEF CallsOK, LocalsOK
  <2>2. f \in DOMAIN db /\ f \in DOMAIN disk
    BY <1>1, <1>2, <1>4, NoneMissing DEF CallsOK, HandlerOK
  <2>3. SizeOnDisk(f) = db[f].size
    BY <2>2 DEF SizeOnDisk, SizeInv
  <2>4. PICK S : S = DOMAIN db \ unsized[h]
    OBVIOUS
  <2>5. f \notin S /\ S \cup {f} = DOMAIN db \ (unsized[h] \ {f}) /\ S \subseteq DOMAIN db
    BY <1>4, <2>2, <2>4
  <2>6. IsFiniteSet(S) /\ \A e \in S \cup {f} : db[e].size \in Nat
    BY <2>2, <2>5, CachedFinite, FS_Subset
  <2>7. Cardinality(Units(db, S \cup {f})) = Cardinality(Units(db, S)) + db[f].size
    BY <2>5, <2>6, UnitsAdd
  <2>8. Asked(h)' = Cardinality(Units(db, S \cup {f})) /\ Asked(h) = Cardinality(Units(db, S))
    BY <1>1, <2>1, <2>4, <2>5 DEF Asked, Units
  <2> QED BY <1>2, <2>1, <2>3, <2>7, <2>8
<1> QED BY <1>1, <1>2, <1>3, <1>4 DEF SizeFile

LEMMA AloneDeleted ==
  ASSUME NEW h, Handlers = {h}, ~StoreMayFail, CallsOK, AloneInv(h), DeleteListedRow(h)
  PROVE  /\ pc[h] \in {"row1", "row2"}
         /\ pc'[h] = IF pc[h] = "row1" THEN "phase1" ELSE "phase2"
         /\ listed'[h] = db' /\ total'[h] = Asked(h)'
<1>1. PICK f : f = target[h]
  OBVIOUS
<1>2. /\ pc[h] \in {"row1", "row2"} /\ db' = WithoutRow(f)
      /\ total'[h] = total[h] - listed[h][f].size
      /\ listed'[h] = Restrict(listed[h], DOMAIN listed[h] \ {f})
      /\ pc'[h] = (IF pc[h] = "row1" THEN "phase1" ELSE "phase2")
      /\ UNCHANGED unsized
  BY <1>1 DEF DeleteListedRow, Go, CallsOK, LocalsOK
<1>3. /\ listed[h] = db /\ total[h] = Asked(h) /\ unsized[h] = {} /\ f \in DOMAIN db
  BY <1>1, <1>2 DEF AloneInv, Cleaning, CallsOK, HandlerOK, Removing
<1>4. listed'[h] = db'
  BY <1>2, <1>3 DEF WithoutRow
<1>5. PICK S : S = DOMAIN db
  OBVIOUS
<1>6. IsFiniteSet(S) /\ f \in S /\ \A e \in S : db[e].size \in Nat
  BY <1>3, <1>5, CachedFinite
<1>7. Cardinality(Units(db, S)) = Cardinality(Units(db, S \ {f})) + db[f].size
  BY <1>6, UnitsRemove
<1>8. DOMAIN db' = S \ {f} /\ \A e \in S \ {f} : db'[e].size = db[e].size
  BY <1>2, <1>5 DEF WithoutRow, Restrict
<1>9. Units(db', S \ {f}) = Units(db, S \ {f})
  BY <1>8, UnitsSame
<1>10. Asked(h) = Cardinality(Units(db, S)) /\ Asked(h)' = Cardinality(Units(db', S \ {f}))
  <2>1. DOMAIN db \ unsized[h] = S /\ DOMAIN db' \ unsized'[h] = S \ {f}
    BY <1>2, <1>3, <1>5, <1>8
  <2> QED BY <2>1 DEF Asked, Units
<1>11. IsFiniteSet(S \ {f}) /\ \A e \in S \ {f} : db[e].size \in Nat
  BY <1>6, FS_Subset
<1>12. Cardinality(Units(db, S \ {f})) \in Nat
  BY <1>11, UnitsFinite
<1>13. \A x, y, z \in Nat : x = y + z => x - z = y
  OBVIOUS
<1>14. total'[h] = Asked(h) - db[f].size
  BY <1>2, <1>3
<1>15. Asked(h) - db[f].size = Cardinality(Units(db, S \ {f}))
  <2>1. db[f].size \in Nat /\ Cardinality(Units(db, S)) \in Nat
    BY <1>6, UnitsFinite
  <2> QED BY <2>1, <1>7, <1>10, <1>12, <1>13
<1> QED BY <1>2, <1>4, <1>9, <1>10, <1>14, <1>15

\* The steps outside Cleanup.
LEMMA AloneElsewhere ==
  ASSUME CallsOK, NEW h \in Handlers, CallStep(h), AloneInv(h),
         ~ListRows(h), ~SizeFile(h), ~Phase1(h), ~Phase2(h), ~DeleteListedRow(h)
  PROVE  pc[h] \notin Cleaning /\ pc'[h] \notin Cleaning /\ total'[h] = 0
<1>1. pc[h] \notin Cleaning /\ pc'[h] \notin Cleaning /\ total'[h] \in {total[h], 0}
  BY DEF CallsOK, LocalsOK, CallStep, Download, Ran, Taken, FinishTask, Cleaning, locals,
      HandlerStep, GetRow, StatFile, TouchRow, SendCached, AddTask, AddRow, KeepRow,
      ReplaceFile, DeleteReplacedRow, CreateFile, InsertRow, RemoveFile, Return,
      BeginCleanup, Go
<1> QED BY <1>1 DEF AloneInv

LEMMA AloneStep ==
  ASSUME NEW h, Handlers = {h}, ~StoreMayFail, CallsOK, CallsOK', RowInv, SizeInv, AloneInv(h),
         CallStep(h)
  PROVE  AloneInv(h)'
<1>1. ASSUME ListRows(h)
      PROVE  pc[h] = "clean" /\ pc'[h] = "size" /\ listed'[h] = db' /\ total'[h] = Asked(h)'
  <2>1. /\ pc[h] = "clean" /\ pc'[h] = "size" /\ listed'[h] = db' /\ total'[h] = total[h]
        /\ unsized'[h] = DOMAIN db'
    BY <1>1 DEF ListRows, Go, CallsOK, LocalsOK, store
  <2>2. total[h] = 0
    BY <2>1 DEF AloneInv, Cleaning
  <2>3. DOMAIN db' \ unsized'[h] = {}
    BY <2>1
  <2>4. Asked(h)' = Cardinality(Units(db', {}))
    BY <2>3 DEF Asked, Units
  <2> QED BY <2>1, <2>2, <2>4, UnitsEmpty
<1>2. (pc'[h] \in Cleaning => listed'[h] = db' /\ total'[h] = Asked(h)')
      /\ (pc'[h] \notin Cleaning => total'[h] = 0)
  <2>1. ASSUME UNCHANGED <<db, listed, unsized, total>>, pc[h] \in Cleaning
        PROVE  listed'[h] = db' /\ total'[h] = Asked(h)'
    BY <2>1 DEF AloneInv, Asked, Units
  <2>2. CASE Phase1(h)
    BY <2>1, <2>2, Phase1Steps DEF Cleaning
  <2>3. CASE Phase2(h)
    BY <2>1, <2>3, Phase2Steps DEF Cleaning
  <2>4. CASE ListRows(h)
    BY <1>1, <2>4 DEF Cleaning
  <2>5. CASE SizeFile(h)
    BY <2>5, AloneSized DEF Cleaning
  <2>6. CASE DeleteListedRow(h)
    BY <2>6, AloneDeleted DEF Cleaning
  <2> QED BY <2>2, <2>3, <2>4, <2>5, <2>6, AloneElsewhere
<1>3. ASSUME pc'[h] \notin Overfull PROVE CachedSize' <= MaxSize
  <2>1. pc[h] \in Overfull => Phase1(h) /\ pc'[h] = "phase2"
    <3>1. CASE ListRows(h)
      BY <1>1, <1>3, <3>1 DEF Overfull
    <3>2. CASE SizeFile(h)
      BY <1>3, <3>2, AloneSized DEF Overfull
    <3>3. CASE Phase1(h)
      BY <1>3, <3>3, Phase1Steps DEF Overfull
    <3>4. CASE DeleteListedRow(h)
      BY <1>3, <3>4, AloneDeleted DEF Overfull
    <3>5. CASE Phase2(h)
      BY <3>5 DEF Phase2, Overfull
    <3>6. CASE ~ListRows(h) /\ ~SizeFile(h) /\ ~Phase1(h) /\ ~Phase2(h) /\ ~DeleteListedRow(h)
      BY <3>6 DEF CallStep, HandlerStep, Download, Ran, Taken, FinishTask, GetRow, StatFile, TouchRow,
         SendCached, AddTask, AddRow, KeepRow, ReplaceFile, DeleteReplacedRow, CreateFile,
         InsertRow, Overfull
    <3> QED BY <3>1, <3>2, <3>3, <3>4, <3>5, <3>6
  <2>2. ~InsertRow(h)
    BY <1>3 DEF InsertRow, BeginCleanup, Go, CallsOK, LocalsOK, Overfull
  <2>3. /\ CachedSize' \in Nat /\ CachedSize \in Nat /\ CachedSize' <= CachedSize
        /\ MaxSize \in Nat
    BY <2>2, CachedShrinks, CleanupAssumption
  <2>4. CachedSize <= MaxSize
    <3>1. CASE pc[h] \notin Overfull
      BY <3>1 DEF AloneInv
    <3>2. CASE Phase1(h) /\ pc'[h] = "phase2"
      <4>1. total[h] = CachedSize /\ listed[h] = db
        BY <3>2, TotalIsCached DEF Phase1
      <4>2. CASE ~TooLarge(h)
        BY <2>3, <4>1, <4>2 DEF TooLarge
      <4>3. CASE DOMAIN listed[h] = {}
        <5>1. DOMAIN disk \cap DOMAIN db = {}
          BY <4>1, <4>3
        <5>2. CachedSize = 0
          BY <5>1, UnitsEmpty DEF CachedSize
        <5> QED BY <2>3, <5>2
      <4> QED BY <3>2, <4>2, <4>3, Phase1Steps
    <3> QED BY <2>1, <3>1, <3>2
  <2>5. \A x, y, z \in Nat : x <= y /\ y <= z => x <= z
    OBVIOUS
  <2> QED BY <2>3, <2>4, <2>5
<1> QED BY <1>2, <1>3 DEF AloneInv

LEMMA AloneNext ==
  ASSUME NEW h, Handlers = {h}, ~StoreMayFail, ~MayCrash, CallsOK, QueueOK, RowInv, SizeInv,
         AloneInv(h), [Next]_vars
  PROVE  AloneInv(h)'
<1>1. ~CrashAndRestart
  BY DEF CrashAndRestart
<1>2. CASE UNCHANGED <<store, locals, pc>>
  BY <1>2 DEF AloneInv, CachedSize, Asked, Units, store, locals
<1>3. CallsOK'
  BY Steps
<1> QED BY <1>1, <1>2, <1>3, Steps, AloneStep

LEMMA AloneInvariance ==
  ASSUME NEW h, Handlers = {h}, ~StoreMayFail, ~MayCrash PROVE Spec => []AloneInv(h)
  BY AloneInit, AloneNext, CacheInvariance, RowInvariance, PTL DEF Spec

\* When no call is running the cache is no larger than MaxSize (Cleanup, first
\* criterion), for calls that follow one another and do not fail.  Two calls at
\* a time may each clean up before the other's file has its row.
THEOREM CacheStaysSmall ==
  ASSUME NEW h, Handlers = {h}, ~StoreMayFail, ~MayCrash PROVE Spec => []SizeBoundedAtRest
<1>1. AloneInv(h) => SizeBoundedAtRest
  BY DEF AloneInv, SizeBoundedAtRest, Overfull
<1>2. Spec => []AloneInv(h)
  BY AloneInvariance
<1> QED BY <1>1, <1>2, PTL
=============================================================================
