--------------------------- MODULE KnowledgeIndex ---------------------------
(***************************************************************************)
(* The knowledge index of a gateway (claw/knowledge): the scan of an       *)
(* agent's files at startup, the watcher that follows their changes, the   *)
(* pull of a peer's index (claw/weave/client.py), and search.              *)
(*                                                                         *)
(* Scan and watcher run on the event loop, the pull in a worker thread,    *)
(* and both use one SQLite connection: their statements interleave, a      *)
(* commit of one commits what the other has written so far, and the row    *)
(* number the connection remembers is that of the last insert of either.   *)
(* A chunk is a row (its source and position) and a text in the full-text  *)
(* table, linked by the number of the text.  A version of a file stands    *)
(* for its contents; all versions have the same number of chunks.          *)
(***************************************************************************)
EXTENDS Integers, FiniteSets, FiniteSetsExt

CONSTANTS
  Files,       \* files in the workspace directory of an agent
  Versions,    \* contents with at least a chunk
  Absent,      \* no file
  Empty,       \* a file without text
  NChunks,     \* chunks of a version
  MaxEvents    \* bound: changes of files, pulls of the peer's index and restarts

Export == "export"

ASSUME KnowledgeAssumption ==
  /\ Export \notin Files
  /\ Versions # {} /\ Absent \notin Versions /\ Empty \notin Versions /\ Absent # Empty
  /\ NChunks \in Nat \ {0}
  /\ MaxEvents \in Nat

VARIABLES
  disk,     \* the contents of each file
  phase,    \* of the gateway: scanning, then starting, then watching
  toScan,   \* files the startup scan has listed and not read yet
  batch,    \* changes the watcher is going through
  pending,  \* changes for its next batch
  job,      \* what the loop and the worker are doing to the index
  rows,     \* the table of chunks
  texts,    \* the full-text table
  last,     \* last_insert_rowid of the connection
  saved,    \* what is committed
  events,   \* edits, pulls and restarts so far
  lagging,  \* history variable: files with a change that nobody tells the watcher,
            \* or tells it out of order
  overlapped \* history variable: a statement ran while the other thread was in the index

fileVars == <<disk, batch, pending, lagging>>
tableVars == <<rows, texts, last, saved>>
indexVars == <<fileVars, tableVars, phase, toScan, job, events, overlapped>>

Threads == {"loop", "worker"}
Sources == Files \cup {Export}
\* Every file is in the namespace of its agent, the export in that of the peer.
Namespace(s) == IF s = Export THEN "peer" ELSE "own"

Chunk == [source : Sources, version : Versions, pos : 1..NChunks]
Idle == [step |-> "idle"]
\* upto: how many chunks there are to insert; next: the one that comes next.
Job == {Idle} \cup
  [step : {"clearTexts", "clearRows", "clearCommit", "insertText", "insertRow", "commit"},
   source : Sources, version : Versions \cup {Absent}, upto : 0..NChunks, next : 1..(NChunks + 1)]

IndexTypeOK ==
  /\ disk \in [Files -> Versions \cup {Absent, Empty}]
  /\ phase \in {"scanning", "starting", "watching"}
  /\ toScan \in SUBSET Files
  /\ batch \in SUBSET ({"changed", "deleted"} \X Files)
  /\ pending \in SUBSET ({"changed", "deleted"} \X Files)
  /\ job \in [Threads -> Job]
  /\ \A r \in rows : r.chunk \in Chunk /\ r.text \in Nat
  /\ \A t \in texts : t.chunk \in Chunk /\ t.id \in Nat
  /\ last \in Nat
  /\ DOMAIN saved = {"rows", "texts"}
  /\ events \in 0..MaxEvents
  /\ lagging \in SUBSET Files
  /\ overlapped \in BOOLEAN

Present(d) == {f \in Files : d[f] # Absent}

IndexInit ==
  /\ disk \in [Files -> Versions \cup {Absent}]
  /\ phase = "scanning"
  /\ toScan = Present(disk)
  /\ batch = {} /\ pending = {}
  /\ job = [t \in Threads |-> Idle]
  /\ rows = {} /\ texts = {} /\ last = 0
  /\ saved = [rows |-> {}, texts |-> {}]
  /\ events = 0
  /\ lagging = {}
  /\ overlapped = FALSE

-----------------------------------------------------------------------------
\* Definitions whose comment starts with "Wrong:" are used by no definition of
\* the system; each is a slip one of the properties must notice.

Event == events < MaxEvents /\ events' = events + 1

Begin(source, version, upto) ==
  [step |-> "clearTexts", source |-> source, version |-> version, upto |-> upto, next |-> 1]

\* clear_source, then upsert_many.
Reindex(f, v) == Begin(f, v, NChunks)

\* Wrong: the pull inserts without clear_workspace.
PulledWithoutClear(v, n) == [Begin(Export, v, n) EXCEPT !.step = "insertText"]

\* clear_workspace for the peer's namespace, then upsert_many of the n chunks.
Pulled(v, n) == Begin(Export, v, n)

Remove(f) == Begin(f, Absent, 0)

-----------------------------------------------------------------------------
(* Files change; the watcher is told once it watches.                      *)

\* A change nobody tells the watcher of, of a file the scan will not read.
Unseen(f, c) == phase # "watching" /\ (f \notin toScan \/ c = Absent)

Edit(f, c) ==
  LET told == IF c = Absent THEN <<"deleted", f>> ELSE <<"changed", f>>
  IN  /\ disk[f] # c
      /\ Event
      /\ disk' = [disk EXCEPT ![f] = c]
      /\ pending' = IF phase = "watching" THEN pending \cup {told} ELSE pending
      /\ lagging' = IF \/ Unseen(f, c)
                       \/ {<<"deleted", f>>, <<"changed", f>>} \subseteq pending'
                    THEN lagging \cup {f} ELSE lagging
      /\ UNCHANGED <<phase, toScan, batch, job, tableVars, overlapped>>

\* The startup scan reads the next file; one without chunks is passed over.
Scan(f) ==
  /\ phase = "scanning" /\ f \in toScan
  /\ job["loop"] = Idle
  /\ toScan' = toScan \ {f}
  /\ IF disk[f] \in Versions
     THEN /\ job' = [job EXCEPT !["loop"] = Reindex(f, disk[f])]
          /\ lagging' = lagging \ {f}
     ELSE UNCHANGED <<job, lagging>>
  /\ UNCHANGED <<disk, phase, batch, pending, tableVars, events, overlapped>>

ScanEnds ==
  /\ phase = "scanning" /\ toScan = {} /\ job["loop"] = Idle
  /\ phase' = "starting"
  /\ UNCHANGED <<fileVars, tableVars, toScan, job, events, overlapped>>

\* awatch starts: it knows of changes from now on.
Watch ==
  /\ phase = "starting"
  /\ phase' = "watching"
  /\ UNCHANGED <<fileVars, tableVars, toScan, job, events, overlapped>>

\* Wrong: changes once handled come again.
LeftOverAll(changes) == changes
LeftOver(changes) == {}

\* awatch yields the changes that came while the last ones were handled.
NextBatch ==
  /\ phase = "watching" /\ job["loop"] = Idle
  /\ batch = {} /\ pending # {}
  /\ batch' = pending /\ pending' = LeftOver(pending)
  /\ UNCHANGED <<disk, lagging, tableVars, phase, toScan, job, events, overlapped>>

\* Wrong: what is deleted stays in the index.
OnDeleteNothing(f) == Idle
OnDelete(f) == Remove(f)

\* The watcher handles one change of the batch, in no particular order.
Handle(kind, f) ==
  /\ phase = "watching" /\ job["loop"] = Idle
  /\ <<kind, f>> \in batch
  /\ batch' = batch \ {<<kind, f>>}
  /\ job' = IF kind = "deleted" THEN [job EXCEPT !["loop"] = OnDelete(f)]
            ELSE IF disk[f] \in Versions THEN [job EXCEPT !["loop"] = Reindex(f, disk[f])]
            ELSE job
  /\ lagging' = IF /\ kind = "deleted" <=> disk[f] = Absent
                   /\ \A e \in batch' \cup pending : e[2] # f
                THEN lagging \ {f} ELSE lagging
  /\ UNCHANGED <<disk, pending, tableVars, phase, toScan, events, overlapped>>

\* The sync loop has fetched the peer's export, of whatever the peer had in its
\* index: n chunks of one version.
Pull(v, n) ==
  /\ phase # "scanning"
  /\ job["worker"] = Idle
  /\ Event
  /\ job' = [job EXCEPT !["worker"] = Pulled(v, n)]
  /\ UNCHANGED <<fileVars, tableVars, phase, toScan, overlapped>>

-----------------------------------------------------------------------------
(* The statements of clear_source, clear_workspace and upsert_many.        *)

RowsOf(s) == {r \in rows : r.chunk.source = s}

\* Wrong: the texts of deleted rows stay.
TextsOfNone(s) == {}
TextsOf(s) == {r.text : r \in RowsOf(s)}

\* The next text's number: one more than the largest.
NewId == 1 + Max({0} \cup {t.id : t \in texts})

GoTo(t, next) == job' = [job EXCEPT ![t] = next]
Step(t, from, to) == job[t].step = from /\ GoTo(t, [job[t] EXCEPT !.step = to])

ClearTexts(t) ==
  /\ Step(t, "clearTexts", "clearRows")
  /\ texts' = {x \in texts : x.id \notin TextsOf(job[t].source)}
  /\ UNCHANGED <<rows, last, saved>>

ClearRows(t) ==
  /\ Step(t, "clearRows", "clearCommit")
  /\ rows' = rows \ RowsOf(job[t].source)
  /\ UNCHANGED <<texts, last, saved>>

Commit == saved' = [rows |-> rows, texts |-> texts]

HasMore(j) == j.next <= j.upto

ClearCommit(t) ==
  /\ job[t].step = "clearCommit"
  /\ Commit
  /\ GoTo(t, IF HasMore(job[t]) THEN [job[t] EXCEPT !.step = "insertText"] ELSE Idle)
  /\ UNCHANGED <<rows, texts, last>>

ChunkAt(j) == [source |-> j.source, version |-> j.version, pos |-> j.next]

InsertText(t) ==
  /\ Step(t, "insertText", "insertRow")
  /\ texts' = texts \cup {[id |-> NewId, chunk |-> ChunkAt(job[t])]}
  /\ last' = NewId
  /\ UNCHANGED <<rows, saved>>

\* cursor.lastrowid is read from the connection after the statement: an insert
\* of the other thread can come first.
InsertRow(t) ==
  LET more == [job[t] EXCEPT !.next = @ + 1]
  IN  /\ job[t].step = "insertRow"
      /\ GoTo(t, [more EXCEPT !.step = IF HasMore(more) THEN "insertText" ELSE "commit"])
      /\ rows' = rows \cup {[chunk |-> ChunkAt(job[t]), text |-> last]}
      /\ UNCHANGED <<texts, last, saved>>

InsertCommit(t) ==
  /\ job[t].step = "commit"
  /\ Commit
  /\ GoTo(t, Idle)
  /\ UNCHANGED <<rows, texts, last>>

Statement(t) ==
  /\ \/ ClearTexts(t) \/ ClearRows(t) \/ ClearCommit(t)
     \/ InsertText(t) \/ InsertRow(t) \/ InsertCommit(t)
  /\ overlapped' = (overlapped \/ \A u \in Threads : job[u] # Idle)
  /\ UNCHANGED <<fileVars, phase, toScan, events>>

\* The gateway stops and starts again: what was not committed is gone, and the
\* files that exist are scanned.
Crash ==
  /\ Event
  /\ phase' = "scanning"
  /\ toScan' = Present(disk)
  /\ batch' = {} /\ pending' = {}
  /\ job' = [t \in Threads |-> Idle]
  /\ rows' = saved.rows /\ texts' = saved.texts /\ last' = 0
  /\ lagging' = lagging \cup (Files \ Present(disk))
  /\ UNCHANGED <<disk, saved, overlapped>>

IndexTerminated ==
  /\ phase = "watching" /\ batch = {} /\ pending = {} /\ job["loop"] = Idle /\ job["worker"] = Idle
  /\ UNCHANGED indexVars

Advance ==
  \/ \E f \in Files : Scan(f)
  \/ ScanEnds \/ Watch \/ NextBatch
  \/ \E kind \in {"changed", "deleted"}, f \in Files : Handle(kind, f)
  \/ Statement("loop")

IndexNext ==
  \/ Advance
  \/ Statement("worker")
  \/ \E f \in Files, c \in Versions \cup {Absent, Empty} : Edit(f, c)
  \/ \E v \in Versions, n \in 0..NChunks : Pull(v, n)
  \/ Crash
  \/ IndexTerminated

IndexSpec == IndexInit /\ [][IndexNext]_indexVars

\* The event loop and the worker thread run.
FairIndexSpec == IndexSpec /\ WF_indexVars(Advance) /\ WF_indexVars(Statement("worker"))
-----------------------------------------------------------------------------
(* Properties.                                                             *)

Linked(r) == [id |-> r.text, chunk |-> r.chunk] \in texts

Quiet == phase = "watching" /\ batch = {} /\ pending = {} /\ job["loop"] = Idle

\* The index has every chunk of what is in the file, once.
Fresh(f) ==
  /\ {r.chunk : r \in RowsOf(f)} = {[source |-> f, version |-> disk[f], pos |-> i] : i \in 1..NChunks}
  /\ Cardinality(RowsOf(f)) = NChunks

\* When the watcher has nothing left to do, the index has the text of every
\* file as it is now and nothing of a file that is gone, whatever was edited
\* while the gateway scanned, was indexing or was down.  Not covered: changes
\* nobody told the watcher of, a deletion and a creation in one batch, and a
\* file that was emptied, which keeps its old chunks (watcher.py, "if chunks").
IndexIsFresh ==
  Quiet => \A f \in Files \ lagging :
             /\ disk[f] \in Versions => Fresh(f)
             /\ disk[f] = Absent => RowsOf(f) = {}

FirstChunks(table, s) ==
  LET chunks == {r.chunk : r \in {x \in table : x.chunk.source = s}}
  IN  \E v \in Versions, n \in 0..NChunks :
        chunks = {[source |-> s, version |-> v, pos |-> i] : i \in 1..n}

\* At every moment, and in what a restart finds, the index has a beginning of
\* one version of each file and of the peer's export, never a mixture of two:
\* clear and insert are several statements, and commits of the other thread
\* fall between them.
NoMixture == \A table \in {rows, saved.rows}, s \in Sources : FirstChunks(table, s)

\* As long as the loop and the worker were never in the index together, rows
\* and texts match one to one whenever neither is, and always in what is
\* committed: search finds every chunk, and no text is left without its row.
OneTextPerRow ==
  LET Match(rs, ts) == /\ {[id |-> r.text, chunk |-> r.chunk] : r \in rs} = ts
                       /\ Cardinality({r.text : r \in rs}) = Cardinality(rs)
  IN  ~overlapped => /\ Match(saved.rows, saved.texts)
                     /\ (\A t \in Threads : job[t] = Idle) => Match(rows, texts)

\* Once the files change no more, the watcher comes to rest.
EventuallyQuiet == <>[]Quiet
=============================================================================
