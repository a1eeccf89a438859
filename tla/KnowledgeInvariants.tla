------------------------ MODULE KnowledgeInvariants ------------------------
(***************************************************************************)
(* The inductive invariants of KnowledgeIndex: what holds between any two  *)
(* statements of the loop and the worker and makes the properties of that  *)
(* module hold.  MemoryStoresProofs has the proofs.                        *)
(***************************************************************************)
EXTENDS KnowledgeIndex

Row == [chunk : Chunk, text : Nat]
Text == [id : Nat, chunk : Chunk]

\* A statement finds and leaves tables of rows and texts.
TypedIndex ==
  /\ IndexTypeOK
  /\ rows \in SUBSET Row /\ texts \in SUBSET Text
  /\ saved \in [rows : SUBSET Row, texts : SUBSET Text]
  /\ IsFiniteSet(rows) /\ IsFiniteSet(texts)
  /\ IsFiniteSet(saved.rows) /\ IsFiniteSet(saved.texts)

-----------------------------------------------------------------------------
(* No mixture: the threads write the rows of different sources, and a      *)
(* thread's rows are always the chunks before its next one.                *)

SourcesOf(t) == IF t = "loop" THEN Files ELSE {Export}

\* The table has the first n chunks of version v of s, and nothing else of s.
Holds(table, s, v, n) ==
  /\ \A r \in table : r.chunk.source = s => r.chunk.version = v /\ r.chunk.pos \in 1..n
  /\ \A i \in 1..n : \E r \in table : r.chunk = [source |-> s, version |-> v, pos |-> i]

\* Every source has a beginning of one version, each chunk once.
Tidy(table) ==
  /\ \A s \in Sources : \E v \in Versions, n \in 0..NChunks : Holds(table, s, v, n)
  /\ \A r, q \in table : r.chunk = q.chunk => r = q

Clearing == {"clearTexts", "clearRows", "clearCommit"}
Inserting == {"insertText", "insertRow", "commit"}

\* How far the job of a thread is.
AtStep(t) ==
  LET j == job[t]
  IN  /\ j.source \in SourcesOf(t)
      /\ j.version \in Versions \/ (j.version = Absent /\ j.upto = 0)
      /\ t = "loop" /\ j.version \in Versions => j.upto = NChunks
      /\ j.step \in Clearing => j.next = 1
      /\ j.step \in {"insertText", "insertRow"} => j.next <= j.upto
      /\ j.step = "commit" => j.next = j.upto + 1
      /\ j.step \in Inserting => j.version \in Versions
      /\ j.step \in {"clearCommit"} \cup Inserting => Holds(rows, j.source, j.version, j.next - 1)

Working == \A t \in Threads : job[t] # Idle => AtStep(t)

TidyInv == Tidy(rows) /\ Tidy(saved.rows) /\ Working

-----------------------------------------------------------------------------
(* Freshness: a file whose rows are not those of its contents is still to  *)
(* be scanned, has a change the watcher will hear of, or is being indexed. *)

EventFor(f) == IF disk[f] = Absent THEN <<"deleted", f>> ELSE <<"changed", f>>
EventsOf(f, changes) == {e \in changes : e[2] = f}

\* The rows of f are those of its contents, or are becoming them.
UpToDate(f) ==
  IF job["loop"] # Idle /\ job["loop"].source = f
  THEN disk[f] # Empty => job["loop"].version = disk[f]
  ELSE /\ disk[f] \in Versions => Holds(rows, f, disk[f], NChunks)
       /\ disk[f] = Absent => RowsOf(f) = {}

Follows(f) ==
  /\ f \in toScan => disk[f] # Absent
  /\ EventsOf(f, pending) \subseteq {EventFor(f)}
  /\ EventsOf(f, pending) = {} => EventsOf(f, batch) \subseteq {EventFor(f)}
  /\ f \notin toScan /\ EventsOf(f, batch \cup pending) = {} => UpToDate(f)

FreshInv ==
  /\ phase # "watching" => batch = {} /\ pending = {}
  /\ phase # "scanning" => toScan = {}
  /\ \A f \in Files \ lagging : Follows(f)

-----------------------------------------------------------------------------
(* One text per row: what is amiss between two statements of a thread that *)
(* is alone in the index is what its next statement puts right.            *)

Link(r) == [id |-> r.text, chunk |-> r.chunk]

\* One text for each row and no others.
Paired(rs, ts) ==
  /\ \A r \in rs : Link(r) \in ts
  /\ \A x \in ts : \E r \in rs : x = Link(r)
  /\ \A r, q \in rs : r.text = q.text => r = q

InIndex(t) == job[t] # Idle /\ job[t].step # "clearTexts"

\* The text just inserted, whose row comes next
NewText(t) == [id |-> last, chunk |-> ChunkAt(job[t])]

\* Rows and texts between two statements of t.
Midway(t) ==
  /\ job[t].step = "clearRows" => Paired(rows \ RowsOf(job[t].source), texts)
  /\ job[t].step \in {"clearCommit", "insertText", "commit"} => Paired(rows, texts)
  /\ job[t].step = "insertRow" =>
       /\ NewText(t) \in texts /\ Paired(rows, texts \ {NewText(t)})
       /\ \A r \in rows : r.text # last

LinkInv ==
  ~overlapped =>
    /\ Paired(saved.rows, saved.texts)
    /\ (\A t \in Threads : ~InIndex(t)) => Paired(rows, texts)
    /\ \A t \in Threads : InIndex(t) => Midway(t) /\ \A u \in Threads \ {t} : ~InIndex(u)
=============================================================================
