------------------------ MODULE WorkspaceSyncProofs ------------------------
(***************************************************************************)
(* Proofs about WorkspaceSync, for any nodes and writes: no store call or  *)
(* push blends two versions, a push never replaces a newer version it has  *)
(* seen, and nodes at rest agree on every object of which nothing was      *)
(* missed.                                                                 *)
(***************************************************************************)
EXTENDS WorkspaceSync, TLAPS

\* A push, and the call it becomes, carries a version, and looks only for rows
\* of its id that are older.
CallsSound ==
  \A c \in calls :
    /\ c.kind = "sync" => c.row \in versions
    /\ c.kind = "sync" => \A old \in c.seen : old.id = c.row.id /\ old.at < c.row.at
    /\ c.kind = "sync" => c.step # "stored"
    /\ c.kind = "upsert" => c.row.id \in done
    /\ c.kind = "update" => c.step # "called" /\ c.seen # {}
    /\ \A old, other \in c.seen : old = other

\* An id is used up when it is first written.
IdsDone == \A v \in versions : v.id \in done

\* A table has one row of an id.
OneRow == \A n \in Nodes : \A r, other \in rows[n] : r.id = other.id => r = other

\* The node holds v, or a version of its time or a later one.
Holds(n, v) == \E r \in rows[n] : r.id = v.id /\ r.at >= v.at

\* The node holds v, or something as new is on the way to it.
Reaches(v, m) ==
  \/ Holds(m, v)
  \/ \E p \in network : p.to = m /\ p.row.id = v.id /\ p.row.at >= v.at
  \/ \E c \in calls : c.kind = "sync" /\ c.node = m /\ c.row.id = v.id /\ c.row.at >= v.at
  \/ \E c \in calls : /\ c.step = "stored"
                      /\ \E old \in c.seen : old.id = v.id
                      /\ Holds(c.node, v)

\* Unless it was missed, a version reaches every node.
AllReached == \A v \in versions : v.id \notin missed => \A m \in Nodes : Reaches(v, m)

Sound == TypeOK /\ NothingInvented /\ CallsSound /\ IdsDone /\ OneRow
IInv == Sound /\ AllReached

USE WritesAssumption
-----------------------------------------------------------------------------
LEMMA InitIInv == Init => IInv
BY DEF Init, IInv, Sound, TypeOK, NothingInvented, CallsSound, IdsDone, OneRow,
       AllReached, Times

-----------------------------------------------------------------------------
(* Types and versions.                                                     *)

LEMMA CreateSound ==
  ASSUME Sound, NEW w \in Writes, NEW t \in Times, NEW hook \in BOOLEAN,
         CreateDocument(w, t, hook)
  PROVE  Sound'
<1> DEFINE row == [id |-> w, name |-> NameOf[w], body |-> w, at |-> t]
           c == [kind |-> "upsert", hook |-> hook, node |-> NodeOf[w], step |-> "called",
                 seen |-> {}, row |-> row]
<1>1. /\ w \in Docs /\ w \notin done /\ done' = done \cup {w}
      /\ clock' = [clock EXCEPT ![NodeOf[w]] = t] /\ calls' = calls \cup {c}
      /\ UNCHANGED <<rows, network, versions, missed>>
  BY DEF CreateDocument, Reads, historyVars
<1>2. c \in Call
  BY <1>1 DEF Call, Row, Ids, Writes, Names
<1>3. TypeOK'
  BY <1>1, <1>2 DEF Sound, TypeOK, Writes
<1>4. NothingInvented'
  BY <1>1, <1>3 DEF Sound, NothingInvented
<1>5. CallsSound'
  BY <1>1 DEF Sound, CallsSound
<1>6. IdsDone' /\ OneRow'
  BY <1>1 DEF Sound, IdsDone, OneRow
<1> QED BY <1>3, <1>4, <1>5, <1>6 DEF Sound

LEMMA PublishFacts ==
  ASSUME TypeOK, NEW c, NEW row \in Row, Publish(c, row)
  PROVE  /\ network' \in SUBSET Push
         /\ \A p \in network' : p \in network \/ p.row = row
         /\ network \subseteq network'
         /\ PushesOn(c) => \A m \in Nodes \ {c.node} :
              \E p \in network' : p.to = m /\ p.row = row
<1>1. CASE PushesOn(c)
  <2>1. network' = network \cup {[to |-> m, row |-> row] : m \in Nodes \ {c.node}}
    BY <1>1 DEF Publish, Peers
  <2>2. \A m \in Nodes \ {c.node} : [to |-> m, row |-> row] \in network'
    BY <2>1
  <2>3. network' \in SUBSET Push /\ \A p \in network' : p \in network \/ p.row = row
    BY <2>1 DEF TypeOK, Push
  <2> QED BY <2>1, <2>2, <2>3
<1>2. CASE ~PushesOn(c)
  BY <1>2 DEF Publish, TypeOK
<1> QED BY <1>1, <1>2

LEMMA CreateTaskSound ==
  ASSUME Sound, NEW w \in Writes, NEW t \in Times, NEW hook \in BOOLEAN,
         CreateTask(w, t, hook)
  PROVE  Sound'
<1> DEFINE row == [id |-> w, name |-> "task", body |-> w, at |-> t]
           n == NodeOf[w]
           c == [hook |-> hook, node |-> n]
<1>1. /\ w \in NewTasks /\ w \notin done /\ done' = done \cup {w}
      /\ clock' = [clock EXCEPT ![n] = t] /\ rows' = [rows EXCEPT ![n] = @ \cup {row}]
      /\ versions' = versions \cup {row} /\ missed' \subseteq missed \cup {w}
      /\ Publish(c, row) /\ UNCHANGED calls
  BY DEF CreateTask, Reads
<1>2. row \in Row /\ n \in Nodes
  BY <1>1 DEF Row, Ids, Writes, Names
<1>3. /\ network' \in SUBSET Push
      /\ \A p \in network' : p \in network \/ p.row = row
  <2> HIDE DEF row, c
  <2> QED BY <1>1, <1>2, PublishFacts DEF Sound
<1>4. TypeOK'
  <2>1. rows' \in [Nodes -> SUBSET Row] /\ versions' \in SUBSET Row
    BY <1>1, <1>2 DEF Sound, TypeOK
  <2> QED BY <1>1, <1>3, <2>1 DEF Sound, TypeOK, Writes, Ids
<1>5. NothingInvented'
  <2>1. \A m \in Nodes : rows'[m] \subseteq rows[m] \cup {row}
    BY <1>1 DEF Sound, TypeOK
  <2> HIDE DEF row, c
  <2> QED BY <1>1, <1>3, <1>4, <2>1 DEF Sound, NothingInvented
<1>6. CallsSound'
  BY <1>1 DEF Sound, CallsSound
<1>7. IdsDone'
  BY <1>1 DEF Sound, IdsDone
<1>8. OneRow'
  <2>1. \A m \in Nodes : \A r \in rows[m] : r.id # w
    BY <1>1 DEF Sound, NothingInvented, IdsDone
  <2> QED BY <1>1, <2>1 DEF Sound, OneRow, TypeOK
<1> QED BY <1>4, <1>5, <1>6, <1>7, <1>8 DEF Sound

LEMMA UpdateTaskSound ==
  ASSUME Sound, NEW w \in Writes, NEW hook \in BOOLEAN, UpdateTask(w, hook)
  PROVE  Sound'
<1> DEFINE n == NodeOf[w]
           Of(old) == [kind |-> "update", hook |-> hook, node |-> n, step |-> "selected",
                       seen |-> {old}, row |-> [old EXCEPT !.body = w]]
<1>1. /\ done' = done \cup {w}
      /\ calls' = calls \cup {Of(old) : old \in RowsOf(n, TargetOf[w])}
      /\ UNCHANGED <<rows, network, clock, versions, missed>>
  BY DEF UpdateTask, historyVars
<1>2. \A old \in RowsOf(n, TargetOf[w]) : old \in Row /\ old \in versions
  BY DEF Sound, TypeOK, RowsOf, NothingInvented
<1>3. \A old \in RowsOf(n, TargetOf[w]) : Of(old) \in Call
  BY <1>2 DEF Call, Row
<1>4. TypeOK'
  BY <1>1, <1>3 DEF Sound, TypeOK
<1>5. NothingInvented'
  BY <1>1, <1>2, <1>4 DEF Sound, NothingInvented
<1>6. CallsSound'
  BY <1>1 DEF Sound, CallsSound
<1>7. IdsDone' /\ OneRow'
  BY <1>1 DEF Sound, IdsDone, OneRow
<1> QED BY <1>4, <1>5, <1>6, <1>7 DEF Sound

\* What the SELECT of a call can lead to: a push that is too old ends, and any
\* other call goes on with the row it found, if any.
LEMMA SelectFacts ==
  ASSUME Sound, NEW c \in calls, Select(c)
  PROVE  \/ /\ c.kind = "sync" /\ calls' = calls \ {c}
            /\ \E old \in rows[c.node] : old.id = c.row.id /\ old.at >= c.row.at
         \/ \E seen \in SUBSET rows[c.node] :
              /\ calls' = (calls \ {c}) \cup {[c EXCEPT !.step = "selected", !.seen = seen]}
              /\ \A old, other \in seen : old = other
              /\ c.kind = "sync" => \A old \in seen : old.id = c.row.id /\ old.at < c.row.at
<1> DEFINE found == IF c.kind = "upsert"
                    THEN {r \in rows[c.node] : r.id \in Docs /\ r.name = c.row.name}
                    ELSE RowsOf(c.node, c.row.id)
           Go(seen) == [c EXCEPT !.step = "selected", !.seen = seen]
<1>1. /\ c \in Call /\ rows[c.node] \subseteq Row /\ found \subseteq rows[c.node]
      /\ c.kind = "sync" => \A old \in found : old.id = c.row.id
  BY DEF Sound, TypeOK, Call, RowsOf
<1>2. CASE found = {}
  <2>1. calls' \in {(calls \ {c}) \cup {Go({})}}
    BY <1>2 DEF Select
  <2>2. {} \in SUBSET rows[c.node] /\ calls' = (calls \ {c}) \cup {Go({})}
    BY <2>1
  <2> QED BY <2>2
<1>3. CASE found # {}
  <2>1. PICK old \in found : calls' = IF c.kind = "sync" /\ ~Admits(c, old)
                                      THEN calls \ {c}
                                      ELSE (calls \ {c}) \cup {Go({old})}
    BY <1>3 DEF Select
  <2>2. old.at \in Int /\ c.row.at \in Int
    BY <1>1 DEF Call, Row, Times
  <2>3. CASE c.kind = "sync" /\ ~Admits(c, old)
    <3>1. old \in rows[c.node] /\ old.id = c.row.id
      BY <1>1, <2>3
    <3>2. calls' = calls \ {c} /\ old.at >= c.row.at
      BY <2>1, <2>2, <2>3 DEF Admits
    <3> QED BY <2>3, <3>1, <3>2
  <2>4. CASE ~(c.kind = "sync" /\ ~Admits(c, old))
    <3>1. {old} \in SUBSET rows[c.node] /\ calls' = (calls \ {c}) \cup {Go({old})}
      BY <1>1, <2>1, <2>4
    <3>2. c.kind = "sync" => old.id = c.row.id /\ old.at < c.row.at
      BY <1>1, <2>2, <2>4 DEF Admits
    <3> QED BY <3>1, <3>2
  <2> QED BY <2>3, <2>4
<1> QED BY <1>2, <1>3

LEMMA SelectSound ==
  ASSUME Sound, NEW c \in calls, Select(c)
  PROVE  Sound'
<1>1. UNCHANGED <<rows, network, clock, done, versions, missed>>
  BY DEF Select, historyVars
<1>2. CASE calls' = calls \ {c}
  BY <1>1, <1>2 DEF Sound, TypeOK, NothingInvented, CallsSound, IdsDone, OneRow
<1>3. ASSUME NEW seen \in SUBSET rows[c.node], NEW k, k = [c EXCEPT !.step = "selected", !.seen = seen],
             calls' = (calls \ {c}) \cup {k},
             \A old, other \in seen : old = other,
             c.kind = "sync" => \A old \in seen : old.id = c.row.id /\ old.at < c.row.at
      PROVE  Sound'
  <2>1. /\ c \in Call /\ seen \in SUBSET Row
        /\ seen \subseteq versions
    BY DEF Sound, TypeOK, Call, NothingInvented
  <2>2. /\ k \in Call /\ k.seen = seen /\ k.kind = c.kind /\ k.row = c.row /\ k.step = "selected"
    BY <1>3, <2>1 DEF Call
  <2>3. TypeOK'
    BY <1>1, <1>3, <2>2 DEF Sound, TypeOK
  <2>4. NothingInvented'
    BY <1>1, <1>3, <2>1, <2>2 DEF Sound, NothingInvented
  <2>5. CallsSound'
    BY <1>1, <1>3, <2>2 DEF Sound, CallsSound, Select
  <2> QED BY <1>1, <2>3, <2>4, <2>5 DEF Sound, IdsDone, OneRow
<1> QED BY <1>2, <1>3, SelectFacts

LEMMA InsertSound ==
  ASSUME Sound, NEW c \in calls, Insert(c)
  PROVE  Sound'
<1>1. c \in Call /\ calls' = calls \ {c} /\ UNCHANGED <<clock, done>>
  BY DEF Insert, Sound, TypeOK
<1>2. CallsSound'
  BY <1>1 DEF Insert, Sound, CallsSound
<1>3. CASE UNCHANGED <<rows, network, versions>> /\ missed' = missed \cup {c.row.id}
  <2>1. TypeOK'
    BY <1>1, <1>3 DEF Sound, TypeOK, Call, Row
  <2> QED BY <1>1, <1>2, <1>3, <2>1 DEF Sound, NothingInvented, IdsDone, OneRow
<1>4. CASE /\ RowsOf(c.node, c.row.id) = {}
           /\ rows' = [rows EXCEPT ![c.node] = @ \cup {c.row}]
           /\ versions' = IF c.kind = "sync" THEN versions ELSE versions \cup {c.row}
           /\ missed' \subseteq missed \cup {c.row.id}
           /\ Publish(c, c.row)
  <2>1. c.node \in Nodes /\ c.row \in Row /\ c.row.id \in Ids
    BY <1>1 DEF Call, Row
  <2>2. /\ network' \in SUBSET Push
        /\ \A p \in network' : p \in network \/ p.row = c.row
    BY <1>4, <2>1, PublishFacts DEF Sound
  <2>3. c.row \in versions' /\ versions \subseteq versions' /\ versions' \subseteq versions \cup {c.row}
    BY <1>4 DEF Sound, CallsSound
  <2>4. \A m \in Nodes : rows'[m] = rows[m] \cup (IF m = c.node THEN {c.row} ELSE {})
    BY <1>4 DEF Sound, TypeOK
  <2>5. rows' \in [Nodes -> SUBSET Row]
    BY <1>4, <2>1 DEF Sound, TypeOK
  <2>6. TypeOK'
    BY <1>1, <1>4, <2>1, <2>2, <2>3, <2>5 DEF Sound, TypeOK
  <2>7. NothingInvented'
    BY <1>1, <2>2, <2>3, <2>4 DEF Sound, NothingInvented
  <2>8. c.row \in versions \/ c.row.id \in done
    <3>1. c.kind = "sync" \/ c.kind = "upsert"
      BY <1>1 DEF Sound, CallsSound, Insert, Call
    <3> QED BY <3>1 DEF Sound, CallsSound
  <2>9. IdsDone'
    BY <1>1, <2>3, <2>8 DEF Sound, IdsDone
  <2>10. OneRow'
    BY <1>4, <2>4 DEF Sound, OneRow, RowsOf
  <2> QED BY <1>2, <2>6, <2>7, <2>9, <2>10 DEF Sound
<1> QED BY <1>3, <1>4 DEF Insert

\* What an UPDATE does: it replaces one row of the call's node.
LEMMA UpdateFacts ==
  ASSUME Sound, NEW c \in calls, NEW t \in Times, Update(c, t)
  PROVE  \E old \in rows[c.node], new \in Row :
           /\ new.id = old.id /\ new.at = t
           /\ \E seen \in c.seen : seen.id = old.id
           /\ rows' = [rows EXCEPT ![c.node] = (@ \ {old}) \cup {new}]
           /\ missed' = IF Overwrites(c, old, t) THEN missed \cup {old.id} ELSE missed
           /\ c.kind = "sync" => /\ t = c.row.at /\ new = c.row
                                 /\ calls' = calls \ {c} /\ versions' = versions
           /\ c.kind # "sync" => /\ calls' = (calls \ {c}) \cup {[c EXCEPT !.step = "stored"]}
                                 /\ versions' = versions \cup {new}
           /\ network' = network /\ done' = done
           /\ clock' \in [Nodes -> Times]
<1>1. /\ c \in Call /\ rows[c.node] \subseteq Row
      /\ network' = network /\ done' = done
  BY DEF Sound, TypeOK, Call, Update
<1>2. PICK seen \in c.seen : \E old \in RowsOf(c.node, seen.id) :
        LET new == Replaced(old, c, t)
        IN  /\ rows' = [rows EXCEPT ![c.node] = (@ \ {old}) \cup {new}]
            /\ missed' = IF Overwrites(c, old, t) THEN missed \cup {old.id} ELSE missed
            /\ IF c.kind = "sync"
               THEN calls' = calls \ {c} /\ UNCHANGED versions
               ELSE /\ calls' = (calls \ {c}) \cup {[c EXCEPT !.step = "stored"]}
                    /\ versions' = versions \cup {new}
  BY DEF Update
<1>3. PICK old \in RowsOf(c.node, seen.id) :
        LET new == Replaced(old, c, t)
        IN  /\ rows' = [rows EXCEPT ![c.node] = (@ \ {old}) \cup {new}]
            /\ missed' = IF Overwrites(c, old, t) THEN missed \cup {old.id} ELSE missed
            /\ IF c.kind = "sync"
               THEN calls' = calls \ {c} /\ UNCHANGED versions
               ELSE /\ calls' = (calls \ {c}) \cup {[c EXCEPT !.step = "stored"]}
                    /\ versions' = versions \cup {new}
  BY <1>2
<1> DEFINE new == Replaced(old, c, t)
<1>4. old \in rows[c.node] /\ old \in Row /\ old.id = seen.id
  BY <1>1 DEF RowsOf
<1>5. new \in Row /\ new.id = old.id /\ new.at = t
  BY <1>1, <1>4 DEF Replaced, Row, Call
<1>6. ASSUME c.kind = "sync"
      PROVE  t = c.row.at /\ new = c.row
  <2>1. t = c.row.at
    BY <1>6 DEF Update
  <2>2. old.id = c.row.id
    BY <1>4, <1>6 DEF Sound, CallsSound
  <2>3. new = [id |-> c.row.id, name |-> c.row.name, body |-> c.row.body, at |-> c.row.at]
    BY <1>6, <2>1, <2>2 DEF Replaced
  <2> QED BY <1>1, <2>1, <2>3 DEF Call, Row
<1>7. clock' \in [Nodes -> Times]
  BY <1>1 DEF Update, Reads, Sound, TypeOK
<1> HIDE DEF new
<1>8. /\ rows' = [rows EXCEPT ![c.node] = (@ \ {old}) \cup {new}]
      /\ missed' = IF Overwrites(c, old, t) THEN missed \cup {old.id} ELSE missed
      /\ c.kind = "sync" => calls' = calls \ {c} /\ versions' = versions
      /\ c.kind # "sync" => /\ calls' = (calls \ {c}) \cup {[c EXCEPT !.step = "stored"]}
                            /\ versions' = versions \cup {new}
  BY <1>3 DEF new
<1> QED BY <1>1, <1>4, <1>5, <1>6, <1>7, <1>8

LEMMA UpdateSound ==
  ASSUME Sound, NEW c \in calls, NEW t \in Times, Update(c, t)
  PROVE  Sound'
<1>1. PICK old \in rows[c.node], new \in Row :
           /\ new.id = old.id /\ new.at = t
           /\ \E seen \in c.seen : seen.id = old.id
           /\ rows' = [rows EXCEPT ![c.node] = (@ \ {old}) \cup {new}]
           /\ missed' = IF Overwrites(c, old, t) THEN missed \cup {old.id} ELSE missed
           /\ c.kind = "sync" => /\ t = c.row.at /\ new = c.row
                                 /\ calls' = calls \ {c} /\ versions' = versions
           /\ c.kind # "sync" => /\ calls' = (calls \ {c}) \cup {[c EXCEPT !.step = "stored"]}
                                 /\ versions' = versions \cup {new}
           /\ network' = network /\ done' = done
           /\ clock' \in [Nodes -> Times]
  BY UpdateFacts
<1> DEFINE k == [c EXCEPT !.step = "stored"]
<1>2. /\ c \in Call /\ c.node \in Nodes
      /\ k \in Call /\ k.kind = c.kind /\ k.row = c.row /\ k.seen = c.seen /\ k.step = "stored"
  BY DEF Sound, TypeOK, Call
<1> HIDE DEF k
<1>3. /\ calls' \subseteq calls \cup {k}
      /\ new \in versions' /\ versions' \subseteq versions \cup {new} /\ versions \subseteq versions'
  BY <1>1 DEF k, Sound, CallsSound
<1>4. \A m \in Nodes : rows'[m] = IF m = c.node THEN (rows[m] \ {old}) \cup {new} ELSE rows[m]
  BY <1>1 DEF Sound, TypeOK
<1>5. TypeOK'
  <2>1. rows' \in [Nodes -> SUBSET Row]
    BY <1>1, <1>2 DEF Sound, TypeOK
  <2>2. missed' \subseteq Ids
    BY <1>1, <1>2 DEF Sound, TypeOK, Row
  <2> QED BY <1>1, <1>2, <1>3, <2>1, <2>2 DEF Sound, TypeOK
<1>6. NothingInvented'
  BY <1>1, <1>2, <1>3, <1>4 DEF Sound, NothingInvented
<1>7. CallsSound'
  BY <1>1, <1>2, <1>3 DEF Sound, CallsSound
<1>8. IdsDone'
  BY <1>1, <1>2, <1>3 DEF Sound, IdsDone, NothingInvented
<1>9. OneRow'
  BY <1>1, <1>4 DEF Sound, OneRow
<1> QED BY <1>5, <1>6, <1>7, <1>8, <1>9 DEF Sound

LEMMA AnnounceSound ==
  ASSUME Sound, NEW c \in calls, Announce(c)
  PROVE  Sound'
<1>1. /\ c \in Call /\ calls' = calls \ {c}
      /\ UNCHANGED <<rows, clock, done, versions>>
  BY DEF Announce, Sound, TypeOK
<1>2. PICK seen \in c.seen : \E row \in RowsOf(c.node, seen.id) :
        /\ Publish(c, row)
        /\ missed' = IF PushesOn(c) THEN missed ELSE missed \cup {row.id}
  BY DEF Announce
<1>3. PICK row \in RowsOf(c.node, seen.id) :
        /\ Publish(c, row)
        /\ missed' = IF PushesOn(c) THEN missed ELSE missed \cup {row.id}
  BY <1>2
<1>4. row \in Row /\ row \in versions /\ row.id \in Ids
  BY <1>1 DEF RowsOf, Sound, TypeOK, NothingInvented, Call, Row
<1>5. network' \in SUBSET Push /\ \A p \in network' : p \in network \/ p.row = row
  BY <1>3, <1>4, PublishFacts DEF Sound
<1>6. TypeOK'
  BY <1>1, <1>3, <1>4, <1>5 DEF Sound, TypeOK
<1>7. NothingInvented' /\ CallsSound'
  BY <1>1, <1>4, <1>5 DEF Sound, NothingInvented, CallsSound
<1> QED BY <1>1, <1>6, <1>7 DEF Sound, IdsDone, OneRow

LEMMA DeliverSound ==
  ASSUME Sound, NEW p \in network, Arrive(p) \/ Lose(p)
  PROVE  Sound'
<1>1. p \in Push /\ p.row \in versions /\ network' \subseteq network
  BY DEF Sound, TypeOK, NothingInvented, Arrive, Lose
<1>2. CASE Arrive(p)
  <2> DEFINE c == [kind |-> "sync", hook |-> FALSE, node |-> p.to, row |-> p.row,
                   step |-> "called", seen |-> {}]
  <2>1. c \in Call /\ calls' = calls \cup {c} /\ UNCHANGED <<rows, clock, done, versions, missed>>
    BY <1>1, <1>2 DEF Arrive, Push, Call, historyVars
  <2>2. c.kind = "sync" /\ c.row = p.row /\ c.seen = {} /\ c.step = "called"
    OBVIOUS
  <2> HIDE DEF c
  <2> QED BY <1>1, <2>1, <2>2 DEF Sound, TypeOK, NothingInvented, CallsSound, IdsDone, OneRow
<1>3. CASE Lose(p)
  <2>1. UNCHANGED <<rows, calls, clock, done, versions>> /\ missed' \subseteq Ids
    BY <1>1, <1>3 DEF Lose, Sound, TypeOK, Push, Row
  <2> QED BY <1>1, <2>1 DEF Sound, TypeOK, NothingInvented, CallsSound, IdsDone, OneRow
<1> QED BY <1>2, <1>3

LEMMA SoundNext == Sound /\ [Next]_vars => Sound'
<1> SUFFICES ASSUME Sound, [Next]_vars
             PROVE  Sound'
  OBVIOUS
<1>1. ASSUME NEW w \in Writes, NEW hook \in BOOLEAN, NEW t \in Times,
             CreateDocument(w, t, hook) \/ CreateTask(w, t, hook)
      PROVE  Sound'
  BY <1>1, CreateSound, CreateTaskSound
<1>2. ASSUME NEW w \in Writes, NEW hook \in BOOLEAN, UpdateTask(w, hook)
      PROVE  Sound'
  BY <1>2, UpdateTaskSound
<1>3. ASSUME NEW c \in calls, Proceed(c)
      PROVE  Sound'
  BY <1>3, SelectSound, InsertSound, UpdateSound, AnnounceSound DEF Proceed
<1>4. ASSUME Deliver
      PROVE  Sound'
  BY <1>4, DeliverSound DEF Deliver
<1>5. ASSUME UNCHANGED vars
      PROVE  Sound'
  BY <1>5 DEF vars, Sound, TypeOK, NothingInvented, CallsSound, IdsDone, OneRow
<1> QED BY <1>1, <1>2, <1>3, <1>4, <1>5 DEF Next, Terminated

-----------------------------------------------------------------------------
(* Every version reaches every node, or is missed.                         *)

LEMMA CallReached ==
  ASSUME IInv, NEW w \in Writes, NEW t \in Times, NEW hook \in BOOLEAN,
         CreateDocument(w, t, hook) \/ UpdateTask(w, hook)
  PROVE  AllReached'
<1>1. calls \subseteq calls' /\ UNCHANGED <<rows, network, versions, missed>>
  BY DEF CreateDocument, UpdateTask, historyVars
<1> QED BY <1>1 DEF IInv, AllReached, Reaches, Holds

\* A version that is new on a node and published from there.
LEMMA PublishReached ==
  ASSUME IInv, NEW n \in Nodes, NEW row \in Row, NEW c, c.node = n,
         Publish(c, row), ~PushesOn(c) => row.id \in missed',
         row \in rows'[n], \A m \in Nodes : rows[m] \subseteq rows'[m],
         \A d \in calls : (d.kind = "sync" \/ d.step = "stored") => d \in calls',
         versions' = versions \cup {row}, missed \subseteq missed'
  PROVE  AllReached'
<1>1. /\ network \subseteq network'
      /\ PushesOn(c) => \A m \in Nodes \ {n} : \E p \in network' : p.to = m /\ p.row = row
  BY PublishFacts DEF IInv, Sound
<1>2. SUFFICES ASSUME NEW v \in versions', v.id \notin missed', NEW m \in Nodes
               PROVE  Reaches(v, m)'
  BY DEF AllReached
<1>3. row.at >= row.at
  BY DEF Row, Times
<1>4. CASE v = row
  BY <1>1, <1>2, <1>3, <1>4 DEF Reaches, Holds
<1>5. CASE v \in versions
  <2>1. Reaches(v, m)
    BY <1>2, <1>5 DEF IInv, AllReached
  <2>2. \A d \in calls : d.node \in Nodes
    BY DEF IInv, Sound, TypeOK, Call
  <2> QED BY <1>1, <2>1, <2>2 DEF Reaches, Holds
<1> QED BY <1>4, <1>5

LEMMA CreateTaskReached ==
  ASSUME IInv, NEW w \in Writes, NEW t \in Times, NEW hook \in BOOLEAN, CreateTask(w, t, hook)
  PROVE  AllReached'
<1> DEFINE row == [id |-> w, name |-> "task", body |-> w, at |-> t]
           n == NodeOf[w]
           c == [hook |-> hook, node |-> n]
<1>1. /\ w \in NewTasks /\ rows' = [rows EXCEPT ![n] = @ \cup {row}]
      /\ versions' = versions \cup {row}
      /\ missed' = IF PushesOn(c) THEN missed ELSE missed \cup {w}
      /\ Publish(c, row) /\ UNCHANGED calls
  BY DEF CreateTask
<1>2. row \in Row /\ n \in Nodes /\ c.node = n /\ row.id = w
  BY <1>1 DEF Row, Ids, Writes, Names
<1>3. row \in rows'[n] /\ \A m \in Nodes : rows[m] \subseteq rows'[m]
  BY <1>1, <1>2 DEF IInv, Sound, TypeOK
<1> HIDE DEF row, n, c
<1> QED BY <1>1, <1>2, <1>3, PublishReached

LEMMA SelectReached ==
  ASSUME IInv, NEW c \in calls, Select(c)
  PROVE  AllReached'
<1>1. c \in Call /\ c.step = "called" /\ UNCHANGED <<rows, network, versions, missed>>
  BY DEF Select, historyVars, IInv, Sound, TypeOK
<1>2. ASSUME NEW v \in versions, NEW m \in Nodes, Reaches(v, m),
             c.kind = "sync" /\ c.node = m /\ c.row.id = v.id /\ c.row.at >= v.at
      PROVE  Reaches(v, m)'
  <2>1. CASE \E old \in rows[c.node] : old.id = c.row.id /\ old.at >= c.row.at
    <3>1. PICK old \in rows[c.node] : old.id = c.row.id /\ old.at >= c.row.at
      BY <2>1
    <3>2. old.at \in Int /\ c.row.at \in Int /\ v.at \in Int
      BY <1>1 DEF IInv, Sound, TypeOK, Call, Row, Times
    <3>3. old.at >= v.at
      BY <1>2, <3>1, <3>2
    <3> QED BY <1>1, <1>2, <3>1, <3>3 DEF Reaches, Holds
  <2>2. CASE \E seen \in SUBSET rows[c.node] :
               calls' = (calls \ {c}) \cup {[c EXCEPT !.step = "selected", !.seen = seen]}
    <3>1. PICK seen \in SUBSET rows[c.node] :
            calls' = (calls \ {c}) \cup {[c EXCEPT !.step = "selected", !.seen = seen]}
      BY <2>2
    <3> DEFINE k == [c EXCEPT !.step = "selected", !.seen = seen]
    <3>2. k \in calls' /\ k.kind = c.kind /\ k.node = c.node /\ k.row = c.row
      BY <1>1, <3>1 DEF Call
    <3> HIDE DEF k
    <3> QED BY <1>2, <3>2 DEF Reaches
  <2> QED BY <2>1, <2>2, SelectFacts DEF IInv
<1>3. \A d \in calls : d # c => d \in calls'
  BY SelectFacts DEF IInv
<1>4. SUFFICES ASSUME NEW v \in versions, v.id \notin missed, NEW m \in Nodes
               PROVE  Reaches(v, m)'
  BY <1>1 DEF AllReached
<1>5. Reaches(v, m)
  BY <1>4 DEF IInv, AllReached
<1>6. CASE c.kind = "sync" /\ c.node = m /\ c.row.id = v.id /\ c.row.at >= v.at
  BY <1>2, <1>5, <1>6
<1>7. CASE ~(c.kind = "sync" /\ c.node = m /\ c.row.id = v.id /\ c.row.at >= v.at)
  BY <1>1, <1>3, <1>5, <1>7 DEF Reaches, Holds
<1> QED BY <1>6, <1>7

LEMMA InsertReached ==
  ASSUME IInv, NEW c \in calls, Insert(c)
  PROVE  AllReached'
<1>1. /\ c \in Call /\ c.step = "selected" /\ calls' = calls \ {c}
      /\ c.node \in Nodes /\ c.row \in Row
  BY DEF Insert, IInv, Sound, TypeOK, Call
<1>2. CASE UNCHANGED <<rows, network, versions>> /\ missed' = missed \cup {c.row.id}
  BY <1>1, <1>2 DEF IInv, AllReached, Reaches, Holds
<1>3. CASE /\ rows' = [rows EXCEPT ![c.node] = @ \cup {c.row}]
           /\ versions' = IF c.kind = "sync" THEN versions ELSE versions \cup {c.row}
           /\ missed' = IF c.kind = "sync" \/ PushesOn(c) THEN missed ELSE missed \cup {c.row.id}
           /\ Publish(c, c.row)
  <2>1. c.row \in rows'[c.node] /\ \A m \in Nodes : rows[m] \subseteq rows'[m]
    BY <1>1, <1>3 DEF IInv, Sound, TypeOK
  <2>2. CASE c.kind # "sync"
    <3>1. \A d \in calls : d.kind = "sync" \/ d.step = "stored" => d \in calls'
      BY <1>1, <2>2
    <3> QED BY <1>1, <1>3, <2>1, <2>2, <3>1, PublishReached
  <2>3. CASE c.kind = "sync"
    <3>1. network \subseteq network'
      BY <1>1, <1>3, PublishFacts DEF IInv, Sound
    <3>2. SUFFICES ASSUME NEW v \in versions, v.id \notin missed, NEW m \in Nodes
                   PROVE  Reaches(v, m)'
      BY <1>3, <2>3 DEF AllReached
    <3>3. Reaches(v, m)
      BY <3>2 DEF IInv, AllReached
    <3>4. \A d \in calls : d.node \in Nodes
      BY DEF IInv, Sound, TypeOK, Call
    <3>5. CASE c.node = m /\ c.row.id = v.id /\ c.row.at >= v.at
      BY <2>1, <3>5 DEF Reaches, Holds
    <3>6. CASE ~(c.node = m /\ c.row.id = v.id /\ c.row.at >= v.at)
      BY <1>1, <2>1, <2>3, <3>1, <3>3, <3>4, <3>6 DEF Reaches, Holds
    <3> QED BY <3>5, <3>6
  <2> QED BY <2>2, <2>3
<1> QED BY <1>2, <1>3 DEF Insert

LEMMA UpdateReached ==
  ASSUME IInv, NEW c \in calls, NEW t \in Times, Update(c, t)
  PROVE  AllReached'
<1>1. PICK old \in rows[c.node], new \in Row :
           /\ new.id = old.id /\ new.at = t
           /\ \E seen \in c.seen : seen.id = old.id
           /\ rows' = [rows EXCEPT ![c.node] = (@ \ {old}) \cup {new}]
           /\ missed' = IF Overwrites(c, old, t) THEN missed \cup {old.id} ELSE missed
           /\ c.kind = "sync" => /\ t = c.row.at /\ new = c.row
                                 /\ calls' = calls \ {c} /\ versions' = versions
           /\ c.kind # "sync" => /\ calls' = (calls \ {c}) \cup {[c EXCEPT !.step = "stored"]}
                                 /\ versions' = versions \cup {new}
           /\ network' = network /\ done' = done
           /\ clock' \in [Nodes -> Times]
  BY UpdateFacts DEF IInv
<1>2. /\ c \in Call /\ c.step = "selected" /\ c.node \in Nodes /\ old \in Row
      /\ \A d \in calls : d.node \in Nodes
      /\ \A v \in versions : v.at \in Int
  BY <1>1 DEF Update, IInv, Sound, TypeOK, Call, Row, Times
<1>3. \A m \in Nodes : rows'[m] = IF m = c.node THEN (rows[m] \ {old}) \cup {new} ELSE rows[m]
  BY <1>1 DEF IInv, Sound, TypeOK
<1>4. old.id \notin missed' => t > old.at
  <2>1. c.kind = "sync" /\ old \in c.seen => old.at < c.row.at
    BY DEF IInv, Sound, CallsSound
  <2>2. t \in Int /\ old.at \in Int
    BY <1>2 DEF Row, Times
  <2> QED BY <1>1, <2>1, <2>2 DEF Overwrites
<1>5. ASSUME NEW v \in versions, v.id \notin missed', NEW n \in Nodes, Holds(n, v)
      PROVE  Holds(n, v)'
  <2>1. PICK r \in rows[n] : r.id = v.id /\ r.at >= v.at
    BY <1>5 DEF Holds
  <2>2. CASE n = c.node /\ r = old
    <3>1. new \in rows'[n] /\ new.id = v.id
      BY <1>1, <1>3, <2>1, <2>2
    <3>2. old.at >= v.at /\ t > old.at /\ old.at \in Int /\ t \in Int /\ v.at \in Int
      BY <1>2, <1>4, <1>5, <2>1, <2>2 DEF Row, Times
    <3> QED BY <1>1, <3>1, <3>2 DEF Holds
  <2>3. CASE n # c.node \/ r # old
    <3>1. r \in rows'[n]
      BY <1>3, <2>1, <2>3
    <3> QED BY <2>1, <3>1 DEF Holds
  <2> QED BY <2>2, <2>3
<1>6. SUFFICES ASSUME NEW v \in versions', v.id \notin missed', NEW m \in Nodes
               PROVE  Reaches(v, m)'
  BY DEF AllReached
<1>7. new \in rows'[c.node] /\ new.at >= new.at /\ missed \subseteq missed'
  <2>1. new.at >= new.at
    BY DEF Row, Times
  <2>2. new \in rows'[c.node]
    BY <1>2, <1>3
  <2>3. missed \subseteq missed'
    BY <1>1
  <2> QED BY <2>1, <2>2, <2>3
<1>8. CASE c.kind = "sync"
  <2>1. v \in versions /\ Reaches(v, m)
    BY <1>1, <1>6, <1>7, <1>8 DEF IInv, AllReached
  <2>2. CASE c.node = m /\ c.row.id = v.id /\ c.row.at >= v.at
    BY <1>1, <1>7, <1>8, <2>2 DEF Reaches, Holds
  <2>3. CASE ~(c.node = m /\ c.row.id = v.id /\ c.row.at >= v.at)
    <3>1. \A n \in Nodes : Holds(n, v) => Holds(n, v)'
      BY <1>5, <1>6, <2>1
    <3>2. network' = network /\ \A d \in calls : d # c => d \in calls'
      BY <1>1, <1>8
    <3> QED BY <1>2, <2>1, <2>3, <3>1, <3>2 DEF Reaches
  <2> QED BY <2>2, <2>3
<1>9. CASE c.kind # "sync"
  <2> DEFINE k == [c EXCEPT !.step = "stored"]
  <2>1. k \in calls' /\ k.step = "stored" /\ k.seen = c.seen /\ k.node = c.node
    BY <1>1, <1>2, <1>9 DEF Call
  <2> HIDE DEF k
  <2>2. CASE v = new
    <3>1. Holds(k.node, v)'
      BY <1>7, <2>1, <2>2 DEF Holds
    <3> QED BY <1>1, <2>1, <2>2, <3>1 DEF Reaches
  <2>3. CASE v \in versions
    <3>1. Reaches(v, m)
      BY <1>6, <1>7, <2>3 DEF IInv, AllReached
    <3>2. \A n \in Nodes : Holds(n, v) => Holds(n, v)'
      BY <1>5, <1>6, <2>3
    <3>3. network' = network /\ \A d \in calls : d # c => d \in calls'
      BY <1>1, <1>9
    <3> QED BY <1>2, <1>9, <3>1, <3>2, <3>3 DEF Reaches
  <2> QED BY <1>1, <1>9, <2>2, <2>3
<1> QED BY <1>8, <1>9

LEMMA AnnounceReached ==
  ASSUME IInv, NEW c \in calls, Announce(c)
  PROVE  AllReached'
<1>1. /\ c \in Call /\ c.node \in Nodes /\ c.step = "stored" /\ calls' = calls \ {c}
      /\ UNCHANGED <<rows, versions>>
  BY DEF Announce, IInv, Sound, TypeOK, Call
<1>2. PICK seen \in c.seen : \E row \in RowsOf(c.node, seen.id) :
        /\ Publish(c, row)
        /\ missed' = IF PushesOn(c) THEN missed ELSE missed \cup {row.id}
  BY DEF Announce
<1>3. PICK row \in RowsOf(c.node, seen.id) :
        /\ Publish(c, row)
        /\ missed' = IF PushesOn(c) THEN missed ELSE missed \cup {row.id}
  BY <1>2
<1>4. row \in rows[c.node] /\ row \in Row /\ row.id = seen.id
  BY <1>1 DEF RowsOf, IInv, Sound, TypeOK
<1>5. /\ network \subseteq network'
      /\ PushesOn(c) => \A m \in Nodes \ {c.node} : \E p \in network' : p.to = m /\ p.row = row
  BY <1>3, <1>4, PublishFacts DEF IInv, Sound
<1>6. SUFFICES ASSUME NEW v \in versions, v.id \notin missed', NEW m \in Nodes
               PROVE  Reaches(v, m)'
  BY <1>1 DEF AllReached
<1>7. Reaches(v, m) /\ missed \subseteq missed'
  BY <1>3, <1>6 DEF IInv, AllReached
<1>8. CASE (\E old \in c.seen : old.id = v.id) /\ Holds(c.node, v)
  <2>1. PICK r \in rows[c.node] : r.id = v.id /\ r.at >= v.at
    BY <1>8 DEF Holds
  <2>2. row.id = v.id
    BY <1>4, <1>8 DEF IInv, Sound, CallsSound
  <2>3. r = row
    BY <1>1, <1>4, <2>1, <2>2 DEF IInv, Sound, OneRow
  <2>4. PushesOn(c)
    BY <1>3, <1>6, <2>2
  <2>5. CASE m = c.node
    BY <1>1, <1>8, <2>5 DEF Reaches, Holds
  <2>6. CASE m # c.node
    BY <1>5, <2>1, <2>3, <2>4, <2>6 DEF Reaches
  <2> QED BY <2>5, <2>6
<1>9. CASE ~((\E old \in c.seen : old.id = v.id) /\ Holds(c.node, v))
  <2>1. c.kind # "sync"
    BY <1>1 DEF IInv, Sound, CallsSound
  <2> QED BY <1>1, <1>5, <1>7, <1>9, <2>1 DEF Reaches, Holds
<1> QED BY <1>8, <1>9

LEMMA DeliverReached ==
  ASSUME IInv, NEW p \in network, Arrive(p) \/ Lose(p)
  PROVE  AllReached'
<1>1. CASE Arrive(p)
  <2> DEFINE c == [kind |-> "sync", hook |-> FALSE, node |-> p.to, row |-> p.row,
                   step |-> "called", seen |-> {}]
  <2>1. /\ c \in calls' /\ calls \subseteq calls' /\ network' = network \ {p}
        /\ UNCHANGED <<rows, versions, missed>>
    BY <1>1 DEF Arrive, historyVars
  <2>2. c.kind = "sync" /\ c.node = p.to /\ c.row = p.row
    OBVIOUS
  <2> HIDE DEF c
  <2> QED BY <2>1, <2>2 DEF IInv, AllReached, Reaches, Holds
<1>2. CASE Lose(p)
  BY <1>2 DEF Lose, IInv, AllReached, Reaches, Holds
<1> QED BY <1>1, <1>2

LEMMA InvNext == IInv /\ [Next]_vars => IInv'
<1> SUFFICES ASSUME IInv, [Next]_vars
             PROVE  AllReached'
  BY SoundNext DEF IInv
<1>1. ASSUME NEW w \in Writes, NEW hook \in BOOLEAN, NEW t \in Times,
             CreateDocument(w, t, hook) \/ CreateTask(w, t, hook)
      PROVE  AllReached'
  BY <1>1, CallReached, CreateTaskReached
<1>2. ASSUME NEW w \in Writes, NEW hook \in BOOLEAN, UpdateTask(w, hook)
      PROVE  AllReached'
  <2>1. 1 \in Times
    BY DEF Times
  <2> QED BY <1>2, <2>1, CallReached
<1>3. ASSUME NEW c \in calls, Proceed(c)
      PROVE  AllReached'
  BY <1>3, SelectReached, InsertReached, UpdateReached, AnnounceReached DEF Proceed
<1>4. ASSUME Deliver
      PROVE  AllReached'
  BY <1>4, DeliverReached DEF Deliver
<1>5. ASSUME UNCHANGED vars
      PROVE  AllReached'
  BY <1>5 DEF vars, IInv, AllReached, Reaches, Holds
<1> QED BY <1>1, <1>2, <1>3, <1>4, <1>5 DEF Next, Terminated

-----------------------------------------------------------------------------
(* The properties.                                                         *)

\* The invariant holds of every store, push and call in every execution.
THEOREM Invariance == Spec => []IInv
<1> QED BY InitIInv, InvNext, PTL DEF Spec

\* The tables, the calls in progress and the pushes on their way hold what
\* they are meant to hold.
THEOREM TypeCorrect == Spec => []TypeOK
<1>1. IInv => TypeOK
  BY DEF IInv, Sound
<1> QED BY <1>1, Invariance, PTL

\* Whatever the threads of the stores and the network do, no row is on a node
\* or on its way that no write produced.
THEOREM NoBlends == Spec => []NothingInvented
<1>1. IInv => NothingInvented
  BY DEF IInv, Sound
<1> QED BY <1>1, Invariance, PTL

\* Two rows of one object, each as new as every version of it, are one, unless
\* versions tie.
LEMMA NewestAgree ==
  ASSUME IInv, Quiet, NEW id \in Ids \ missed, ~Tied(id), NEW m \in Nodes, NEW n \in Nodes,
         NEW r \in rows[m], r.id = id
  PROVE  r \in rows[n]
<1>1. r \in versions /\ r \in Row
  BY DEF IInv, Sound, TypeOK, NothingInvented
<1>2. Holds(n, r)
  BY <1>1 DEF Quiet, IInv, AllReached, Reaches
<1>3. PICK x \in rows[n] : x.id = r.id /\ x.at >= r.at
  BY <1>2 DEF Holds
<1>4. x \in versions /\ x \in Row
  BY DEF IInv, Sound, TypeOK, NothingInvented
<1>5. Holds(m, x)
  BY <1>3, <1>4 DEF Quiet, IInv, AllReached, Reaches
<1>6. PICK y \in rows[m] : y.id = x.id /\ y.at >= x.at
  BY <1>5 DEF Holds
<1>7. y = r
  BY <1>3, <1>6 DEF IInv, Sound, OneRow
<1>8. x.at = r.at
  BY <1>1, <1>3, <1>4, <1>6, <1>7 DEF Row, Times
<1>9. x = r
  BY <1>1, <1>3, <1>4, <1>8 DEF Tied
<1> QED BY <1>9

\* Nodes at rest agree on every object of which no push was lost, refused or
\* left out and no newer version overwritten, and whose versions do not tie:
\* for any number of nodes and writes, and whatever order pushes arrive in.
THEOREM Convergence == Spec => []Converged
<1>1. IInv => Converged
  <2> SUFFICES ASSUME IInv, Quiet, NEW id \in Ids \ missed, ~Tied(id),
                      NEW m \in Nodes, NEW n \in Nodes
               PROVE  RowsOf(m, id) = RowsOf(n, id)
    BY DEF Converged
  <2>1. RowsOf(m, id) \subseteq RowsOf(n, id)
    BY NewestAgree DEF RowsOf
  <2>2. RowsOf(n, id) \subseteq RowsOf(m, id)
    BY NewestAgree DEF RowsOf
  <2> QED BY <2>1, <2>2
<1> QED BY <1>1, Invariance, PTL

\* A push never replaces a version it has looked at by one that is not newer.
THEOREM NewestKept == Spec => SyncKeepsNewest
<1> DEFINE Kept == \A c \in calls, t \in Times :
                     c.kind = "sync" /\ Update(c, t) =>
                       \A n \in Nodes : \A old \in rows[n] \ rows'[n] : old \in c.seen => t > old.at
<1>1. IInv => Kept
  <2> SUFFICES ASSUME IInv, NEW c \in calls, NEW t \in Times, c.kind = "sync", Update(c, t),
                      NEW n \in Nodes, NEW old \in rows[n] \ rows'[n], old \in c.seen
               PROVE  t > old.at
    OBVIOUS
  <2>1. t = c.row.at
    BY DEF Update
  <2>2. old.at < c.row.at
    BY DEF IInv, Sound, CallsSound
  <2>3. old \in Row /\ old.at \in Int
    BY DEF IInv, Sound, TypeOK, Row, Times
  <2>4. t \in Int
    BY DEF Times
  <2> QED BY <2>1, <2>2, <2>3, <2>4
<1>2. IInv /\ [Next]_vars => [Kept]_vars
  BY <1>1
<1>3. Spec => []IInv
  BY Invariance
<1>4. Spec => [][Kept]_vars
  BY <1>2, <1>3, PTL DEF Spec
<1> QED BY <1>4 DEF SyncKeepsNewest
=============================================================================
