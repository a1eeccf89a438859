--------------------------- MODULE WorkspaceSync ---------------------------
(***************************************************************************)
(* Documents and tasks of one shared workspace on several nodes:           *)
(* claw/workspace/store.py behind asyncio.to_thread, the tools and routes  *)
(* that write (claw/workspace/tools.py, claw/gateway/server.py), and the   *)
(* push of every tool's write to the peers (server.py _ws_sync_hook,       *)
(* claw/weave/client.py push_workspace, the /sync endpoint).               *)
(*                                                                         *)
(* A call of the store runs in a worker thread: its SELECT and its write   *)
(* are two steps, and nothing keeps the calls of two threads apart.  A row *)
(* is abstracted to its id, its name, its body (the write it comes from)   *)
(* and updated_at.  A write names its row: a new document or task gets a   *)
(* fresh uuid, which is the write itself.                                  *)
(***************************************************************************)
EXTENDS Integers, FiniteSets

CONSTANTS
  Nodes,      \* gateways that registered each other
  Docs,       \* calls of ws_create_document (or of its HTTP route)
  NewTasks,   \* calls of ws_create_task
  TaskEdits,  \* calls of ws_update_task
  NodeOf,     \* the node each write happens on
  NameOf,     \* the name each document is given
  TargetOf,   \* the task each edit is for
  MaxTime     \* bound: clock readings

Writes == Docs \cup NewTasks \cup TaskEdits
Ids == Docs \cup NewTasks
Names == {NameOf[d] : d \in Docs} \cup {"task"}
Times == 1..MaxTime

ASSUME WritesAssumption ==
  /\ Docs \cap NewTasks = {} /\ Ids \cap TaskEdits = {}
  /\ NodeOf \in [Writes -> Nodes]
  /\ DOMAIN NameOf = Docs
  /\ TargetOf \in [TaskEdits -> NewTasks]
  /\ MaxTime \in Nat \ {0}

VARIABLES
  rows,     \* the tables of each node
  calls,    \* store calls in progress
  network,  \* pushes on their way
  clock,    \* the last reading of each node's clock
  done,     \* writes that were called
  versions, \* history variable: every row a local write produced
  missed    \* history variable: ids of versions that did not reach a peer, or
            \* were overwritten by one that is not newer

vars == <<rows, calls, network, clock, done, versions, missed>>
historyVars == <<versions, missed>>

Row == [id : Ids, name : Names, body : Writes, at : Times]
\* hook: whether the write came from a tool, which has a sync hook, or through
\* an HTTP route.
Call == [kind : {"upsert", "update", "sync"}, hook : BOOLEAN, node : Nodes, row : Row,
         step : {"called", "selected", "stored"}, seen : SUBSET Row]
Push == [to : Nodes, row : Row]

TypeOK ==
  /\ rows \in [Nodes -> SUBSET Row]
  /\ calls \in SUBSET Call
  /\ network \in SUBSET Push
  /\ clock \in [Nodes -> Times]
  /\ done \in SUBSET Writes
  /\ versions \in SUBSET Row
  /\ missed \in SUBSET Ids

Init ==
  /\ rows = [n \in Nodes |-> {}]
  /\ calls = {}
  /\ network = {}
  /\ clock = [n \in Nodes |-> 1]
  /\ done = {}
  /\ versions = {}
  /\ missed = {}

-----------------------------------------------------------------------------
\* Definitions whose comment starts with "Wrong:" are used by no definition of
\* the system; each is a slip one of the properties must notice.

RowsOf(n, id) == {r \in rows[n] : r.id = id}

\* Wrong: a push is applied whatever the row's age.
AdmitsAny(c, old) == TRUE

\* Wrong: a row of the same age is replaced too.
AdmitsTies(c, old) == c.row.at >= old.at

\* Last write wins: `if doc.updated_at <= existing.updated_at: return`.
Admits(c, old) == c.row.at > old.at

\* Wrong: the UPDATE for a push forgets updated_at.
ReplacedKeepsTime(old, c, t) ==
  [old EXCEPT !.body = c.row.body, !.at = IF c.kind = "sync" THEN @ ELSE t]

\* The UPDATE statements; that of an upsert leaves the name alone, which is the
\* one it was found by.
Replaced(old, c, t) ==
  [id |-> old.id, name |-> IF c.kind = "sync" THEN c.row.name ELSE old.name,
   body |-> c.row.body, at |-> t]

\* Only a tool's write is pushed: the HTTP routes and the sync endpoint have no
\* hook.
PushesOn(c) == c.hook

\* Wrong: only one of the peers is pushed to.
PeersFirst(n) == IF Nodes = {n} THEN {} ELSE {CHOOSE m \in Nodes : m # n}
Peers(n) == Nodes \ {n}

-----------------------------------------------------------------------------
(* Writes.                                                                 *)

\* utcnow(): it may stand still between two calls.
Reads(n, t) == t \in Times /\ t >= clock[n] /\ clock' = [clock EXCEPT ![n] = t]

\* The call ends: its row goes to every peer, one request each; what is not
\* pushed is missed by the peers.
Publish(c, row) ==
  IF PushesOn(c)
  THEN network' = network \cup {[to |-> m, row |-> row] : m \in Peers(c.node)}
  ELSE UNCHANGED network

\* ws_create_document, or the documents route, stamps the document and calls
\* upsert_document.
CreateDocument(w, t, hook) ==
  /\ w \in Docs \ done
  /\ Reads(NodeOf[w], t)
  /\ done' = done \cup {w}
  /\ calls' = calls \cup
       {[kind |-> "upsert", hook |-> hook, node |-> NodeOf[w], step |-> "called", seen |-> {},
         row |-> [id |-> w, name |-> NameOf[w], body |-> w, at |-> t]]}
  /\ UNCHANGED <<rows, network, historyVars>>

\* create_task has a single statement.
CreateTask(w, t, hook) ==
  LET row == [id |-> w, name |-> "task", body |-> w, at |-> t]
      n   == NodeOf[w]
      c   == [hook |-> hook, node |-> n]
  IN  /\ w \in NewTasks \ done
      /\ Reads(n, t)
      /\ done' = done \cup {w}
      /\ rows' = [rows EXCEPT ![n] = @ \cup {row}]
      /\ versions' = versions \cup {row}
      /\ missed' = IF PushesOn(c) THEN missed ELSE missed \cup {w}
      /\ Publish(c, row)
      /\ UNCHANGED calls

\* update_task selects the task; it reads the clock only after that.
UpdateTask(w, hook) ==
  LET n == NodeOf[w]
  IN  /\ w \in TaskEdits \ done
      /\ done' = done \cup {w}
      /\ calls' = calls \cup
           {[kind |-> "update", hook |-> hook, node |-> n, step |-> "selected", seen |-> {old},
             row |-> [old EXCEPT !.body = w]] : old \in RowsOf(n, TargetOf[w])}
      /\ UNCHANGED <<rows, network, clock, historyVars>>

\* The SELECT of upsert_document by name, of sync_document and upsert_task by
\* id.  A push that is not newer ends here.
Select(c) ==
  LET found == IF c.kind = "upsert"
               THEN {r \in rows[c.node] : r.id \in Docs /\ r.name = c.row.name}
               ELSE RowsOf(c.node, c.row.id)
      next(seen) == [c EXCEPT !.step = "selected", !.seen = seen]
  IN  /\ c.step = "called"
      /\ calls' \in
           IF found = {} THEN {(calls \ {c}) \cup {next({})}}
           ELSE {IF c.kind = "sync" /\ ~Admits(c, old)
                 THEN calls \ {c}
                 ELSE (calls \ {c}) \cup {next({old})} : old \in found}
      /\ UNCHANGED <<rows, network, clock, done, historyVars>>

\* INSERT of a row whose id is new to the call.  When another thread inserted
\* the id first, the statement fails and the endpoint skips the object.
Insert(c) ==
  /\ c.step = "selected" /\ c.seen = {}
  /\ calls' = calls \ {c}
  /\ \/ /\ RowsOf(c.node, c.row.id) # {}
        /\ missed' = missed \cup {c.row.id}
        /\ UNCHANGED <<rows, network, versions>>
     \/ /\ RowsOf(c.node, c.row.id) = {}
        /\ rows' = [rows EXCEPT ![c.node] = @ \cup {c.row}]
        /\ versions' = IF c.kind = "sync" THEN versions ELSE versions \cup {c.row}
        /\ missed' = IF c.kind = "sync" \/ PushesOn(c) THEN missed ELSE missed \cup {c.row.id}
        /\ Publish(c, c.row)
  /\ UNCHANGED <<clock, done>>

\* A newer version is overwritten: by a local write whose clock is behind, or by
\* a push that did not see it.
Overwrites(c, old, t) == t <= old.at /\ (c.kind = "sync" => old \notin c.seen)

\* UPDATE ... WHERE id: whatever the row is by now.
Update(c, t) ==
  LET n == c.node
  IN  /\ c.step = "selected" /\ c.seen # {}
      /\ IF c.kind = "update" THEN Reads(n, t) ELSE t = c.row.at /\ UNCHANGED clock
      /\ \E seen \in c.seen : \E old \in RowsOf(n, seen.id) :
           LET new == Replaced(old, c, t)
           IN  /\ rows' = [rows EXCEPT ![n] = (@ \ {old}) \cup {new}]
               /\ missed' = IF Overwrites(c, old, t) THEN missed \cup {old.id} ELSE missed
               /\ IF c.kind = "sync"
                  THEN calls' = calls \ {c} /\ UNCHANGED versions
                  ELSE /\ calls' = (calls \ {c}) \cup {[c EXCEPT !.step = "stored"]}
                       /\ versions' = versions \cup {new}
      /\ UNCHANGED <<network, done>>

\* upsert_document and update_task read the row again and the tool pushes that.
Announce(c) ==
  /\ c.step = "stored"
  /\ calls' = calls \ {c}
  /\ \E seen \in c.seen : \E row \in RowsOf(c.node, seen.id) :
       /\ Publish(c, row)
       /\ missed' = IF PushesOn(c) THEN missed ELSE missed \cup {row.id}
  /\ UNCHANGED <<rows, clock, done, versions>>

-----------------------------------------------------------------------------
(* The network: push_workspace is tried once, and pushes overtake others.  *)

Arrive(p) ==
  /\ network' = network \ {p}
  /\ calls' = calls \cup {[kind |-> "sync", hook |-> FALSE, node |-> p.to, row |-> p.row,
                           step |-> "called", seen |-> {}]}
  /\ UNCHANGED <<rows, clock, done, historyVars>>

Lose(p) ==
  /\ network' = network \ {p}
  /\ missed' = missed \cup {p.row.id}
  /\ UNCHANGED <<rows, calls, clock, done, versions>>

Quiet == network = {} /\ calls = {}

Terminated == Quiet /\ done = Writes /\ UNCHANGED vars

Deliver == \E p \in network : Arrive(p) \/ Lose(p)
Proceed(c) == Select(c) \/ Insert(c) \/ (\E t \in Times : Update(c, t)) \/ Announce(c)

Next ==
  \/ \E w \in Writes, hook \in BOOLEAN :
       \/ \E t \in Times : CreateDocument(w, t, hook) \/ CreateTask(w, t, hook)
       \/ UpdateTask(w, hook)
  \/ \E c \in calls : Proceed(c)
  \/ Deliver
  \/ Terminated

Spec == Init /\ [][Next]_vars

\* The threads run, and a request arrives or fails (the client has a timeout).
Fairness == WF_vars(\E c \in calls : Proceed(c)) /\ WF_vars(Deliver)

FairSpec == Spec /\ Fairness
-----------------------------------------------------------------------------
(* Properties.                                                             *)

\* Every row on every node is a version some local write produced, with the
\* time of that write: two threads in one store never blend two versions.
NothingInvented ==
  /\ \A n \in Nodes : rows[n] \subseteq versions
  /\ \A p \in network : p.row \in versions
  /\ \A c \in calls : c.seen \subseteq versions

\* A push that looks before it writes replaces a version by one that is not
\* newer only when another thread changed the row in between.
SyncKeepsNewest ==
  [][\A c \in calls, t \in Times :
       c.kind = "sync" /\ Update(c, t) =>
         \A n \in Nodes : \A old \in rows[n] \ rows'[n] : old \in c.seen => t > old.at]_vars

\* two versions of id that updated_at does not tell apart
Tied(id) ==
  \E v, w \in versions : v.id = id /\ w.id = id /\ v # w /\ v.at = w.at

\* When nothing is on its way, all nodes hold the same row of every object, but
\* for those of which a push was lost, refused or never made, or a newer
\* version was overwritten, or two versions have one time.
Converged ==
  Quiet => \A id \in Ids \ missed : ~Tied(id) =>
             \A m, n \in Nodes : RowsOf(m, id) = RowsOf(n, id)

\* Eventual consistency: whatever was written, after some point all nodes agree
\* for good, with the exceptions of Converged.
EventuallyConsistent ==
  <>[](\A id \in Ids \ missed : ~Tied(id) =>
         \A m, n \in Nodes : RowsOf(m, id) = RowsOf(n, id))

\* store.py: "last-write-wins by updated_at": no sync takes a row back.
LastWriteWins ==
  [][\A c \in calls, t \in Times :
       c.kind = "sync" /\ Update(c, t) =>
         \A n \in Nodes : \A old \in rows[n] \ rows'[n] : t > old.at]_vars
=============================================================================
