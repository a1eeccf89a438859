------------------------------- MODULE Sharing -------------------------------
(***************************************************************************)
(* Agents at work on each other's workspaces: the tools of                 *)
(* claw/workspace/tools.py and the federation routes of                    *)
(* claw/gateway/server.py, over claw/workspace/manager.py and the store's  *)
(* permissions, documents and tasks (claw/workspace/store.py), while       *)
(* `claw workspace share` changes the permissions.                         *)
(*                                                                         *)
(* A step is one statement of the store in its worker thread: a handler    *)
(* looks, asks for permission and acts in steps of their own, as the agent *)
(* its input carries: that of the turn, unless the input the model wrote   *)
(* names another.  The id of a workspace is that of the agent who owns it. *)
(* A row is abstracted to its id, its workspace, its name and the calls    *)
(* its contents come from.                                                 *)
(***************************************************************************)
EXTENDS Integers, FiniteSets

CONSTANTS
  Agents,     \* agents, and their workspaces
  Nobody,     \* no agent
  Names,      \* names of documents
  MaxCalls,   \* bound: calls of tools and routes
  MaxShares   \* bound: uses of `claw workspace share`

Ids == 1..MaxCalls

ASSUME BoundsAssumption == MaxCalls \in Nat /\ MaxShares \in Nat
ASSUME NobodyAssumption == Nobody \notin Agents

VARIABLES
  existing,  \* workspaces with a row
  perms,     \* ws_permissions
  docs,      \* ws_documents
  tasks,     \* ws_tasks
  calls,     \* calls in progress
  begun,     \* number of calls begun
  shares,    \* number of changes of permission
  trespass   \* history variable: accesses nothing entitled to

rowVars == <<existing, docs, tasks>>
vars == <<existing, perms, docs, tasks, calls, begun, shares, trespass>>

Level == {"none", "read", "write"}
\* rivals: history, the calls about to insert the name when the row was.
Doc == [id : Ids, ws : Agents, name : Names, body : Ids, rivals : SUBSET Ids]
Task == [id : Ids, ws : Agents, body : Ids]
Op == {"create_document", "get_document", "list_documents",
       "create_task", "update_task", "list_tasks"}
\* caller: the agent the handler acts as.  granted: history, whether that agent
\* held the permission at some moment of the call.
Call == [n : Ids, op : Op, via : {"tool", "route"}, caller : Agents, ws : Agents,
         name : Names, obj : Ids,
         step : {"find", "check", "ensure", "select", "act"},
         seen : SUBSET Ids, granted : BOOLEAN]

TypeOK ==
  /\ existing \in SUBSET Agents
  /\ perms \in [Agents \X Agents -> Level]
  /\ docs \in SUBSET Doc
  /\ tasks \in SUBSET Task
  /\ calls \in SUBSET Call
  /\ begun \in 0..MaxCalls
  /\ shares \in 0..MaxShares
  /\ trespass \in SUBSET Ids

\* The gateway's startup has made a workspace for every agent it knows (peers
\* may name others); what was shared before is still shared.
Init ==
  /\ existing \in SUBSET Agents
  /\ perms \in [Agents \X Agents -> Level]
  /\ \A ws, a \in Agents : ws = a \/ ws \notin existing => perms[<<ws, a>>] = "none"
  /\ docs = {} /\ tasks = {} /\ calls = {}
  /\ begun = 0 /\ shares = 0
  /\ trespass = {}

-----------------------------------------------------------------------------
\* Definitions whose comment starts with "Wrong:" are used by no definition of
\* the system; each is a slip one of the properties must notice.

Writes(op) == op \in {"create_document", "create_task", "update_task"}
ById(op) == op \in {"get_document", "update_task"}

\* Wrong: read access is enough for everything.
MayByReading(agent, ws, op) == ws = agent \/ perms[<<ws, agent>>] \in {"read", "write"}

\* can_read and can_write: owners may everything.
May(agent, ws, op) ==
  \/ ws = agent
  \/ perms[<<ws, agent>>] = "write"
  \/ perms[<<ws, agent>>] = "read" /\ ~Writes(op)

\* What a permission is for (history).
Allows(level, op) == level = "write" \/ (level = "read" /\ ~Writes(op))

\* A route acts for a peer node on the one workspace its path names.
Entitled(c, ws) == IF c.via = "route" THEN ws = c.ws ELSE ws = c.caller \/ c.granted

Next1(c, step) == (calls \ {c}) \cup {[c EXCEPT !.step = step]}
End(c) == calls' = calls \ {c}

\* The call touches a row of ws.
Touch(c, ws) == trespass' = IF Entitled(c, ws) THEN trespass ELSE trespass \cup {c.n}

-----------------------------------------------------------------------------
(* The calls begin.                                                        *)

Begin(c) ==
  /\ begun' = begun + 1
  /\ calls' = calls \cup {c}
  /\ UNCHANGED <<rowVars, perms, shares, trespass>>

\* _agent_id of a tool's input.  scoped_executor, and _inner_exec for delegated
\* turns, put the agent of the turn in front of what the model wrote: one that
\* the model names there takes its place.
ActsAs(agent, named) == IF named = Nobody THEN agent ELSE named

\* ws_create_* and ws_list_*: the caller's own workspace needs no permission.
BeginInWorkspace(op, via, agent, named, ws, name) ==
  /\ ~ById(op) /\ (via = "route" => agent = ws /\ named = Nobody)
  /\ LET caller == ActsAs(agent, named) IN
     Begin([n |-> begun + 1, op |-> op, via |-> via, caller |-> caller, ws |-> ws, name |-> name,
            obj |-> begun + 1, seen |-> {}, granted |-> Allows(perms[<<ws, caller>>], op),
            step |-> IF via = "tool" /\ ws # caller THEN "check"
                     ELSE IF Writes(op) THEN "ensure" ELSE "act"])

\* ws_get_document, ws_update_task and their routes.  (An id that is not there
\* ends the call.)
BeginById(op, via, agent, named, ws, row) ==
  /\ ById(op)
  /\ IF via = "tool" THEN ws = row.ws ELSE agent = ws /\ named = Nobody
  /\ \E name \in Names :
       LET caller == ActsAs(agent, named) IN
       Begin([n |-> begun + 1, op |-> op, via |-> via, caller |-> caller, ws |-> ws, name |-> name,
              obj |-> row.id, seen |-> {}, granted |-> Allows(perms[<<row.ws, caller>>], op),
              step |-> "find"])

Rows(op) == IF op = "get_document" THEN docs ELSE tasks

-----------------------------------------------------------------------------
(* The calls go on.                                                        *)

Finds(c, row) == c.via = "route" => row.ws = c.ws

\* get_document or get_task: a route answers 404 for a row of another workspace,
\* a tool asks for permission when the row is not the agent's.
Find(c) ==
  /\ c.step = "find"
  /\ \E row \in Rows(c.op) :
       /\ row.id = c.obj
       /\ IF ~Finds(c, row) THEN End(c)
          ELSE calls' = Next1(c, IF c.via = "tool" /\ row.ws # c.caller THEN "check" ELSE "act")
  /\ UNCHANGED <<rowVars, perms, begun, shares, trespass>>

Check(c) ==
  /\ c.step = "check"
  /\ IF ~May(c.caller, c.ws, c.op) THEN End(c)
     ELSE calls' = Next1(c, IF Writes(c.op) /\ ~ById(c.op) THEN "ensure" ELSE "act")
  /\ UNCHANGED <<rowVars, perms, begun, shares, trespass>>

\* ensure_workspace: INSERT OR IGNORE.
Ensure(c) ==
  /\ c.step = "ensure"
  /\ existing' = existing \cup {c.ws}
  /\ calls' = Next1(c, IF c.op = "create_document" THEN "select" ELSE "act")
  /\ UNCHANGED <<perms, docs, tasks, begun, shares, trespass>>

\* Wrong: the row is looked for by its id, as sync_document does.
NamesakesById(c) == {d \in docs : d.id = c.n}
Namesakes(c) == {d \in docs : d.ws = c.ws /\ d.name = c.name}

\* The SELECT of upsert_document: of several rows of one name, any.
Select(c) ==
  /\ c.step = "select"
  /\ calls' \in
       {(calls \ {c}) \cup {[c EXCEPT !.step = "act", !.seen = s]} :
          s \in IF Namesakes(c) = {} THEN {{}} ELSE {{d.id} : d \in Namesakes(c)}}
  /\ UNCHANGED <<rowVars, perms, begun, shares, trespass>>

\* Calls that found no row of the name and are about to insert one.
Inserting(ws, name) ==
  {c \in calls : c.op = "create_document" /\ c.step = "act" /\ c.seen = {}
                   /\ c.ws = ws /\ c.name = name}

InsertDocument(c) ==
  /\ c.op = "create_document" /\ c.step = "act" /\ c.seen = {}
  /\ docs' = docs \cup {[id |-> c.n, ws |-> c.ws, name |-> c.name, body |-> c.n,
                         rivals |-> {r.n : r \in Inserting(c.ws, c.name)}]}
  /\ Touch(c, c.ws) /\ End(c)
  /\ UNCHANGED <<existing, tasks, perms, begun, shares>>

UpdateDocument(c) ==
  /\ c.op = "create_document" /\ c.step = "act"
  /\ \E d \in docs :
       /\ d.id \in c.seen
       /\ docs' = (docs \ {d}) \cup {[d EXCEPT !.body = c.n]}
       /\ Touch(c, d.ws)
  /\ End(c)
  /\ UNCHANGED <<existing, tasks, perms, begun, shares>>

InsertTask(c) ==
  /\ c.op = "create_task" /\ c.step = "act"
  /\ tasks' = tasks \cup {[id |-> c.n, ws |-> c.ws, body |-> c.n]}
  /\ Touch(c, c.ws) /\ End(c)
  /\ UNCHANGED <<existing, docs, perms, begun, shares>>

\* UPDATE ... SET of the given fields.
Edited(t, c) == [t EXCEPT !.body = c.n]

UpdateTask(c) ==
  /\ c.op = "update_task" /\ c.step = "act"
  /\ \E t \in tasks :
       /\ t.id = c.obj
       /\ tasks' = (tasks \ {t}) \cup {Edited(t, c)}
       /\ Touch(c, t.ws)
  /\ End(c)
  /\ UNCHANGED <<existing, docs, perms, begun, shares>>

Listed(ws, rows) == {r \in rows : r.ws = ws}
Shown(c) == IF c.op = "get_document" THEN {d \in docs : d.id = c.obj}
            ELSE Listed(c.ws, IF c.op = "list_documents" THEN docs ELSE tasks)

\* The answer of a read goes out; that of ws_get_document was read at Find.
Answer(c) ==
  /\ c.op \in {"get_document", "list_documents", "list_tasks"} /\ c.step = "act"
  /\ trespass' = IF \A r \in Shown(c) : Entitled(c, r.ws) THEN trespass ELSE trespass \cup {c.n}
  /\ End(c)
  /\ UNCHANGED <<rowVars, perms, begun, shares>>

-----------------------------------------------------------------------------
\* `claw workspace share`, from a process of its own; "none" takes access away.
Share(ws, agent, level) ==
  /\ shares < MaxShares /\ shares' = shares + 1
  /\ ws \in existing /\ ws # agent
  /\ perms' = [perms EXCEPT ![<<ws, agent>>] = level]
  /\ calls' = {[c EXCEPT !.granted = @ \/ (ws = c.ws /\ agent = c.caller
                                                   /\ Allows(level, c.op))] : c \in calls}
  /\ UNCHANGED <<rowVars, begun, trespass>>

\* `claw workspace create`: INSERT OR IGNORE, too.
CreateWorkspace(ws) ==
  /\ ws \notin existing
  /\ existing' = existing \cup {ws}
  /\ UNCHANGED <<docs, tasks, perms, calls, begun, shares, trespass>>

Proceed(c) ==
  \/ Find(c) \/ Check(c) \/ Ensure(c) \/ Select(c)
  \/ InsertDocument(c) \/ UpdateDocument(c) \/ InsertTask(c) \/ UpdateTask(c) \/ Answer(c)

Terminated == calls = {} /\ begun = MaxCalls /\ UNCHANGED vars

Next ==
  \/ /\ begun < MaxCalls
     /\ \E op \in Op, via \in {"tool", "route"}, agent, ws \in Agents, named \in Agents \cup {Nobody} :
          \/ \E name \in Names : BeginInWorkspace(op, via, agent, named, ws, name)
          \/ \E row \in Rows(op) : BeginById(op, via, agent, named, ws, row)
  \/ \E c \in calls : Proceed(c)
  \/ \E ws, agent \in Agents, level \in Level : Share(ws, agent, level)
  \/ \E ws \in Agents : CreateWorkspace(ws)
  \/ Terminated

Spec == Init /\ [][Next]_vars
-----------------------------------------------------------------------------
(* Properties.                                                             *)

\* The agent a tool acts as is the one permissions are kept for: the turn's own,
\* or the one the tool's input names in its place.  The tool reads or changes
\* the workspace of another only if the agent it acts as held the permission at
\* some moment of the call, however the permission, the row and other calls
\* change between the question and the act; a route touches only the workspace
\* its path names.
AccessIsGranted == trespass = {}

\* tools.py: "Document name (unique in workspace)": two documents of one name
\* exist only where two creations overlapped, each looking before the other
\* inserted.
TwinsOverlapped ==
  \A d, e \in docs :
    d.ws = e.ws /\ d.name = e.name /\ d # e => d.id \in e.rivals \/ e.id \in d.rivals
=============================================================================
