---------------------------- MODULE MemoryStores ----------------------------
(***************************************************************************)
(* The memories of agents: claw/memory/manager.py and tools.py over the    *)
(* local SQLite store and the store of an AINDY runtime                    *)
(* (claw/aindy/memory_store.py), in the modes "local", "aindy" (strict)    *)
(* and "aindy-fallback".                                                   *)
(*                                                                         *)
(* A call of the local store is one step of the event loop (the search of  *)
(* the memory library is taken to look at one state of it).  A call of     *)
(* AINDY is an HTTP request in a worker thread: it arrives or not, and the *)
(* caller gets the reply or an exception, whichever of the two happened.   *)
(* In the fallback mode an exception sends the call to the local store.  A *)
(* memory is abstracted to its id, the call that remembers it; the limits  *)
(* of lists and searches are not reached.  The agent of a call is the one  *)
(* it is made in the name of, the _agent_id the tool is given.             *)
(***************************************************************************)
EXTENDS Integers, FiniteSets

CONSTANTS
  Agents,
  Memories,    \* calls of remember, each with the fresh uuid it makes
  Others,      \* bound: calls of the other operations
  AgentOf,     \* the agent that remembers each memory
  Modes,       \* aindy.memory_backend
  MaxRestarts  \* bound: restarts of the gateway

Calls == Memories \cup Others

ASSUME MemoryAssumption ==
  /\ Memories \cap Others = {}
  /\ Agents # {} /\ AgentOf \in [Memories -> Agents]
  /\ Modes \subseteq {"local", "aindy", "aindy-fallback"}
  /\ MaxRestarts \in Nat

VARIABLES
  mode,     \* the configured mode
  aindy,    \* memories in the AINDY store
  local,    \* memories in the local store
  calls,    \* every call
  restarts  \* number of restarts

vars == <<mode, aindy, local, calls, restarts>>

Kinds == {"remember", "recall", "list", "get", "forget"}

\* about: the memory that is remembered, fetched or forgotten, or all of them.
\* from: who answered.  answer: what the caller is told of, or was told it
\* forgot.  History: the memories that were acknowledged, and forgotten, when
\* the call began.
Call == [kind : Kinds, agent : Agents, about : SUBSET Memories,
         step : {"idle", "waiting", "answered", "dropped"}, arrived : BOOLEAN,
         from : {"nobody", "aindy", "local"}, answer : SUBSET Memories,
         known : SUBSET Memories, gone : SUBSET Memories]

TypeOK ==
  /\ mode \in Modes
  /\ aindy \in SUBSET Memories
  /\ local \in SUBSET Memories
  /\ calls \in [Calls -> Call]
  /\ restarts \in Nat

\* What is said of a call that has not begun does not matter.
NotBegun ==
  [kind |-> "recall", agent |-> CHOOSE a \in Agents : TRUE, about |-> {}, step |-> "idle",
   arrived |-> FALSE, from |-> "nobody", answer |-> {}, known |-> {}, gone |-> {}]

Init ==
  /\ mode \in Modes
  /\ aindy = {}
  /\ local = {}
  /\ calls = [c \in Calls |-> NotBegun]
  /\ restarts = 0

-----------------------------------------------------------------------------
\* Definitions whose comment starts with "Wrong:" are used by no definition of
\* the system; each is a slip one of the properties must notice.

\* Every path of AINDY and every query of the local store names the agent.
Own(store, a) == {m \in store : AgentOf[m] = a}

Begun(c) == calls[c].step # "idle"
Answered(c) == calls[c].step = "answered"

\* Memories an agent was told are stored, and those it was told are deleted.
Acknowledged == {m \in Memories : Answered(m) /\ calls[m].answer = {m}}
Forgotten ==
  UNION {calls[c].answer : c \in {x \in Calls : Answered(x) /\ calls[x].kind = "forget"}}

\* An agent knows a memory from the tool's answer, its own or that of another
\* agent it talks to.
Known(m) == \E c \in Calls : Answered(c) /\ m \in calls[c].answer

\* What a call finds in a store; a search finds what is relevant.
Finds(call, store, found) ==
  CASE call.kind = "remember"        -> found = call.about
    [] call.kind \in {"get", "forget"} -> found = Own(store, call.agent) \cap call.about
    [] call.kind = "list"            -> found = Own(store, call.agent)
    [] call.kind = "recall"          -> found \in SUBSET Own(store, call.agent)

\* Wrong: a delete changes nothing.
LeavesUndeleted(call, store) ==
  IF call.kind = "remember" THEN store \cup call.about ELSE store

\* What a call leaves in a store.
Leaves(call, store) ==
  CASE call.kind = "remember" -> store \cup call.about
    [] call.kind = "forget"   -> store \ Own(call.about, call.agent)
    [] OTHER                  -> store

-----------------------------------------------------------------------------
(* Calls begin.                                                            *)

\* Each call of remember makes an id of its own; the other operations are for
\* all memories of an agent, or for one that the agent knows.
Asks(c, k, a, about) ==
  /\ ~Begun(c)
  /\ IF c \in Memories
     THEN k = "remember" /\ a = AgentOf[c] /\ about = {c}
     ELSE CASE k \in {"recall", "list"} -> about = {}
            [] k \in {"get", "forget"}  -> \E m \in Memories : Known(m) /\ about = {m}
            [] OTHER -> FALSE

Begins(k, a, about) ==
  [kind |-> k, agent |-> a, about |-> about, step |-> "waiting", arrived |-> FALSE,
   from |-> "nobody", answer |-> {}, known |-> Acknowledged, gone |-> Forgotten]

\* The local store answers before anything else runs.
CallLocal(c, k, a, about) ==
  /\ mode = "local"
  /\ Asks(c, k, a, about)
  /\ \E found \in SUBSET Memories :
       /\ Finds(Begins(k, a, about), local, found)
       /\ calls' = [calls EXCEPT ![c] = [Begins(k, a, about) EXCEPT !.step = "answered",
                                           !.from = "local", !.answer = found]]
  /\ local' = Leaves(Begins(k, a, about), local)
  /\ UNCHANGED <<mode, aindy, restarts>>

CallAindy(c, k, a, about) ==
  /\ mode # "local"
  /\ Asks(c, k, a, about)
  /\ calls' = [calls EXCEPT ![c] = Begins(k, a, about)]
  /\ UNCHANGED <<mode, aindy, local, restarts>>

-----------------------------------------------------------------------------
(* Requests, replies and exceptions.                                       *)

\* The request arrives, maybe after its caller gave up (a question that comes so
\* late changes nothing).
Arrive(c) ==
  /\ \/ calls[c].step = "waiting"
     \/ calls[c].step \in {"answered", "dropped"} /\ calls[c].kind \in {"remember", "forget"}
  /\ mode # "local" /\ ~calls[c].arrived
  /\ aindy' = Leaves(calls[c], aindy)
  /\ \E found \in SUBSET Memories :
       /\ Finds(calls[c], aindy, found)
       /\ calls' = [calls EXCEPT ![c].arrived = TRUE,
                      ![c].answer = IF calls[c].step = "waiting" THEN found ELSE @]
  /\ UNCHANGED <<mode, local, restarts>>

Reply(c) ==
  /\ calls[c].step = "waiting" /\ calls[c].arrived
  /\ calls' = [calls EXCEPT ![c].step = "answered", ![c].from = "aindy"]
  /\ UNCHANGED <<mode, aindy, local, restarts>>

\* get_node and recall turn an exception into "nothing found"; in the strict
\* mode the other calls raise it.
FallsBack(call) == mode = "aindy-fallback" /\ call.kind \notin {"get", "recall"}

\* Wrong: the fallback of remember is forgotten.
LeavesLocallyNothing(call) == IF call.kind = "forget" THEN Leaves(call, local) ELSE local
LeavesLocally(call) == Leaves(call, local)

\* The caller gets an exception, whether the request arrived or not.
Fail(c) ==
  /\ calls[c].step = "waiting" /\ mode # "local"
  /\ IF FallsBack(calls[c])
     THEN \E found \in SUBSET Memories :
            /\ Finds(calls[c], local, found)
            /\ calls' = [calls EXCEPT ![c].step = "answered", ![c].from = "local",
                                      ![c].answer = found]
            /\ local' = LeavesLocally(calls[c])
     ELSE /\ calls' = [calls EXCEPT ![c].step = "answered", ![c].answer = {}]
          /\ UNCHANGED local
  /\ UNCHANGED <<mode, aindy, restarts>>

\* The gateway stops with calls under way and starts again on the same database.
Restart ==
  /\ restarts < MaxRestarts
  /\ restarts' = restarts + 1
  /\ calls' = [c \in Calls |-> IF calls[c].step = "waiting"
                               THEN [calls[c] EXCEPT !.step = "dropped", !.answer = {}]
                               ELSE calls[c]]
  /\ UNCHANGED <<mode, aindy, local>>

Terminated ==
  /\ \A c \in Calls : Answered(c) \/ calls[c].step = "dropped"
  /\ UNCHANGED vars

Next ==
  \/ \E c \in Calls, k \in Kinds, a \in Agents :
       \E about \in {{}} \cup {{m} : m \in Memories} :
         CallLocal(c, k, a, about) \/ CallAindy(c, k, a, about)
  \/ \E c \in Calls : Arrive(c) \/ Reply(c) \/ Fail(c)
  \/ Restart
  \/ Terminated

Spec == Init /\ [][Next]_vars
-----------------------------------------------------------------------------
(* Properties.                                                             *)

\* m's own agent has called forget for it.
Threatened(m) ==
  \E c \in Calls : Begun(c) /\ calls[c].kind = "forget" /\ calls[c].agent = AgentOf[m]
                   /\ m \in calls[c].about

\* The write of m arrived although its caller had an exception and wrote m to
\* the local store.
Doubled(m) == calls[m].from = "local" /\ calls[m].arrived

\* What an agent was told is stored is in one of the stores, over failures,
\* fallbacks, late requests and restarts, until a forget in its agent's name has
\* begun (RUNTIME_CONTRACT.md: no cross-agent writes).
RememberedIsKept ==
  \A m \in Acknowledged : Threatened(m) \/ m \in aindy \cup local

\* No answer tells of a memory whose deletion was confirmed before the call,
\* but for one that is in both stores since AINDY stored it late or without
\* saying so.
ForgottenStaysForgotten ==
  \A c \in Calls : Answered(c) =>
    \A m \in calls[c].answer \cap calls[c].gone : Doubled(m)

\* The call is a question that m answers: a list, or a get of m.
AsksFor(call, m) ==
  call.agent = AgentOf[m] /\ (call.kind = "list" \/ (call.kind = "get" /\ m \in call.about))

\* An agent reads its writes: what was acknowledged before a list, or before a
\* get of it, is in the answer when the store that took it gives the answer.
\* (The other store may not have it, and a get that AINDY fails nobody answers.)
ReadsOwnWrites ==
  \A c \in Calls : Answered(c) =>
    \A m \in calls[c].known :
      AsksFor(calls[c], m) /\ calls[c].from = calls[m].from
        => m \in calls[c].answer \/ Threatened(m)

\* A deletion that was confirmed deleted something, and once only: a memory is
\* not reported deleted twice, unless it was in both stores.
ForgottenOnce ==
  \A c, d \in Calls :
    c # d /\ calls[c].kind = "forget" /\ calls[d].kind = "forget" /\ Answered(c) /\ Answered(d) =>
      \A m \in calls[c].answer \cap calls[d].answer : Doubled(m)
=============================================================================
