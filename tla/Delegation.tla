----------------------------- MODULE Delegation -----------------------------
(***************************************************************************)
(* Turns that call turns: an agent's tool hands a prompt to another agent  *)
(* of the same gateway (claw/coordination) or of a peer (claw/weave), and  *)
(* the calling turn keeps the lock of its session while it waits.          *)
(*                                                                         *)
(* SessionTurns has the inside of one turn; here a turn waits for the lock *)
(* of its session, runs, calls other turns and ends.  A session key is     *)
(* abstracted to the path of delegations that leads to it: each key embeds *)
(* the key of the caller's session, "delegate:{from}:{caller}:{to}" and    *)
(* "weave:{from_node}:{caller}:{node}:{agent}", whose parts can be told    *)
(* apart as long as ids of agents and nodes hold no colon.  The caller's   *)
(* key is the one the gateway injects into a tool's input: the inputs the  *)
(* model writes are taken not to carry a _session_key of their own.        *)
(***************************************************************************)
EXTENDS Integers, Sequences, FiniteSets

CONSTANTS
  Nodes,       \* gateways
  Agents,      \* agents, the same on every gateway
  Roots,       \* messages from channels, and prompts of cron jobs
  RootNode,    \* where each root comes in
  RootSession, \* its session key
  RootAgent,   \* the agent it is for
  Stateless,   \* the roots without a session key
  Turns,       \* bound: turns that can exist
  NoTurn,      \* not a turn
  MaxCrashes   \* bound: gateways that stop and start again

ASSUME DelegationAssumption ==
  /\ NoTurn \notin Turns
  /\ Roots # {}
  /\ RootNode \in [Roots -> Nodes]
  /\ RootAgent \in [Roots -> Agents]
  /\ DOMAIN RootSession = Roots
  /\ Stateless \subseteq Roots
  /\ MaxCrashes \in Nat

VARIABLES
  pc,      \* where each turn is
  node,    \* the gateway it runs on
  path,    \* its session key, <<>> when it is stateless
  agent,   \* the agent that answers
  caller,  \* the turn whose tool called it
  callee,  \* the turn a calling turn waits for
  queue,   \* the turns that had to wait for a lock, in the order in which they came
  begun,   \* roots that came in
  crashes, \* number of crashes
  origin   \* history variable: the root a turn stems from

bornVars == <<node, path, agent, caller, origin>>
vars == <<pc, bornVars, callee, queue, begun, crashes>>

Pc == {"unborn", "arriving", "waiting", "running", "calling", "done", "lost"}

Ids == Agents \cup Nodes \cup {RootSession[r] : r \in Roots}
Hop == [via : {"session", "delegate", "weave"}, from : Ids, to : Ids, agent : Ids]

TypeOK ==
  /\ pc \in [Turns -> Pc]
  /\ node \in [Turns -> Nodes]
  /\ path \in [Turns -> Seq(Hop)]
  /\ agent \in [Turns -> Agents]
  /\ caller \in [Turns -> Turns \cup {NoTurn}]
  /\ callee \in [Turns -> Turns \cup {NoTurn}]
  /\ queue \in Seq(Turns)
  /\ begun \in SUBSET Roots
  /\ crashes \in Nat
  /\ origin \in [Turns -> Roots]

\* What an unborn turn is said to be does not matter.
Init ==
  /\ pc = [t \in Turns |-> "unborn"]
  /\ node = [t \in Turns |-> CHOOSE n \in Nodes : TRUE]
  /\ path = [t \in Turns |-> <<>>]
  /\ agent = [t \in Turns |-> CHOOSE a \in Agents : TRUE]
  /\ caller = [t \in Turns |-> NoTurn]
  /\ callee = [t \in Turns |-> NoTurn]
  /\ queue = <<>>
  /\ begun = {}
  /\ crashes = 0
  /\ origin = [t \in Turns |-> CHOOSE r \in Roots : TRUE]

-----------------------------------------------------------------------------
(* Keys and locks.  Definitions whose comment starts with "Wrong:" are     *)
(* used by no definition of the system; each is a slip one of the          *)
(* properties must notice.                                                 *)

RootPath(r) ==
  IF r \in Stateless THEN <<>>
  ELSE <<[via |-> "session", from |-> RootSession[r], to |-> RootSession[r],
          agent |-> RootAgent[r]]>>

\* Wrong: the key does not embed the session of the caller.
DelegatePathShort(t, a) ==
  <<[via |-> "delegate", from |-> agent[t], to |-> a, agent |-> a]>>

\* The key under which delegate_to_agent runs agent a.
DelegatePath(t, a) ==
  IF path[t] = <<>> THEN <<>>
  ELSE Append(path[t], [via |-> "delegate", from |-> agent[t], to |-> a, agent |-> a])

\* Wrong: the key does not embed the calling node.
WeavePathShort(t, n, a) ==
  IF path[t] = <<>> THEN <<>>
  ELSE Append(path[t], [via |-> "weave", from |-> n, to |-> n, agent |-> a])

\* The key under which weave_delegate has agent a of node n run.
WeavePath(t, n, a) ==
  IF path[t] = <<>> THEN <<>>
  ELSE Append(path[t], [via |-> "weave", from |-> node[t], to |-> n, agent |-> a])

\* A lock belongs to a session key and a gateway.
SameLock(t, u) == path[t] # <<>> /\ path[t] = path[u] /\ node[t] = node[u]

Holds(t) == path[t] # <<>> /\ pc[t] \in {"running", "calling"}

LockFree(t) ==
  \A u \in Turns : SameLock(t, u) => ~Holds(u) /\ pc[u] # "waiting"

\* t is the waiter that the release of its lock wakes.
FirstInLine(t) ==
  /\ \A u \in Turns : SameLock(t, u) => ~Holds(u)
  /\ \E i \in DOMAIN queue :
       /\ queue[i] = t
       /\ \A j \in 1..(i - 1) : SameLock(t, queue[j]) => pc[queue[j]] # "waiting"

-----------------------------------------------------------------------------
(* Turns are born and get their locks.                                     *)

Unborn == {t \in Turns : pc[t] = "unborn"}
NextTurn == CHOOSE t \in Turns : pc[t] = "unborn"

Bear(t, n, p, a, by, r) ==
  /\ node' = [node EXCEPT ![t] = n]
  /\ path' = [path EXCEPT ![t] = p]
  /\ agent' = [agent EXCEPT ![t] = a]
  /\ caller' = [caller EXCEPT ![t] = by]
  /\ origin' = [origin EXCEPT ![t] = r]

\* A message for an agent, or a prompt without a session.
Begin(r) ==
  /\ r \notin begun
  /\ Unborn # {}
  /\ begun' = begun \cup {r}
  /\ Bear(NextTurn, RootNode[r], RootPath(r), RootAgent[r], NoTurn, r)
  /\ pc' = [pc EXCEPT ![NextTurn] = "arriving"]
  /\ UNCHANGED <<callee, queue, crashes>>

\* A tool of t calls a turn of agent a on node n, under key p, and waits.
Call(t, n, p, a) ==
  /\ pc[t] = "running"
  /\ Unborn # {}
  /\ Bear(NextTurn, n, p, a, t, origin[t])
  /\ pc' = [pc EXCEPT ![NextTurn] = "arriving", ![t] = "calling"]
  /\ callee' = [callee EXCEPT ![t] = NextTurn]
  /\ UNCHANGED <<queue, begun, crashes>>

\* delegate_to_agent, AgentDispatcher.dispatch.  (An unknown agent is an error
\* the tool returns at once.)
Delegate(t, a) == Call(t, node[t], DelegatePath(t, a), a)

\* weave_delegate and the peer's /weave/delegate.  (An unknown or unreachable
\* node is an error the tool returns at once.)
WeaveDelegate(t, n, a) == n # node[t] /\ Call(t, n, WeavePath(t, n, a), a)

\* The turn reaches the lock of its session.
Enter(t) ==
  /\ pc[t] = "arriving"
  /\ IF LockFree(t)
     THEN pc' = [pc EXCEPT ![t] = "running"] /\ UNCHANGED queue
     ELSE pc' = [pc EXCEPT ![t] = "waiting"] /\ queue' = Append(queue, t)
  /\ UNCHANGED <<bornVars, callee, begun, crashes>>

Wake(t) ==
  /\ pc[t] = "waiting"
  /\ FirstInLine(t)
  /\ pc' = [pc EXCEPT ![t] = "running"]
  /\ UNCHANGED <<bornVars, callee, queue, begun, crashes>>

-----------------------------------------------------------------------------
(* Turns end, callers give up, gateways crash.                             *)

ByWeave(t) == caller[t] # NoTurn /\ node[caller[t]] # node[t]

Awaits(u, t) == u \in Turns /\ pc[u] = "calling" /\ callee[u] = t

\* Wrong: the caller is never told.
ResumeForgotten(t, pcs) == pcs
Resume(t, pcs) == [u \in Turns |-> IF Awaits(u, t) THEN "running" ELSE pcs[u]]

\* run_agent_turn returns an answer or an error; both go to the caller that
\* still waits.  The response of a peer can be lost.
End(t, heard) ==
  LET ended == [pc EXCEPT ![t] = "done"]
  IN  /\ pc[t] = "running"
      /\ ByWeave(t) \/ heard
      /\ pc' = IF heard THEN Resume(t, ended) ELSE ended
      /\ callee' = [u \in Turns |-> IF heard /\ Awaits(u, t) THEN NoTurn ELSE callee[u]]
      /\ UNCHANGED <<bornVars, queue, begun, crashes>>

\* WeaveClient.delegate times out or loses the connection and returns an
\* error; the turn on the peer goes on.
GiveUp(t) ==
  /\ pc[t] = "calling"
  /\ node[callee[t]] # node[t]
  /\ pc' = [pc EXCEPT ![t] = "running"]
  /\ callee' = [callee EXCEPT ![t] = NoTurn]
  /\ UNCHANGED <<bornVars, queue, begun, crashes>>

Lost == "lost"

\* A gateway stops: its turns, locks and histories are gone, and it starts
\* again empty.
Crash(n) ==
  /\ crashes < MaxCrashes
  /\ crashes' = crashes + 1
  /\ pc' = [t \in Turns |-> IF node[t] = n /\ pc[t] \notin {"unborn", "done"}
                            THEN Lost ELSE pc[t]]
  /\ callee' = [t \in Turns |-> IF node[t] = n THEN NoTurn ELSE callee[t]]
  /\ UNCHANGED <<bornVars, queue, begun>>

Terminated ==
  /\ \A t \in Turns : pc[t] \in {"unborn", "done", "lost"}
  /\ UNCHANGED vars

\* What becomes of a turn without a further call.
Step(t) == Enter(t) \/ Wake(t) \/ GiveUp(t) \/ \E heard \in BOOLEAN : End(t, heard)

Next ==
  \/ \E r \in Roots : Begin(r)
  \/ \E t \in Turns : \/ \E a \in Agents : Delegate(t, a)
                      \/ \E n \in Nodes, a \in Agents : WeaveDelegate(t, n, a)
                      \/ Step(t)
  \/ \E n \in Nodes : Crash(n)
  \/ Terminated

Spec == Init /\ [][Next]_vars

\* The event loops run; the LLM of a turn stops calling tools in the end; a
\* call of a peer has a timeout.
Fairness == \A t \in Turns : WF_vars(Step(t))

FairSpec == Spec /\ Fairness
-----------------------------------------------------------------------------
(* Properties.                                                             *)

Born == {t \in Turns : pc[t] # "unborn"}

\* t cannot go on before u does.
WaitsFor(t, u) ==
  \/ Awaits(t, u)
  \/ pc[t] = "waiting" /\ SameLock(t, u) /\ Holds(u)

\* Turns never wait for one another in a circle, whatever agents call each
\* other and across gateways, although every caller keeps its lock: no set of
\* turns has each of its members waiting for another of them.
NoCircularWait ==
  \A S \in (SUBSET Turns) \ {{}} :
    \E t \in S : \A u \in S : ~WaitsFor(t, u)

\* Why there is no circle: a wait leads to a longer key, or from the waiter of
\* a lock to its holder; a turn without a key waits for the one it called.
Height(t) == 2 * Len(path[t]) + (IF Holds(t) THEN 1 ELSE 0)
WaitsClimb ==
  \A t \in Born, u \in Born :
    WaitsFor(t, u) =>
      IF path[t] = <<>> THEN path[u] = <<>> /\ caller[u] = t
      ELSE Height(u) > Height(t)

\* A delegated session belongs to one session of one gateway: what is asked in
\* the name of different sessions never meets in one history, on any node
\* (CONFIGURATION.md: "persistent within a caller session").
SessionsStayApart ==
  \A t, u \in Born :
    SameLock(t, u) =>
      /\ RootNode[origin[t]] = RootNode[origin[u]]
      /\ RootSession[origin[t]] = RootSession[origin[u]]

\* A calling turn waits for a turn it called, which is on its way to an answer
\* unless the peer's answer was lost or the peer crashed; two turns never wait
\* for one.
CallersAreAnswered ==
  \A t \in Turns :
    pc[t] = "calling" =>
      /\ callee[t] \in Turns
      /\ caller[callee[t]] = t
      /\ ~ByWeave(callee[t]) => pc[callee[t]] \in {"arriving", "waiting", "running", "calling"}

Live == {t \in Turns : pc[t] \notin {"unborn", "done", "lost"}}

\* The guards of Step(t): t can go on without anybody else.
CanMove(t) ==
  \/ pc[t] \in {"arriving", "running"}
  \/ pc[t] = "waiting" /\ FirstInLine(t)
  \/ pc[t] = "calling" /\ node[callee[t]] # node[t]

\* u is in the line of a lock before t.
AheadOf(u, t) ==
  /\ pc[u] = "waiting" /\ pc[t] = "waiting"
  /\ SameLock(t, u)
  /\ \E i, j \in DOMAIN queue : i < j /\ queue[i] = u /\ queue[j] = t

\* Whoever follows what a turn waits for, an answer, a lock or those before it in
\* the line, comes to a turn that can go on: no turns stay blocked among
\* themselves, whatever the others do.  (The half of EveryTurnEnds that needs no
\* fairness: NoCircularWait alone would allow a line nobody is woken from and a
\* call of a turn that is gone.)
NobodyIsStuck ==
  \A S \in (SUBSET Live) \ {{}} :
    (\A t \in S, u \in Live : WaitsFor(t, u) \/ AheadOf(u, t) => u \in S)
      => \E t \in S : CanMove(t)

\* Every turn that began ends, also one whose caller gave up, unless its
\* gateway crashes: no chain of delegations blocks a session for ever.
EveryTurnEnds ==
  \A t \in Turns : pc[t] # "unborn" ~> pc[t] \in {"done", "lost"}
=============================================================================
