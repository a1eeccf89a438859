-------------------------- MODULE DelegationProofs --------------------------
(* Theorems about Delegation, for any number of gateways, agents, turns and *)
(* crashes.                                                                 *)
EXTENDS Delegation, FiniteSetTheorems, WellFoundedInduction, TLAPS

\* The types most proofs use.
Types ==
  /\ pc \in [Turns -> Pc]
  /\ node \in [Turns -> Nodes]
  /\ path \in [Turns -> Seq(Hop)]
  /\ agent \in [Turns -> Agents]
  /\ caller \in [Turns -> Turns \cup {NoTurn}]
  /\ callee \in [Turns -> Turns \cup {NoTurn}]
  /\ origin \in [Turns -> Roots]

\* The key of a called turn is one hop longer than that of its caller.
KeyGrows(u) ==
  LET c == caller[u]
  IN  pc[u] # "unborn" /\ c # NoTurn =>
        /\ pc[c] # "unborn"
        /\ path[u] = <<>> <=> path[c] = <<>>
        /\ path[u] # <<>> => Len(path[u]) = Len(path[c]) + 1
KeysGrow == \A u \in Turns : KeyGrows(u)

\* A calling turn waits for a turn that it called.
CalleeIsCalled(t) ==
  pc[t] = "calling" =>
    /\ callee[t] \in Turns
    /\ pc[callee[t]] # "unborn"
    /\ caller[callee[t]] = t
CalleesAreCalled == \A t \in Turns : CalleeIsCalled(t)

\* The first k hops of p stay on the gateway r came in on, and the next one
\* leaves it.
LeavesHomeAfter(p, k, n, r) ==
  /\ \A j \in 1..k : p[j].via # "weave"
  /\ k = Len(p) => n = RootNode[r]
  /\ k < Len(p) => p[k + 1].via = "weave" /\ p[k + 1].from = RootNode[r]

\* Key p of a turn on n begins with the session of root r and names its gateway.
NamesRoot(p, n, r) ==
  p # <<>> =>
    /\ p[1].from = RootSession[r]
    /\ \E k \in 1..Len(p) : LeavesHomeAfter(p, k, n, r)
KeysNameRoots == \A t \in Turns : pc[t] # "unborn" => NamesRoot(path[t], node[t], origin[t])

-----------------------------------------------------------------------------
(* Every step either bears one turn or leaves births as they are.          *)

Bears(u, n, p, a, by, r) ==
  /\ u \in Turns
  /\ pc[u] = "unborn"
  /\ pc'[u] = "arriving"
  /\ \A t \in Turns : t # u => (pc'[t] = "unborn" <=> pc[t] = "unborn")
  /\ Bear(u, n, p, a, by, r)

BearsRoot == \E u \in Turns, r \in Roots :
  /\ Bears(u, RootNode[r], RootPath(r), RootAgent[r], NoTurn, r)
  /\ callee' = callee
  /\ pc' = [pc EXCEPT ![u] = "arriving"]

\* Where a called turn runs, and under which key.
Placed(t, n, a, p) ==
  \/ n = node[t] /\ p = DelegatePath(t, a)
  \/ p = WeavePath(t, n, a)

BearsCallee == \E u \in Turns, t \in Turns, n \in Nodes, a \in Agents :
  /\ Placed(t, n, a, path'[u])
  /\ Bears(u, n, path'[u], a, t, origin[t])
  /\ pc[t] = "running"
  /\ pc' = [pc EXCEPT ![u] = "arriving", ![t] = "calling"]
  /\ callee' = [callee EXCEPT ![t] = u]

BearsNone ==
  /\ UNCHANGED bornVars
  /\ pc' \in [Turns -> Pc]
  /\ callee' \in [Turns -> Turns \cup {NoTurn}]
  /\ \A t \in Turns : pc'[t] = "unborn" <=> pc[t] = "unborn"
  /\ \A t \in Turns : pc'[t] = "calling" => pc[t] = "calling" /\ callee'[t] = callee[t]

LEMMA NextTurnIsUnborn ==
  ASSUME Unborn # {}
  PROVE  NextTurn \in Turns /\ pc[NextTurn] = "unborn"
  BY DEF Unborn, NextTurn

LEMMA StepBearsNone ==
  ASSUME Types, NEW t \in Turns, Step(t)
  PROVE  BearsNone
<1>1. CASE Enter(t)
  BY <1>1 DEF Enter, BearsNone, Types, Pc
<1>2. CASE Wake(t)
  BY <1>2 DEF Wake, BearsNone, Types, Pc
<1>3. CASE GiveUp(t)
  BY <1>3 DEF GiveUp, BearsNone, Types, Pc
<1>4. ASSUME NEW heard \in BOOLEAN, End(t, heard)
      PROVE  BearsNone
  <2> DEFINE ended == [pc EXCEPT ![t] = "done"]
  <2>1. /\ pc[t] = "running"
        /\ pc' = IF heard THEN Resume(t, ended) ELSE ended
        /\ callee' = [u \in Turns |-> IF heard /\ Awaits(u, t) THEN NoTurn ELSE callee[u]]
        /\ UNCHANGED bornVars
    BY <1>4 DEF End
  <2>2. ended \in [Turns -> Pc]
    BY DEF Types, Pc
  <2>3. Resume(t, ended) \in [Turns -> Pc]
    BY <2>2 DEF Resume, Pc
  <2>4. pc' \in [Turns -> Pc]
    BY <2>1, <2>2, <2>3
  <2>5. callee' \in [Turns -> Turns \cup {NoTurn}]
    BY <2>1 DEF Types
  <2>6. ASSUME NEW u \in Turns
        PROVE  /\ pc'[u] = "unborn" <=> pc[u] = "unborn"
               /\ pc'[u] = "calling" => pc[u] = "calling" /\ callee'[u] = callee[u]
    <3>1. CASE heard
      BY <2>1, <3>1 DEF Resume, Awaits, Types
    <3>2. CASE ~heard
      BY <2>1, <3>2 DEF Types
    <3>3. QED
      BY <3>1, <3>2
  <2>7. QED
    BY <2>1, <2>4, <2>5, <2>6 DEF BearsNone
<1>5. QED
  BY <1>1, <1>2, <1>3, <1>4 DEF Step

LEMMA CrashBearsNone ==
  ASSUME Types, NEW n \in Nodes, Crash(n)
  PROVE  BearsNone
<1>1. /\ pc' = [t \in Turns |-> IF node[t] = n /\ pc[t] \notin {"unborn", "done"}
                                THEN "lost" ELSE pc[t]]
      /\ callee' = [t \in Turns |-> IF node[t] = n THEN NoTurn ELSE callee[t]]
      /\ UNCHANGED bornVars
  BY DEF Crash, Lost
<1>2. pc' \in [Turns -> Pc] /\ callee' \in [Turns -> Turns \cup {NoTurn}]
  BY <1>1 DEF Types, Pc
<1>3. QED
  BY <1>1, <1>2 DEF BearsNone, Types

LEMMA NextBears ==
  ASSUME Types, [Next]_vars
  PROVE  BearsRoot \/ BearsCallee \/ BearsNone
<1>1. ASSUME NEW r \in Roots, Begin(r)
      PROVE  BearsRoot
  BY <1>1, NextTurnIsUnborn DEF Begin, BearsRoot, Bears, Types
<1>2. ASSUME NEW t \in Turns, NEW a \in Agents, Delegate(t, a)
      PROVE  BearsCallee
  <2>1. node[t] \in Nodes
    BY DEF Types
  <2>2. Bears(NextTurn, node[t], DelegatePath(t, a), a, t, origin[t])
    BY <1>2, NextTurnIsUnborn DEF Delegate, Call, Bears, Types
  <2>3. QED
    BY <1>2, <2>1, <2>2, NextTurnIsUnborn DEF Delegate, Call, Bear, BearsCallee, Placed, Types
<1>3. ASSUME NEW t \in Turns, NEW n \in Nodes, NEW a \in Agents, WeaveDelegate(t, n, a)
      PROVE  BearsCallee
  <2>1. Bears(NextTurn, n, WeavePath(t, n, a), a, t, origin[t])
    BY <1>3, NextTurnIsUnborn DEF WeaveDelegate, Call, Bears, Types
  <2>2. QED
    BY <1>3, <2>1, NextTurnIsUnborn DEF WeaveDelegate, Call, Bear, BearsCallee, Placed, Types
<1>4. CASE UNCHANGED vars
  BY <1>4 DEF vars, bornVars, BearsNone, Types
<1>5. QED
  BY <1>1, <1>2, <1>3, <1>4, StepBearsNone, CrashBearsNone DEF Next, Terminated
-----------------------------------------------------------------------------
(* Types.                                                                  *)

LEMMA RootPathType ==
  ASSUME NEW r \in Roots
  PROVE  RootPath(r) \in Seq(Hop)
<1>1. RootSession[r] \in Ids /\ RootAgent[r] \in Ids
  BY DelegationAssumption DEF Ids
<1>2. [via |-> "session", from |-> RootSession[r], to |-> RootSession[r],
       agent |-> RootAgent[r]] \in Hop
  BY <1>1 DEF Hop
<1>3. QED
  BY <1>2 DEF RootPath

LEMMA PlacedPathType ==
  ASSUME Types, NEW t \in Turns, NEW n \in Nodes, NEW a \in Agents, NEW p, Placed(t, n, a, p)
  PROVE  p \in Seq(Hop)
<1>1. path[t] \in Seq(Hop)
  BY DEF Types
<1>2. a \in Ids /\ n \in Ids /\ agent[t] \in Ids /\ node[t] \in Ids
  BY DEF Types, Ids
<1>3. [via |-> "delegate", from |-> agent[t], to |-> a, agent |-> a] \in Hop
  BY <1>2 DEF Hop
<1>4. [via |-> "weave", from |-> node[t], to |-> n, agent |-> a] \in Hop
  BY <1>2 DEF Hop
<1>5. DelegatePath(t, a) \in Seq(Hop) /\ WeavePath(t, n, a) \in Seq(Hop)
  BY <1>1, <1>3, <1>4 DEF DelegatePath, WeavePath
<1>6. QED
  BY <1>5 DEF Placed

LEMMA TypesInit == Init => Types
<1> SUFFICES ASSUME Init
             PROVE  Types
  OBVIOUS
<1>1. PICK r \in Roots : TRUE
  BY DelegationAssumption
<1>2. RootNode[r] \in Nodes /\ RootAgent[r] \in Agents
  BY DelegationAssumption
<1>3. (CHOOSE n \in Nodes : TRUE) \in Nodes
  BY <1>2
<1>4. (CHOOSE a \in Agents : TRUE) \in Agents
  BY <1>2
<1>5. (CHOOSE x \in Roots : TRUE) \in Roots
  BY <1>1
<1>6. QED
  BY <1>3, <1>4, <1>5 DEF Init, Types, Pc

LEMMA TypesNext ==
  ASSUME Types, [Next]_vars
  PROVE  Types'
<1>1. CASE BearsRoot
  <2>1. PICK u \in Turns, r \in Roots :
           /\ Bear(u, RootNode[r], RootPath(r), RootAgent[r], NoTurn, r)
           /\ callee' = callee
           /\ pc' = [pc EXCEPT ![u] = "arriving"]
    BY <1>1 DEF BearsRoot, Bears
  <2>2. RootNode[r] \in Nodes /\ RootAgent[r] \in Agents /\ RootPath(r) \in Seq(Hop)
    BY RootPathType, DelegationAssumption
  <2>3. QED
    BY <2>1, <2>2 DEF Bear, Types, Pc
<1>2. CASE BearsCallee
  <2>1. PICK u \in Turns, t \in Turns, n \in Nodes, a \in Agents :
           /\ Placed(t, n, a, path'[u])
           /\ Bear(u, n, path'[u], a, t, origin[t])
           /\ pc' = [pc EXCEPT ![u] = "arriving", ![t] = "calling"]
           /\ callee' = [callee EXCEPT ![t] = u]
    BY <1>2 DEF BearsCallee, Bears
  <2>2. path'[u] \in Seq(Hop)
    BY <2>1, PlacedPathType
  <2>3. QED
    BY <2>1, <2>2 DEF Bear, Types, Pc
<1>3. CASE BearsNone
  BY <1>3 DEF BearsNone, bornVars, Types
<1>4. QED
  BY <1>1, <1>2, <1>3, NextBears

-----------------------------------------------------------------------------
(* A key grows by one hop with every call, and a caller waits for its own.  *)

LEMMA PlacedPathGrows ==
  ASSUME Types, NEW t \in Turns, NEW n \in Nodes, NEW a \in Agents, NEW p, Placed(t, n, a, p)
  PROVE  /\ p = <<>> <=> path[t] = <<>>
         /\ p # <<>> => Len(p) = Len(path[t]) + 1
<1>1. path[t] \in Seq(Hop)
  BY DEF Types
<1>2. \A hop : path[t] # <<>> => Append(path[t], hop) # <<>> /\ Len(Append(path[t], hop)) = Len(path[t]) + 1
  BY <1>1
<1>3. QED
  BY <1>2 DEF Placed, DelegatePath, WeavePath

LEMMA KeysGrowNext ==
  ASSUME Types, KeysGrow, [Next]_vars
  PROVE  KeysGrow'
<1> SUFFICES ASSUME NEW v \in Turns
             PROVE  KeyGrows(v)'
  BY DEF KeysGrow
<1>0. KeyGrows(v)
  BY DEF KeysGrow
<1>1. CASE BearsRoot
  <2>1. PICK u \in Turns, r \in Roots : Bears(u, RootNode[r], RootPath(r), RootAgent[r], NoTurn, r)
    BY <1>1 DEF BearsRoot
  <2>2. CASE v = u
    BY <2>1, <2>2 DEF Bears, Bear, KeyGrows, Types
  <2>3. CASE v # u
    BY <1>0, <2>1, <2>3 DEF Bears, Bear, KeyGrows, Types
  <2>4. QED
    BY <2>2, <2>3
<1>2. CASE BearsCallee
  <2>1. PICK u \in Turns, t \in Turns, n \in Nodes, a \in Agents :
           /\ Placed(t, n, a, path'[u])
           /\ Bears(u, n, path'[u], a, t, origin[t])
           /\ pc[t] = "running"
    BY <1>2 DEF BearsCallee
  <2>2. /\ path'[u] = <<>> <=> path[t] = <<>>
        /\ path'[u] # <<>> => Len(path'[u]) = Len(path[t]) + 1
    BY <2>1, PlacedPathGrows
  <2>3. t # u
    BY <2>1 DEF Bears
  <2>4. CASE v = u
    BY <2>1, <2>2, <2>3, <2>4 DEF Bears, Bear, KeyGrows, Types
  <2>5. CASE v # u
    BY <1>0, <2>1, <2>5 DEF Bears, Bear, KeyGrows, Types
  <2>6. QED
    BY <2>4, <2>5
<1>3. CASE BearsNone
  BY <1>0, <1>3 DEF BearsNone, bornVars, KeyGrows, Types
<1>4. QED
  BY <1>1, <1>2, <1>3, NextBears

LEMMA CalleesAreCalledNext ==
  ASSUME Types, CalleesAreCalled, [Next]_vars
  PROVE  CalleesAreCalled'
<1> SUFFICES ASSUME NEW v \in Turns
             PROVE  CalleeIsCalled(v)'
  BY DEF CalleesAreCalled
<1>0. CalleeIsCalled(v)
  BY DEF CalleesAreCalled
<1>1. CASE BearsRoot
  BY <1>0, <1>1 DEF BearsRoot, Bears, Bear, CalleeIsCalled, Types
<1>2. CASE BearsCallee
  <2>1. PICK u \in Turns, t \in Turns, n \in Nodes, a \in Agents :
           /\ Bears(u, n, path'[u], a, t, origin[t])
           /\ pc[t] = "running"
           /\ pc' = [pc EXCEPT ![u] = "arriving", ![t] = "calling"]
           /\ callee' = [callee EXCEPT ![t] = u]
    BY <1>2 DEF BearsCallee
  <2>2. CASE v = t
    BY <2>1, <2>2 DEF Bears, Bear, CalleeIsCalled, Types
  <2>3. CASE v # t
    BY <1>0, <2>1, <2>3 DEF Bears, Bear, CalleeIsCalled, Types
  <2>4. QED
    BY <2>2, <2>3
<1>3. CASE BearsNone
  BY <1>0, <1>3 DEF BearsNone, bornVars, CalleeIsCalled, Types
<1>4. QED
  BY <1>1, <1>2, <1>3, NextBears

-----------------------------------------------------------------------------
(* A key names the gateway and the session its turns stem from.            *)

LEMMA RootNamesRoot ==
  ASSUME NEW r \in Roots
  PROVE  NamesRoot(RootPath(r), RootNode[r], r)
<1> DEFINE p == RootPath(r)
<1> SUFFICES ASSUME p # <<>>
             PROVE  NamesRoot(p, RootNode[r], r)
  BY DEF NamesRoot
<1>1. p = <<[via |-> "session", from |-> RootSession[r], to |-> RootSession[r],
             agent |-> RootAgent[r]]>>
  BY DEF RootPath
<1>2. Len(p) = 1 /\ p[1].via = "session" /\ p[1].from = RootSession[r]
  BY <1>1
<1> HIDE DEF p
<1>3. LeavesHomeAfter(p, 1, RootNode[r], r)
  BY <1>2 DEF LeavesHomeAfter
<1>4. QED
  BY <1>2, <1>3 DEF NamesRoot

LEMMA PlacedNamesRoot ==
  ASSUME Types, NEW t \in Turns, NEW n \in Nodes, NEW a \in Agents, NEW p, Placed(t, n, a, p),
         NEW r \in Roots, NamesRoot(path[t], node[t], r)
  PROVE  NamesRoot(p, n, r)
<1> SUFFICES ASSUME p # <<>>
             PROVE  NamesRoot(p, n, r)
  BY DEF NamesRoot
<1> DEFINE q == path[t]
<1>1. q \in Seq(Hop) /\ q # <<>>
  BY DEF Types, Placed, DelegatePath, WeavePath
<1>2. PICK hop : /\ p = Append(q, hop)
                 /\ \/ n = node[t] /\ hop.via # "weave"
                    \/ hop.via = "weave" /\ hop.from = node[t]
  <2>1. CASE n = node[t] /\ p = DelegatePath(t, a)
    <3> DEFINE hop == [via |-> "delegate", from |-> agent[t], to |-> a, agent |-> a]
    <3>1. p = Append(q, hop) /\ hop.via # "weave"
      BY <1>1, <2>1 DEF DelegatePath
    <3>2. QED
      BY <2>1, <3>1
  <2>2. CASE p = WeavePath(t, n, a)
    <3> DEFINE hop == [via |-> "weave", from |-> node[t], to |-> n, agent |-> a]
    <3>1. p = Append(q, hop) /\ hop.via = "weave" /\ hop.from = node[t]
      BY <1>1, <2>2 DEF WeavePath
    <3>2. QED
      BY <3>1
  <2>3. QED
    BY <2>1, <2>2 DEF Placed
<1>3. /\ Len(p) = Len(q) + 1
      /\ \A j \in 1..Len(q) : p[j] = q[j]
      /\ p[Len(q) + 1] = hop
      /\ Len(q) \in Nat \ {0}
  BY <1>1, <1>2
<1>4. PICK k \in 1..Len(q) : LeavesHomeAfter(q, k, node[t], r)
  BY <1>1 DEF NamesRoot
<1>5. p[1].from = RootSession[r]
  BY <1>1, <1>3 DEF NamesRoot
<1> HIDE DEF q
<1>6. \E m \in 1..Len(p) : LeavesHomeAfter(p, m, n, r)
  <2>1. CASE k < Len(q)
    <3>1. k \in 1..Len(p) /\ k # Len(p) /\ p[k + 1] = q[k + 1]
      BY <1>3, <2>1
    <3>2. LeavesHomeAfter(p, k, n, r)
      BY <1>3, <1>4, <2>1, <3>1 DEF LeavesHomeAfter
    <3>3. QED
      BY <3>1, <3>2
  <2>2. CASE k = Len(q) /\ hop.via = "weave" /\ hop.from = node[t]
    <3>1. k \in 1..Len(p) /\ k # Len(p) /\ p[k + 1] = hop
      BY <1>3, <2>2
    <3>2. LeavesHomeAfter(p, k, n, r)
      BY <1>3, <1>4, <2>2, <3>1 DEF LeavesHomeAfter
    <3>3. QED
      BY <3>1, <3>2
  <2>3. CASE k = Len(q) /\ n = node[t] /\ hop.via # "weave"
    <3>1. LeavesHomeAfter(p, k + 1, n, r)
      BY <1>3, <1>4, <2>3 DEF LeavesHomeAfter
    <3>2. QED
      BY <1>3, <2>3, <3>1
  <2>4. QED
    BY <1>2, <1>3, <2>1, <2>2, <2>3
<1>7. QED
  BY <1>5, <1>6 DEF NamesRoot

LEMMA KeysNameRootsNext ==
  ASSUME Types, KeysNameRoots, [Next]_vars
  PROVE  KeysNameRoots'
<1> SUFFICES ASSUME NEW v \in Turns, pc'[v] # "unborn"
             PROVE  NamesRoot(path'[v], node'[v], origin'[v])
  BY DEF KeysNameRoots, NamesRoot, LeavesHomeAfter
<1>1. CASE BearsRoot
  <2>1. PICK u \in Turns, r \in Roots : Bears(u, RootNode[r], RootPath(r), RootAgent[r], NoTurn, r)
    BY <1>1 DEF BearsRoot
  <2>2. CASE v = u
    <3>1. path'[v] = RootPath(r) /\ node'[v] = RootNode[r] /\ origin'[v] = r
      BY <2>1, <2>2 DEF Bears, Bear, Types
    <3>2. QED
      BY <3>1, RootNamesRoot
  <2>3. CASE v # u
    <3>1. path'[v] = path[v] /\ node'[v] = node[v] /\ origin'[v] = origin[v] /\ pc[v] # "unborn"
      BY <2>1, <2>3 DEF Bears, Bear, Types
    <3>2. QED
      BY <3>1 DEF KeysNameRoots
  <2>4. QED
    BY <2>2, <2>3
<1>2. CASE BearsCallee
  <2>1. PICK u \in Turns, t \in Turns, n \in Nodes, a \in Agents :
           /\ Placed(t, n, a, path'[u])
           /\ Bears(u, n, path'[u], a, t, origin[t])
           /\ pc[t] = "running"
    BY <1>2 DEF BearsCallee
  <2>2. CASE v = u
    <3>1. NamesRoot(path[t], node[t], origin[t]) /\ origin[t] \in Roots
      BY <2>1 DEF KeysNameRoots, Types
    <3>2. node'[v] = n /\ origin'[v] = origin[t]
      BY <2>1, <2>2 DEF Bears, Bear, Types
    <3>3. NamesRoot(path'[u], n, origin[t])
      BY <2>1, <3>1, PlacedNamesRoot
    <3>4. QED
      BY <2>2, <3>2, <3>3
  <2>3. CASE v # u
    <3>1. path'[v] = path[v] /\ node'[v] = node[v] /\ origin'[v] = origin[v] /\ pc[v] # "unborn"
      BY <2>1, <2>3 DEF Bears, Bear, Types
    <3>2. QED
      BY <3>1 DEF KeysNameRoots
  <2>4. QED
    BY <2>2, <2>3
<1>3. CASE BearsNone
  <2>1. path' = path /\ node' = node /\ origin' = origin /\ pc[v] # "unborn"
    BY <1>3 DEF BearsNone, bornVars
  <2>2. QED
    BY <2>1 DEF KeysNameRoots
<1>4. QED
  BY <1>1, <1>2, <1>3, NextBears

-----------------------------------------------------------------------------
(* The theorems.                                                           *)

Inv == Types /\ KeysGrow /\ CalleesAreCalled /\ KeysNameRoots

THEOREM Invariance == Spec => []Inv
<1>1. Init => Inv
  <2> SUFFICES ASSUME Init
               PROVE  Inv
    OBVIOUS
  <2>1. \A t \in Turns : pc[t] = "unborn"
    BY DEF Init
  <2>2. QED
    BY <2>1, TypesInit DEF Inv, KeysGrow, KeyGrows, CalleesAreCalled, CalleeIsCalled, KeysNameRoots
<1>2. Inv /\ [Next]_vars => Inv'
  BY TypesNext, KeysGrowNext, CalleesAreCalledNext, KeysNameRootsNext DEF Inv
<1>3. QED
  BY <1>1, <1>2, PTL DEF Spec

\* However many agents call one another on however many gateways, a wait leads
\* to a longer key or from the waiter of a lock to its holder.
THEOREM WaitingClimbs == Spec => []WaitsClimb
<1>1. Inv => WaitsClimb
  <2> SUFFICES ASSUME Inv, NEW t \in Born, NEW u \in Born, WaitsFor(t, u)
               PROVE  IF path[t] = <<>> THEN path[u] = <<>> /\ caller[u] = t
                      ELSE Height(u) > Height(t)
    BY DEF WaitsClimb
  <2>1. t \in Turns /\ u \in Turns /\ pc[u] # "unborn"
    BY DEF Born
  <2>2. path[t] \in Seq(Hop) /\ path[u] \in Seq(Hop) /\ Len(path[t]) \in Nat /\ Len(path[u]) \in Nat
    BY <2>1 DEF Inv, Types
  <2>3. CASE Awaits(t, u)
    <3>1. caller[u] = t
      BY <2>1, <2>3 DEF Awaits, Inv, CalleesAreCalled, CalleeIsCalled
    <3>2. /\ path[u] = <<>> <=> path[t] = <<>>
          /\ path[u] # <<>> => Len(path[u]) = Len(path[t]) + 1
      <4>1. t # NoTurn
        BY <2>1, DelegationAssumption
      <4>2. QED
        BY <2>1, <3>1, <4>1 DEF Inv, KeysGrow, KeyGrows
    <3>3. CASE path[t] = <<>>
      BY <3>1, <3>2, <3>3
    <3>4. CASE path[t] # <<>>
      <4>1. Len(path[u]) = Len(path[t]) + 1
        BY <3>2, <3>4
      <4>2. \A v \in {t, u} : \E h \in {0, 1} : Height(v) = 2 * Len(path[v]) + h
        BY DEF Height
      <4>3. QED
        BY <2>2, <3>4, <4>1, <4>2
    <3>5. QED
      BY <3>3, <3>4
  <2>4. CASE pc[t] = "waiting" /\ SameLock(t, u) /\ Holds(u)
    <3>1. path[t] # <<>> /\ path[t] = path[u] /\ ~Holds(t)
      BY <2>4 DEF SameLock, Holds
    <3>2. QED
      BY <2>2, <2>4, <3>1 DEF Height
  <2>5. QED
    BY <2>3, <2>4 DEF WaitsFor
<1>2. QED
  BY <1>1, Invariance, PTL

\* Whatever gateways and sessions there are, two turns that share a history
\* stem from one session of one gateway.
THEOREM SessionsNeverMeet == Spec => []SessionsStayApart
<1>1. Inv => SessionsStayApart
  <2> SUFFICES ASSUME Inv, NEW t \in Born, NEW u \in Born, SameLock(t, u)
               PROVE  /\ RootNode[origin[t]] = RootNode[origin[u]]
                      /\ RootSession[origin[t]] = RootSession[origin[u]]
    BY DEF SessionsStayApart
  <2> DEFINE p == path[t]
             n == node[t]
  <2>1. p # <<>> /\ p = path[u] /\ n = node[u]
    BY DEF SameLock
  <2>2. p \in Seq(Hop)
    BY DEF Inv, Types, Born
  <2>3. NamesRoot(p, n, origin[t]) /\ NamesRoot(p, n, origin[u])
    BY <2>1 DEF Inv, KeysNameRoots, Born
  <2> HIDE DEF p, n
  <2>4. RootSession[origin[t]] = RootSession[origin[u]]
    BY <2>1, <2>3 DEF NamesRoot
  <2>5. PICK k \in 1..Len(p) : LeavesHomeAfter(p, k, n, origin[t])
    BY <2>1, <2>3 DEF NamesRoot
  <2>6. PICK m \in 1..Len(p) : LeavesHomeAfter(p, m, n, origin[u])
    BY <2>1, <2>3 DEF NamesRoot
  <2>7. Len(p) \in Nat
    BY <2>2
  <2>8. k = m
    BY <2>5, <2>6, <2>7 DEF LeavesHomeAfter
  <2>9. RootNode[origin[t]] = RootNode[origin[u]]
    <3>1. CASE k = Len(p)
      BY <2>5, <2>6, <2>8, <3>1 DEF LeavesHomeAfter
    <3>2. CASE k < Len(p)
      BY <2>5, <2>6, <2>8, <3>2 DEF LeavesHomeAfter
    <3>3. QED
      BY <2>7, <3>1, <3>2
  <2>10. QED
    BY <2>4, <2>9
<1>2. QED
  BY <1>1, Invariance, PTL

-----------------------------------------------------------------------------
(* Callers are answered.                                                   *)

OnTheWay == {"arriving", "waiting", "running", "calling"}

\* The turn t waits for on its own gateway is on its way.
IsServed(t) ==
  pc[t] = "calling" /\ node[callee[t]] = node[t] => pc[callee[t]] \in OnTheWay
AllServed == \A t \in Turns : IsServed(t)

LEMMA StepServes ==
  ASSUME Inv, AllServed, NEW t \in Turns, NEW x \in Turns, Step(x)
  PROVE  IsServed(t)'
<1>0. /\ IsServed(t)
      /\ Types
      /\ pc[t] = "calling" => callee[t] \in Turns /\ caller[callee[t]] = t
  BY DEF AllServed, Inv, CalleesAreCalled, CalleeIsCalled
<1>1. CASE Enter(x)
  BY <1>0, <1>1 DEF Enter, bornVars, IsServed, OnTheWay, Types
<1>2. CASE Wake(x)
  BY <1>0, <1>2 DEF Wake, bornVars, IsServed, OnTheWay, Types
<1>3. CASE GiveUp(x)
  BY <1>0, <1>3 DEF GiveUp, bornVars, IsServed, OnTheWay, Types
<1>4. ASSUME NEW heard \in BOOLEAN, End(x, heard)
      PROVE  IsServed(t)'
  <2> SUFFICES ASSUME pc'[t] = "calling", node[callee'[t]] = node[t]
               PROVE  pc'[callee'[t]] \in OnTheWay
    BY <1>4 DEF End, bornVars, IsServed
  <2> DEFINE ended == [pc EXCEPT ![x] = "done"]
  <2>1. /\ pc[x] = "running"
        /\ ByWeave(x) \/ heard
        /\ pc' = IF heard THEN Resume(x, ended) ELSE ended
        /\ callee' = [u \in Turns |-> IF heard /\ Awaits(u, x) THEN NoTurn ELSE callee[u]]
    BY <1>4 DEF End
  <2>2. pc[t] = "calling" /\ callee'[t] = callee[t]
    <3>1. BearsNone
      BY <1>0, <1>4, StepBearsNone DEF Step
    <3>2. QED
      BY <3>1 DEF BearsNone
  <2>3. callee[t] # x
    <3>1. CASE heard
      BY <1>0, <2>1, <2>2, <3>1 DEF Resume, Awaits, Types
    <3>2. CASE ~heard
      BY <1>0, <2>1, <2>2, <3>2 DEF ByWeave
    <3>3. QED
      BY <3>1, <3>2
  <2>4. pc[callee[t]] \in OnTheWay
    BY <1>0, <2>2 DEF IsServed
  <2>5. pc'[callee[t]] = pc[callee[t]] \/ pc'[callee[t]] = "running"
    BY <1>0, <2>1, <2>2, <2>3 DEF Resume, Types
  <2>6. QED
    BY <2>2, <2>4, <2>5 DEF OnTheWay
<1>5. QED
  BY <1>1, <1>2, <1>3, <1>4 DEF Step

LEMMA CrashServes ==
  ASSUME Inv, AllServed, NEW t \in Turns, NEW n \in Nodes, Crash(n)
  PROVE  IsServed(t)'
<1>1. /\ IsServed(t)
      /\ Types
      /\ pc[t] = "calling" => callee[t] \in Turns
  BY DEF AllServed, Inv, CalleesAreCalled, CalleeIsCalled
<1>2. /\ pc' = [v \in Turns |-> IF node[v] = n /\ pc[v] \notin {"unborn", "done"}
                                THEN "lost" ELSE pc[v]]
      /\ callee' = [v \in Turns |-> IF node[v] = n THEN NoTurn ELSE callee[v]]
      /\ node' = node
  BY DEF Crash, Lost, bornVars
<1>3. SUFFICES ASSUME pc'[t] = "calling", node[callee'[t]] = node[t]
               PROVE  pc'[callee'[t]] \in OnTheWay
  BY <1>2 DEF IsServed
<1>4. pc[t] = "calling" /\ node[t] # n /\ callee'[t] = callee[t]
  BY <1>2, <1>3
<1>5. pc'[callee[t]] = pc[callee[t]]
  BY <1>1, <1>2, <1>3, <1>4
<1>6. QED
  BY <1>1, <1>3, <1>4, <1>5 DEF IsServed

LEMMA NextServes ==
  ASSUME Inv, AllServed, [Next]_vars
  PROVE  AllServed'
<1> SUFFICES ASSUME NEW t \in Turns
             PROVE  IsServed(t)'
  BY DEF AllServed
<1>0. IsServed(t) /\ CalleeIsCalled(t) /\ Types
  BY DEF AllServed, Inv, CalleesAreCalled
<1>1. ASSUME NEW r \in Roots, Begin(r)
      PROVE  IsServed(t)'
  <2>1. NextTurn \in Turns /\ pc[NextTurn] = "unborn"
    BY <1>1, NextTurnIsUnborn DEF Begin
  <2>2. QED
    BY <1>0, <1>1, <2>1 DEF Begin, Bear, IsServed, CalleeIsCalled, OnTheWay, Types
<1>2. ASSUME NEW x \in Turns, NEW n \in Nodes, NEW p, NEW a \in Agents, Call(x, n, p, a)
      PROVE  IsServed(t)'
  <2>1. NextTurn \in Turns /\ pc[NextTurn] = "unborn"
    BY <1>2, NextTurnIsUnborn DEF Call
  <2>2. CASE t = x
    BY <1>0, <1>2, <2>1, <2>2 DEF Call, IsServed, OnTheWay, Types
  <2>3. CASE t # x
    BY <1>0, <1>2, <2>1, <2>3 DEF Call, Bear, IsServed, CalleeIsCalled, OnTheWay, Types
  <2>4. QED
    BY <2>2, <2>3
<1>3. ASSUME NEW x \in Turns, NEW a \in Agents, Delegate(x, a)
      PROVE  IsServed(t)'
  BY <1>0, <1>2, <1>3 DEF Delegate, Types
<1>4. ASSUME NEW x \in Turns, NEW n \in Nodes, NEW a \in Agents, WeaveDelegate(x, n, a)
      PROVE  IsServed(t)'
  BY <1>2, <1>4 DEF WeaveDelegate
<1>5. CASE UNCHANGED vars
  BY <1>0, <1>5 DEF vars, bornVars, IsServed
<1>6. QED
  BY <1>1, <1>3, <1>4, <1>5, StepServes, CrashServes DEF Next, Terminated

\* Whoever waits for a turn on its own gateway waits for one that it called and
\* that is still on its way to an answer.
THEOREM EveryCallIsServed == Spec => []CallersAreAnswered
<1>1. Init => AllServed
  BY DEF Init, AllServed, IsServed
<1>2. Inv /\ Inv' /\ AllServed /\ [Next]_vars => AllServed'
  BY NextServes
<1>3. Inv /\ AllServed => CallersAreAnswered
  <2> SUFFICES ASSUME Inv, AllServed, NEW t \in Turns, pc[t] = "calling"
               PROVE  /\ callee[t] \in Turns
                      /\ caller[callee[t]] = t
                      /\ ~ByWeave(callee[t]) => pc[callee[t]] \in OnTheWay
    BY DEF CallersAreAnswered, OnTheWay
  <2>1. callee[t] \in Turns /\ caller[callee[t]] = t /\ t # NoTurn
    BY DelegationAssumption DEF Inv, CalleesAreCalled, CalleeIsCalled
  <2>2. QED
    BY <2>1 DEF AllServed, IsServed, ByWeave
<1>4. QED
  BY <1>1, <1>2, <1>3, Invariance, PTL DEF Spec

-----------------------------------------------------------------------------
(* No circle.                                                              *)

\* Turns can be numbered so that each is called by one of a smaller number.
Ranked(rank) ==
  \A u \in Turns : pc[u] # "unborn" /\ caller[u] # NoTurn =>
    pc[caller[u]] # "unborn" /\ rank[u] > rank[caller[u]]
CallersComeFirst == \E rank \in [Turns -> Nat] : Ranked(rank)

LEMMA CallersComeFirstNext ==
  ASSUME Types, CallersComeFirst, [Next]_vars
  PROVE  CallersComeFirst'
<1>1. PICK rank \in [Turns -> Nat] : Ranked(rank)
  BY DEF CallersComeFirst
<1>2. CASE BearsRoot
  <2>1. PICK u \in Turns : /\ caller' = [caller EXCEPT ![u] = NoTurn]
                           /\ pc' = [pc EXCEPT ![u] = "arriving"]
    BY <1>2 DEF BearsRoot, Bears, Bear
  <2>2. Ranked(rank)'
    BY <1>1, <2>1 DEF Ranked, Types
  <2> QED BY <2>2 DEF CallersComeFirst
<1>3. CASE BearsCallee
  <2>1. PICK u \in Turns, t \in Turns :
          /\ pc[u] = "unborn" /\ pc[t] = "running"
          /\ caller' = [caller EXCEPT ![u] = t]
          /\ pc' = [pc EXCEPT ![u] = "arriving", ![t] = "calling"]
    BY <1>3 DEF BearsCallee, Bears, Bear
  <2> DEFINE next == [rank EXCEPT ![u] = rank[t] + 1]
  <2>2. next \in [Turns -> Nat] /\ next[u] = rank[t] + 1 /\ \A v \in Turns : v # u => next[v] = rank[v]
    BY <1>1
  <2> HIDE DEF next
  <2>3. ASSUME NEW v \in Turns, pc'[v] # "unborn", caller'[v] # NoTurn
        PROVE  pc'[caller'[v]] # "unborn" /\ next[v] > next[caller'[v]]
    <3>1. CASE v = u
      <4>1. t # u /\ caller'[v] = t
        BY <2>1, <3>1 DEF Types
      <4>2. pc'[t] = "calling" /\ next[t] = rank[t]
        BY <2>1, <2>2, <4>1 DEF Types
      <4> QED BY <1>1, <2>2, <3>1, <4>1, <4>2
    <3>2. CASE v # u
      <4>1. caller'[v] = caller[v] /\ caller[v] \in Turns /\ pc[v] # "unborn"
        BY <2>1, <2>3, <3>2 DEF Types
      <4>2. pc[caller[v]] # "unborn" /\ rank[v] > rank[caller[v]] /\ caller[v] # u
        BY <1>1, <2>1, <2>3, <4>1 DEF Ranked
      <4> QED BY <2>1, <2>2, <3>2, <4>1, <4>2 DEF Types
    <3> QED BY <3>1, <3>2
  <2>4. Ranked(next)'
    BY <2>3 DEF Ranked
  <2> QED BY <2>2, <2>4 DEF CallersComeFirst
<1>4. CASE BearsNone
  <2>1. caller' = caller /\ \A u \in Turns : pc'[u] = "unborn" <=> pc[u] = "unborn"
    BY <1>4 DEF BearsNone, bornVars
  <2>2. Ranked(rank)'
    BY <1>1, <2>1 DEF Ranked, Types
  <2> QED BY <2>2 DEF CallersComeFirst
<1> QED BY <1>2, <1>3, <1>4, NextBears

\* A finite set has a member of the greatest measure.
LEMMA Highest ==
  ASSUME NEW S, IsFiniteSet(S), S # {}, NEW M, \A t \in S : M[t] \in Nat
  PROVE  \E t \in S : \A u \in S : ~(M[u] > M[t])
<1> DEFINE Above(t) == {u \in S : M[u] > M[t]}
<1>1. IsWellFoundedOn(StrictSubsetOrdering(S), SUBSET S)
  BY FS_StrictSubsetOrderingWellFounded, FS_FiniteSubsetsOfFinite
<1>2. {Above(t) : t \in S} \subseteq SUBSET S /\ {Above(t) : t \in S} # {}
  OBVIOUS
<1>3. PICK A \in {Above(t) : t \in S} : \A B \in {Above(t) : t \in S} : ~(<<B, A>> \in StrictSubsetOrdering(S))
  <2> HIDE DEF Above
  <2> QED BY <1>1, <1>2, WFMin
<1>4. PICK t \in S : A = Above(t)
  OBVIOUS
<1>5. ASSUME NEW u \in S, M[u] > M[t]
      PROVE  FALSE
  <2>1. Above(u) \subseteq Above(t) /\ u \in Above(t) /\ u \notin Above(u)
    BY <1>5
  <2>2. <<Above(u), A>> \in StrictSubsetOrdering(S)
    BY <1>4, <2>1 DEF StrictSubsetOrdering
  <2> QED BY <1>3, <2>2
<1> QED BY <1>5

\* Of finitely many turns one waits for none of them, and so whichever gateways,
\* agents and sessions there are, and however callers give up, answers are lost
\* and gateways crash, no turns wait for one another in a circle.
THEOREM NoCircle ==
  ASSUME IsFiniteSet(Turns)
  PROVE  Spec => []NoCircularWait
<1>1. Init => CallersComeFirst
  <2> SUFFICES ASSUME Init
               PROVE  CallersComeFirst
    OBVIOUS
  <2>1. [t \in Turns |-> 0] \in [Turns -> Nat] /\ Ranked([t \in Turns |-> 0])
    BY DEF Init, Ranked
  <2> QED BY <2>1 DEF CallersComeFirst
<1>2. Inv /\ CallersComeFirst /\ [Next]_vars => CallersComeFirst'
  BY CallersComeFirstNext DEF Inv
<1>3. Inv /\ WaitsClimb /\ CallersComeFirst => NoCircularWait
  <2> SUFFICES ASSUME Inv, WaitsClimb, CallersComeFirst, NEW S \in (SUBSET Turns) \ {{}}
               PROVE  \E t \in S : \A u \in S : ~WaitsFor(t, u)
    BY DEF NoCircularWait
  <2>1. IsFiniteSet(S) /\ \A t \in S : t \in Turns
    BY FS_Subset
  <2>2. \A t \in S, u \in S : WaitsFor(t, u) => t \in Born /\ u \in Born
    BY <2>1 DEF WaitsFor, Awaits, Born, Holds, Inv, CalleesAreCalled, CalleeIsCalled
  <2> DEFINE Keyed == {t \in S : path[t] # <<>>}
  <2>3. CASE Keyed # {}
    <3> DEFINE M == [t \in Keyed |-> Height(t)]
    <3>1. \A t \in Turns : Height(t) \in Nat
      BY DEF Height, Inv, Types
    <3>2. IsFiniteSet(Keyed) /\ \A t \in Keyed : M[t] = Height(t) /\ M[t] \in Nat
      BY <2>1, <3>1, FS_Subset
    <3>3. PICK t \in Keyed : \A u \in Keyed : ~(M[u] > M[t])
      <4> HIDE DEF M, Keyed
      <4> QED BY <2>3, <3>2, Highest
    <3>4. ASSUME NEW u \in S, WaitsFor(t, u)
          PROVE  FALSE
      <4>1. t \in Born /\ u \in Born
        BY <2>2, <3>4
      <4>2. Height(u) > Height(t)
        BY <3>4, <4>1 DEF WaitsClimb
      <4>3. path[u] # <<>>
        <5>1. SUFFICES ASSUME path[u] = <<>> PROVE FALSE
          OBVIOUS
        <5>2. Height(u) = 0
          BY <5>1 DEF Height, Holds
        <5> QED BY <2>1, <3>1, <4>2, <5>2
      <4> QED BY <3>2, <3>3, <4>2, <4>3
    <3> QED BY <3>4
  <2>4. CASE Keyed = {}
    <3>1. PICK rank \in [Turns -> Nat] : Ranked(rank)
      BY DEF CallersComeFirst
    <3>2. PICK t \in S : \A u \in S : ~(rank[u] > rank[t])
      BY <2>1, <3>1, Highest
    <3>3. ASSUME NEW u \in S, WaitsFor(t, u)
          PROVE  FALSE
      <4>1. t \in Born /\ u \in Born /\ path[t] = <<>>
        BY <2>2, <2>4, <3>3
      <4>2. caller[u] = t /\ t # NoTurn /\ pc[u] # "unborn"
        BY <2>1, <3>3, <4>1, DelegationAssumption DEF WaitsClimb, Born
      <4> QED BY <2>1, <3>1, <3>2, <4>2 DEF Ranked
    <3> QED BY <3>3
  <2> QED BY <2>3, <2>4
<1>4. QED
  BY <1>1, <1>2, <1>3, Invariance, WaitingClimbs, PTL DEF Spec

-----------------------------------------------------------------------------
\* What the state is made of, the waiters of the locks included.
THEOREM TypeCorrect == Spec => []TypeOK
<1> DEFINE Rest == queue \in Seq(Turns) /\ begun \in SUBSET Roots /\ crashes \in Nat
<1>1. Init => Rest
  BY DEF Init
<1>2. Rest /\ [Next]_vars => Rest'
  <2> SUFFICES ASSUME Rest, [Next]_vars
               PROVE  Rest'
    OBVIOUS
  <2>2. \A t \in Turns : Step(t) => Rest'
    BY DEF Step, Enter, Wake, GiveUp, End
  <2>3. (\E n \in Nodes : Crash(n)) \/ (\E r \in Roots : Begin(r)) => Rest'
    BY DEF Crash, Begin
  <2>4. \A t \in Turns, a \in Agents : Delegate(t, a) => Rest'
    BY DEF Delegate, Call
  <2>5. \A t \in Turns, n \in Nodes, a \in Agents : WeaveDelegate(t, n, a) => Rest'
    BY DEF WeaveDelegate, Call
  <2>6. UNCHANGED vars => Rest'
    BY DEF vars
  <2> HIDE DEF Rest
  <2> QED BY <2>2, <2>3, <2>4, <2>5, <2>6 DEF Next, Terminated
<1>3. Inv /\ Rest => TypeOK
  BY DEF Inv, Types, TypeOK
<1> QED BY <1>1, <1>2, <1>3, Invariance, PTL DEF Spec

-----------------------------------------------------------------------------
(* Nobody is stuck.                                                        *)

\* Who waits for a lock is in its line.
Lined == \A t \in Turns : pc[t] = "waiting" => \E i \in DOMAIN queue : queue[i] = t

\* Only turn u can come to wait in a step, and then it is the last in line.
NoneComes == queue' = queue /\ \A t \in Turns : pc'[t] = "waiting" => pc[t] = "waiting"
Comes(u) ==
  /\ queue' = Append(queue, u)
  /\ \A t \in Turns : t # u /\ pc'[t] = "waiting" => pc[t] = "waiting"

LEMMA StepLines ==
  ASSUME Types, NEW t \in Turns, Step(t)
  PROVE  NoneComes \/ Comes(t)
<1>1. CASE Enter(t)
  BY <1>1 DEF Enter, NoneComes, Comes, Types
<1>2. CASE Wake(t)
  BY <1>2 DEF Wake, NoneComes, Types
<1>3. CASE GiveUp(t)
  BY <1>3 DEF GiveUp, NoneComes, Types
<1>4. ASSUME NEW heard \in BOOLEAN, End(t, heard)
      PROVE  NoneComes
  <2>1. queue' = queue
    BY <1>4 DEF End
  <2>2. CASE heard
    BY <1>4, <2>1, <2>2 DEF End, Resume, NoneComes, Types
  <2>3. CASE ~heard
    BY <1>4, <2>1, <2>3 DEF End, NoneComes, Types
  <2> QED BY <2>2, <2>3
<1> QED BY <1>1, <1>2, <1>3, <1>4 DEF Step

LEMMA NextLines ==
  ASSUME Types, [Next]_vars
  PROVE  NoneComes \/ \E u \in Turns : Comes(u)
<1>1. ASSUME NEW r \in Roots, Begin(r)
      PROVE  NoneComes
  BY <1>1, NextTurnIsUnborn DEF Begin, NoneComes, Types
<1>2. ASSUME NEW t \in Turns, NEW n, NEW p, NEW a, Call(t, n, p, a)
      PROVE  NoneComes
  BY <1>2, NextTurnIsUnborn DEF Call, NoneComes, Types
<1>3. ASSUME NEW n \in Nodes, Crash(n)
      PROVE  NoneComes
  BY <1>3 DEF Crash, Lost, NoneComes, Types
<1>4. CASE UNCHANGED vars
  BY <1>4 DEF vars, NoneComes
<1> QED
  BY <1>1, <1>2, <1>3, <1>4, StepLines DEF Next, Delegate, WeaveDelegate, Terminated

LEMMA LinedNext ==
  ASSUME Types, queue \in Seq(Turns), Lined, [Next]_vars
  PROVE  Lined'
<1>1. CASE NoneComes
  BY <1>1 DEF NoneComes, Lined
<1>2. ASSUME NEW u \in Turns, Comes(u)
      PROVE  Lined'
  <2>1. /\ DOMAIN queue = 1..Len(queue)
        /\ DOMAIN queue' = 1..(Len(queue) + 1)
        /\ queue'[Len(queue) + 1] = u
        /\ Len(queue) \in Nat
        /\ \A i \in 1..Len(queue) : queue'[i] = queue[i]
    BY <1>2 DEF Comes
  <2>2. ASSUME NEW t \in Turns, pc'[t] = "waiting"
        PROVE  \E i \in DOMAIN queue' : queue'[i] = t
    <3>1. CASE t = u
      BY <2>1, <3>1
    <3>2. CASE t # u
      <4>1. PICK i \in DOMAIN queue : queue[i] = t
        BY <1>2, <2>2, <3>2 DEF Comes, Lined
      <4> QED BY <2>1, <4>1
    <3> QED BY <3>1, <3>2
  <2> QED BY <2>2 DEF Lined
<1> QED BY <1>1, <1>2, NextLines

\* The first that waits for t's lock, once nobody holds it.
LEMMA LineHasAFirst ==
  ASSUME Types, queue \in Seq(Turns), NEW t \in Turns, pc[t] = "waiting",
         NEW j \in DOMAIN queue, queue[j] = t, path[t] # <<>>,
         \A u \in Turns : SameLock(t, u) => ~Holds(u)
  PROVE  \E u \in Turns : /\ pc[u] = "waiting" /\ FirstInLine(u)
                          /\ u = t \/ AheadOf(u, t)
<1> DEFINE Waits(i) == SameLock(t, queue[i]) /\ pc[queue[i]] = "waiting"
           I == {i \in 1..j : Waits(i)}
<1>1. DOMAIN queue = 1..Len(queue) /\ Len(queue) \in Nat /\ j \in 1..Len(queue)
      /\ \A i \in 1..Len(queue) : queue[i] \in Turns
  OBVIOUS
<1>2. j \in I /\ IsFiniteSet(I)
  <2>1. IsFiniteSet(1..j)
    BY <1>1, FS_Interval
  <2>2. I \subseteq 1..j
    OBVIOUS
  <2>3. j \in I
    BY <1>1 DEF SameLock
  <2> QED BY <2>1, <2>2, <2>3, FS_Subset
<1>3. PICK m \in I : \A i \in I : ~(i < m)
  <2> DEFINE M == [i \in I |-> j - i]
  <2>1. \A i \in I : M[i] = j - i /\ M[i] \in Nat
    BY <1>1
  <2>2. I # {} /\ IsFiniteSet(I)
    BY <1>2
  <2>3. PICK m \in I : \A i \in I : ~(M[i] > M[m])
    <3> HIDE DEF M, I
    <3> QED BY <2>1, <2>2, Highest
  <2>4. \A i \in I : i \in Int /\ j \in Int
    BY <1>1
  <2>5. \A i \in I : ~(i < m)
    <3> HIDE DEF I
    <3> QED
      <4> SUFFICES ASSUME NEW i \in I, i < m PROVE FALSE
        OBVIOUS
      <4>1. M[i] = j - i /\ M[m] = j - m /\ i \in Int /\ m \in Int /\ j \in Int
        BY <2>1, <2>3, <2>4
      <4>2. M[i] > M[m]
        <5> HIDE DEF M
        <5> QED BY <4>1
      <4> QED BY <2>3, <4>2
  <2> QED BY <2>5
<1> DEFINE u == queue[m]
<1>4. m \in 1..Len(queue) /\ m \in 1..j /\ u \in Turns /\ pc[u] = "waiting" /\ SameLock(t, u)
  BY <1>1, <1>3
<1>5. \A v \in Turns : SameLock(u, v) => SameLock(t, v)
  BY <1>4 DEF SameLock
<1>6. ASSUME NEW i \in 1..(m - 1), SameLock(u, queue[i]), pc[queue[i]] = "waiting"
      PROVE  FALSE
  <2>1. i \in 1..j /\ i \in 1..Len(queue) /\ i < m
    BY <1>1, <1>4
  <2>2. i \in I
    BY <1>1, <1>5, <1>6, <2>1
  <2> QED BY <1>3, <2>1, <2>2
<1>7. FirstInLine(u)
  <2>1. \A v \in Turns : SameLock(u, v) => ~Holds(v)
    BY <1>5
  <2>2. \A i \in 1..(m - 1) : SameLock(u, queue[i]) => pc[queue[i]] # "waiting"
    BY <1>6
  <2> QED BY <1>1, <1>4, <2>1, <2>2 DEF FirstInLine
<1>8. u = t \/ AheadOf(u, t)
  <2>1. CASE m = j
    BY <2>1
  <2>2. CASE m # j
    <3>1. m < j
      BY <1>1, <1>4, <2>2
    <3>2. SameLock(u, t)
      BY <1>4 DEF SameLock
    <3> QED BY <1>1, <1>4, <3>1, <3>2 DEF AheadOf
  <2> QED BY <2>1, <2>2
<1> QED BY <1>4, <1>7, <1>8

\* Of finitely many turns, those that are under way never block one another for
\* good: whatever they wait for, the answer of a turn, the lock it holds or those
\* before them in its line, leads to a turn that can go on, however agents call
\* each other, callers give up, answers are lost and gateways crash.
THEOREM BlockedTurnsHaveAWayOut ==
  ASSUME IsFiniteSet(Turns)
  PROVE  Spec => []NobodyIsStuck
<1>1. Init => Lined
  BY DEF Init, Lined
<1>2. Inv /\ TypeOK /\ Lined /\ [Next]_vars => Lined'
  BY LinedNext DEF Inv, TypeOK
<1>3. Inv /\ TypeOK /\ Lined /\ CallersAreAnswered /\ NoCircularWait => NobodyIsStuck
  <2> SUFFICES ASSUME Inv, TypeOK, Lined, CallersAreAnswered, NoCircularWait,
                      NEW S \in (SUBSET Live) \ {{}},
                      \A t \in S, u \in Live : WaitsFor(t, u) \/ AheadOf(u, t) => u \in S,
                      \A t \in S : ~CanMove(t)
               PROVE  FALSE
    BY DEF NobodyIsStuck
  <2>1. ASSUME NEW t \in S
        PROVE  \E u \in S : WaitsFor(t, u)
    <3>1. t \in Turns /\ pc[t] \in {"waiting", "calling"}
      BY <2>1 DEF Live, CanMove, Inv, Types, Pc
    <3>2. CASE pc[t] = "calling"
      <4> DEFINE u == callee[t]
      <4>1. u \in Turns /\ caller[u] = t /\ (~ByWeave(u) => pc[u] \in OnTheWay)
        BY <3>1, <3>2 DEF CallersAreAnswered, OnTheWay
      <4>2. node[u] = node[t]
        BY <2>1, <3>2 DEF CanMove
      <4>3. u \in Live
        BY <4>1, <4>2 DEF ByWeave, OnTheWay, Live
      <4>4. WaitsFor(t, u)
        BY <3>1, <3>2, <4>1 DEF WaitsFor, Awaits
      <4> QED BY <2>1, <4>3, <4>4
    <3>3. CASE pc[t] = "waiting"
      <4>1. PICK j \in DOMAIN queue : queue[j] = t
        BY <3>1, <3>3 DEF Lined
      <4>2. path[t] # <<>>
        <5>1. SUFFICES ASSUME path[t] = <<>> PROVE FALSE
          OBVIOUS
        <5>2. FirstInLine(t)
          BY <4>1, <5>1 DEF FirstInLine, SameLock
        <5> QED BY <2>1, <3>3, <5>2 DEF CanMove
      <4>3. CASE \E u \in Turns : SameLock(t, u) /\ Holds(u)
        BY <2>1, <3>3, <4>3 DEF WaitsFor, Holds, Live
      <4>4. CASE \A u \in Turns : SameLock(t, u) => ~Holds(u)
        <5>1. PICK u \in Turns : /\ pc[u] = "waiting" /\ FirstInLine(u)
                                 /\ u = t \/ AheadOf(u, t)
          BY <3>1, <3>3, <4>1, <4>2, <4>4, LineHasAFirst DEF Inv, TypeOK
        <5>2. u \in S
          BY <2>1, <5>1 DEF Live
        <5> QED BY <5>1, <5>2 DEF CanMove
      <4> QED BY <4>3, <4>4
    <3> QED BY <3>1, <3>2, <3>3
  <2>2. S \in (SUBSET Turns) \ {{}}
    BY DEF Live
  <2> QED BY <2>1, <2>2 DEF NoCircularWait
<1>4. Spec => []NoCircularWait
  BY NoCircle
<1> QED
  BY <1>1, <1>2, <1>3, <1>4, Invariance, TypeCorrect, EveryCallIsServed, PTL DEF Spec
=============================================================================
