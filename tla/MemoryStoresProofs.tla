------------------------- MODULE MemoryStoresProofs -------------------------
(***************************************************************************)
(* Theorems about the two places where the agents of a gateway look things *)
(* up: MemoryStores, for any agents, memories, calls, restarts and order   *)
(* of requests, replies and exceptions; and KnowledgeIndex, for any files, *)
(* versions, number of chunks, edits, pulls and restarts.                  *)
(***************************************************************************)
EXTENDS MemoryStores, KnowledgeInvariants, FiniteSetTheorems, WellFoundedInduction, TLAPS

-----------------------------------------------------------------------------
(* What each kind of step does.                                            *)

\* A call is served by a store: what it leaves there and what it finds.
Serves(call, store, after, found) ==
  /\ after \in SUBSET Memories /\ found \in SUBSET Memories
  /\ call.kind = "remember" => after = store \cup call.about /\ found = call.about
  /\ call.kind = "forget" => /\ after = store \ Own(call.about, call.agent)
                             /\ found = Own(store, call.agent) \cap call.about
  /\ call.kind \notin {"remember", "forget"} => after = store /\ found \subseteq Own(store, call.agent)
  /\ call.kind = "list" => found = Own(store, call.agent)
  /\ call.kind = "get" => found = Own(store, call.agent) \cap call.about

LEMMA StoreServes ==
  ASSUME NEW call, call.about \in SUBSET Memories, call.kind \in Kinds,
         NEW store, store \in SUBSET Memories, NEW found, Finds(call, store, found)
  PROVE  Serves(call, store, Leaves(call, store), found)
<1>1. Own(store, call.agent) \subseteq store
  BY DEF Own
<1>2. CASE call.kind = "remember"
  BY <1>2 DEF Finds, Leaves, Serves
<1>3. CASE call.kind = "forget"
  BY <1>1, <1>3 DEF Finds, Leaves, Serves
<1>4. CASE call.kind = "get"
  BY <1>1, <1>4 DEF Finds, Leaves, Serves
<1>5. CASE call.kind = "list"
  BY <1>1, <1>5 DEF Finds, Leaves, Serves
<1>6. CASE call.kind = "recall"
  BY <1>1, <1>6 DEF Finds, Leaves, Serves
<1>7. QED
  BY <1>2, <1>3, <1>4, <1>5, <1>6 DEF Kinds

OthersKept(c) == \A x \in Calls : x # c => calls'[x] = calls[x]

\* What a call is about stays as it began.
SameCall(c) ==
  /\ calls'[c].kind = calls[c].kind /\ calls'[c].agent = calls[c].agent
  /\ calls'[c].about = calls[c].about
  /\ calls'[c].known = calls[c].known /\ calls'[c].gone = calls[c].gone

BeginsCall(c) ==
  /\ ~Begun(c)
  /\ c \in Memories => /\ calls'[c].kind = "remember" /\ calls'[c].agent = AgentOf[c]
                       /\ calls'[c].about = {c}
  /\ c \notin Memories => calls'[c].kind # "remember"
  /\ calls'[c].known = Acknowledged /\ calls'[c].gone = Forgotten
  /\ ~calls'[c].arrived
  /\ OthersKept(c)

\* The local store answers a new call.
AnswersLocally(c) ==
  /\ mode = "local"
  /\ BeginsCall(c)
  /\ calls'[c].step = "answered" /\ calls'[c].from = "local"
  /\ Serves(calls'[c], local, local', calls'[c].answer)
  /\ aindy' = aindy

\* A new call waits for AINDY.
Waits(c) ==
  /\ mode # "local"
  /\ BeginsCall(c)
  /\ calls'[c].step = "waiting" /\ calls'[c].from = "nobody" /\ calls'[c].answer = {}
  /\ UNCHANGED <<aindy, local>>

\* AINDY executes the request of a call.
Lands(c) ==
  /\ mode # "local"
  /\ Begun(c) /\ ~calls[c].arrived
  /\ SameCall(c) /\ OthersKept(c)
  /\ calls'[c].step = calls[c].step /\ calls'[c].from = calls[c].from
  /\ calls'[c].arrived
  /\ \E found \in SUBSET Memories :
       /\ Serves(calls[c], aindy, aindy', found)
       /\ calls'[c].answer = IF calls[c].step = "waiting" THEN found ELSE calls[c].answer
  /\ local' = local

\* The caller gets the reply.
Hears(c) ==
  /\ calls[c].step = "waiting" /\ calls[c].arrived
  /\ SameCall(c) /\ OthersKept(c)
  /\ calls'[c].step = "answered" /\ calls'[c].from = "aindy"
  /\ calls'[c].arrived /\ calls'[c].answer = calls[c].answer
  /\ UNCHANGED <<aindy, local>>

\* The caller gets an exception and turns to the local store.
FallsBackTo(c) ==
  /\ mode # "local"
  /\ calls[c].step = "waiting"
  /\ SameCall(c) /\ OthersKept(c)
  /\ calls'[c].step = "answered" /\ calls'[c].from = "local"
  /\ calls'[c].arrived = calls[c].arrived
  /\ Serves(calls[c], local, local', calls'[c].answer)
  /\ aindy' = aindy

\* Calls end without an answer.
Ends(c) ==
  /\ calls[c].step = "waiting"
  /\ SameCall(c)
  /\ calls'[c].step \in {"answered", "dropped"} /\ calls'[c].from = calls[c].from
  /\ calls'[c].arrived = calls[c].arrived /\ calls'[c].answer = {}
EndsSome ==
  /\ \A c \in Calls : calls'[c] = calls[c] \/ Ends(c)
  /\ UNCHANGED <<aindy, local>>

Kinded ==
  \/ \E c \in Calls : AnswersLocally(c) \/ Waits(c) \/ Lands(c) \/ Hears(c) \/ FallsBackTo(c)
  \/ EndsSome

-----------------------------------------------------------------------------
(* Types, and the kinds of steps.                                          *)

LEMMA InitTyped == Init => TypeOK
<1> SUFFICES ASSUME Init
             PROVE  TypeOK
  OBVIOUS
<1>1. (CHOOSE a \in Agents : TRUE) \in Agents
  BY MemoryAssumption
<1>2. NotBegun \in Call
  BY <1>1 DEF NotBegun, Call, Kinds
<1>3. QED
  BY <1>2 DEF Init, TypeOK

LEMMA NextKinded ==
  ASSUME TypeOK, [Next]_vars
  PROVE  TypeOK' /\ Kinded /\ mode' = mode
<1>0. Acknowledged \in SUBSET Memories /\ Forgotten \in SUBSET Memories
  BY DEF Acknowledged, Forgotten, TypeOK, Call
<1>1. ASSUME NEW c \in Calls, NEW k \in Kinds, NEW a \in Agents, NEW about \in SUBSET Memories,
             CallLocal(c, k, a, about)
      PROVE  TypeOK' /\ AnswersLocally(c) /\ mode' = mode
  <2> DEFINE b == Begins(k, a, about)
             new(found) == [b EXCEPT !.step = "answered", !.from = "local", !.answer = found]
  <2>1. PICK found \in SUBSET Memories :
           Finds(b, local, found) /\ calls' = [calls EXCEPT ![c] = new(found)]
    BY <1>1 DEF CallLocal
  <2>2. new(found) \in Call
    BY <1>0 DEF Begins, Call
  <2>3. calls' \in [Calls -> Call] /\ calls'[c] = new(found) /\ OthersKept(c)
    BY <2>1, <2>2 DEF TypeOK, OthersKept
  <2>4. Serves(b, local, local', found)
    BY <1>1, <2>1, StoreServes DEF CallLocal, TypeOK, Begins
  <2>5. Serves(calls'[c], local, local', found)
    BY <2>3, <2>4 DEF Serves, Begins
  <2>6. /\ calls'[c].kind = k /\ calls'[c].agent = a /\ calls'[c].about = about
        /\ calls'[c].known = Acknowledged /\ calls'[c].gone = Forgotten
        /\ ~calls'[c].arrived /\ calls'[c].step = "answered" /\ calls'[c].from = "local"
        /\ calls'[c].answer = found
    BY <2>3 DEF Begins
  <2>7. BeginsCall(c)
    BY <1>1, <2>3, <2>6 DEF CallLocal, Asks, BeginsCall
  <2>8. TypeOK'
    BY <1>1, <2>3, <2>4 DEF CallLocal, TypeOK, Serves
  <2>9. QED
    BY <1>1, <2>5, <2>6, <2>7, <2>8 DEF CallLocal, AnswersLocally
<1>2. ASSUME NEW c \in Calls, NEW k \in Kinds, NEW a \in Agents, NEW about \in SUBSET Memories,
             CallAindy(c, k, a, about)
      PROVE  TypeOK' /\ Waits(c) /\ mode' = mode
  <2>1. Begins(k, a, about) \in Call
    BY <1>0 DEF Begins, Call
  <2>2. calls' \in [Calls -> Call] /\ calls'[c] = Begins(k, a, about) /\ OthersKept(c)
    BY <1>2, <2>1 DEF CallAindy, TypeOK, OthersKept
  <2>3. BeginsCall(c)
    BY <1>2, <2>2 DEF CallAindy, Asks, Begins, BeginsCall
  <2>4. QED
    BY <1>2, <2>2, <2>3 DEF CallAindy, Begins, Waits, TypeOK
<1>3. ASSUME NEW c \in Calls, Arrive(c)
      PROVE  TypeOK' /\ Lands(c) /\ mode' = mode
  <2>1. calls[c] \in Call
    BY DEF TypeOK
  <2>2. PICK found \in SUBSET Memories :
           /\ Finds(calls[c], aindy, found)
           /\ calls' = [calls EXCEPT ![c].arrived = TRUE,
                          ![c].answer = IF calls[c].step = "waiting" THEN found ELSE @]
    BY <1>3 DEF Arrive
  <2>3. Serves(calls[c], aindy, aindy', found)
    BY <1>3, <2>1, <2>2, StoreServes DEF Arrive, TypeOK, Call
  <2>4. calls' \in [Calls -> Call] /\ OthersKept(c)
    BY <2>1, <2>2 DEF TypeOK, Call, OthersKept
  <2>5. /\ SameCall(c) /\ calls'[c].step = calls[c].step /\ calls'[c].from = calls[c].from
        /\ calls'[c].arrived
        /\ calls'[c].answer = IF calls[c].step = "waiting" THEN found ELSE calls[c].answer
    BY <2>1, <2>2 DEF TypeOK, Call, SameCall
  <2>6. Begun(c)
    BY <1>3 DEF Arrive, Begun
  <2>7. QED
    BY <1>3, <2>3, <2>4, <2>5, <2>6 DEF Arrive, Lands, TypeOK, Serves
<1>4. ASSUME NEW c \in Calls, Reply(c)
      PROVE  TypeOK' /\ Hears(c) /\ mode' = mode
  <2>1. calls[c] \in Call
    BY DEF TypeOK
  <2>2. QED
    BY <1>4, <2>1 DEF Reply, Hears, SameCall, OthersKept, TypeOK, Call
<1>5. ASSUME NEW c \in Calls, Fail(c)
      PROVE  TypeOK' /\ (FallsBackTo(c) \/ EndsSome) /\ mode' = mode
  <2>1. calls[c] \in Call
    BY DEF TypeOK
  <2>2. CASE FallsBack(calls[c])
    <3>1. PICK found \in SUBSET Memories :
             /\ Finds(calls[c], local, found)
             /\ calls' = [calls EXCEPT ![c].step = "answered", ![c].from = "local",
                                       ![c].answer = found]
             /\ local' = Leaves(calls[c], local)
      BY <1>5, <2>2 DEF Fail, LeavesLocally
    <3>2. Serves(calls[c], local, local', found)
      BY <2>1, <3>1, StoreServes DEF TypeOK, Call
    <3>3. calls' \in [Calls -> Call] /\ OthersKept(c)
      BY <2>1, <3>1 DEF TypeOK, Call, OthersKept
    <3>4. /\ SameCall(c) /\ calls'[c].step = "answered" /\ calls'[c].from = "local"
          /\ calls'[c].arrived = calls[c].arrived /\ calls'[c].answer = found
      BY <2>1, <3>1 DEF TypeOK, Call, SameCall
    <3>5. QED
      BY <1>5, <3>2, <3>3, <3>4 DEF Fail, FallsBackTo, TypeOK, Serves
  <2>3. CASE ~FallsBack(calls[c])
    <3>1. calls' = [calls EXCEPT ![c].step = "answered", ![c].answer = {}] /\ UNCHANGED <<aindy, local, mode, restarts>>
      BY <1>5, <2>3 DEF Fail
    <3>2. calls' \in [Calls -> Call] /\ OthersKept(c)
      BY <2>1, <3>1 DEF TypeOK, Call, OthersKept
    <3>3. Ends(c)
      BY <1>5, <2>1, <3>1 DEF Fail, TypeOK, Call, SameCall, Ends
    <3>4. QED
      BY <3>1, <3>2, <3>3 DEF EndsSome, OthersKept, TypeOK
  <2>4. QED
    BY <2>2, <2>3
<1>6. CASE Restart
  <2>1. ASSUME NEW c \in Calls
        PROVE  calls'[c] \in Call /\ (calls'[c] = calls[c] \/ Ends(c))
    <3>1. calls[c] \in Call
      BY DEF TypeOK
    <3>2. CASE calls[c].step = "waiting"
      BY <1>6, <3>1, <3>2 DEF Restart, Call, SameCall, Ends
    <3>3. CASE calls[c].step # "waiting"
      BY <1>6, <3>1, <3>3 DEF Restart
    <3>4. QED
      BY <3>2, <3>3
  <2>2. calls' \in [Calls -> Call]
    BY <1>6, <2>1 DEF Restart
  <2>3. UNCHANGED <<mode, aindy, local>> /\ restarts' \in Nat
    <3>1. UNCHANGED <<mode, aindy, local>> /\ restarts' = restarts + 1
      BY <1>6, Zenon DEF Restart
    <3>2. QED
      BY <3>1 DEF TypeOK
  <2>4. EndsSome
    BY <2>1, <2>3 DEF EndsSome
  <2>5. QED
    BY <2>2, <2>3, <2>4 DEF TypeOK, Kinded
<1>7. CASE UNCHANGED vars
  BY <1>7 DEF vars, EndsSome, TypeOK, Kinded
<1>8. \A m \in Memories : {m} \in SUBSET Memories
  OBVIOUS
<1>9. QED
  BY <1>1, <1>2, <1>3, <1>4, <1>5, <1>6, <1>7, <1>8 DEF Next, Terminated, Kinded

-----------------------------------------------------------------------------
(* The invariant: what calls and stores know of each other.                *)

CallSound(c) ==
  /\ ~Begun(c) => ~calls[c].arrived /\ calls[c].from = "nobody" /\ calls[c].answer = {}
  /\ calls[c].step = "waiting" => mode # "local" /\ calls[c].from = "nobody"
  /\ calls[c].step = "waiting" /\ ~calls[c].arrived => calls[c].answer = {}
  /\ calls[c].step = "dropped" => calls[c].from = "nobody" /\ calls[c].answer = {}
  /\ Answered(c) /\ calls[c].answer # {} => calls[c].from # "nobody"
  /\ calls[c].from = "aindy" => calls[c].arrived
  /\ Begun(c) /\ c \in Memories => /\ calls[c].kind = "remember" /\ calls[c].agent = AgentOf[c]
                                   /\ calls[c].about = {c}
  /\ c \notin Memories => calls[c].kind # "remember"
  /\ \A m \in calls[c].answer : AgentOf[m] = calls[c].agent

\* Where a memory can be, and who can know of it.
StoreSound(m) ==
  /\ m \in aindy => calls[m].arrived
  /\ m \in local => calls[m].from = "local"
  /\ \A c \in Calls : m \in calls[c].answer => calls[m].arrived \/ calls[m].from = "local"

\* The store that acknowledged a memory has it until its agent wants it gone.
Kept(m) ==
  m \in calls[m].answer =>
    \/ Threatened(m)
    \/ calls[m].from = "local" /\ m \in local
    \/ calls[m].from # "local" /\ m \in aindy

\* What a forget says is deleted is gone from both stores.
GoneFor(c, m) ==
  calls[c].kind = "forget" /\ m \in calls[c].answer => Doubled(m) \/ m \notin aindy \cup local

\* What a call was told, compared with what was said before it began.
Told(c, m) ==
  /\ m \in calls[c].gone => m \in Forgotten /\ m # c
  /\ m \in calls[c].known => m \in Acknowledged
  /\ m \in calls[c].gone \cap calls[c].answer => Doubled(m)
  /\ /\ AsksFor(calls[c], m) /\ m \in calls[c].known
     /\ \/ calls[c].from = "local" /\ calls[m].from = "local"
        \/ calls[c].from # "local" /\ calls[m].from = "aindy" /\ calls[c].arrived
           /\ (calls[c].step = "waiting" \/ calls[c].from = "aindy")
     => m \in calls[c].answer \/ Threatened(m)

ForgottenByOne(c, d, m) ==
  c # d /\ calls[c].kind = "forget" /\ calls[d].kind = "forget"
        /\ m \in calls[c].answer /\ m \in calls[d].answer => Doubled(m)

Inv ==
  /\ TypeOK
  /\ \A c \in Calls : CallSound(c)
  /\ \A m \in Memories : StoreSound(m) /\ Kept(m)
  /\ \A c \in Calls, m \in Memories : GoneFor(c, m) /\ Told(c, m)
  /\ \A c, d \in Calls, m \in Memories : ForgottenByOne(c, d, m)

LEMMA InitInv == Init => Inv
<1> SUFFICES ASSUME Init
             PROVE  Inv
  OBVIOUS
<1>1. /\ aindy = {} /\ local = {}
      /\ \A c \in Calls :
           /\ calls[c].step = "idle" /\ calls[c].kind = "recall" /\ ~calls[c].arrived
           /\ calls[c].from = "nobody" /\ calls[c].answer = {} /\ calls[c].known = {}
           /\ calls[c].gone = {}
  <2>1. \A c \in Calls : calls[c] = NotBegun
    BY DEF Init
  <2>2. QED
    BY <2>1 DEF Init, NotBegun
<1>2. Memories \subseteq Calls
  BY DEF Calls
<1>3. \A c \in Calls : CallSound(c)
  BY <1>1 DEF CallSound, Begun, Answered
<1>4. \A m \in Memories : StoreSound(m) /\ Kept(m)
  BY <1>1, <1>2 DEF StoreSound, Kept
<1>5. \A c \in Calls, m \in Memories : GoneFor(c, m) /\ Told(c, m)
  BY <1>1, <1>2 DEF GoneFor, Told
<1>6. \A c, d \in Calls, m \in Memories : ForgottenByOne(c, d, m)
  BY <1>1 DEF ForgottenByOne
<1>7. QED
  BY <1>3, <1>4, <1>5, <1>6, InitTyped DEF Inv

-----------------------------------------------------------------------------
(* What only grows.                                                        *)

LEMMA Monotone ==
  ASSUME Inv, Kinded, TypeOK', mode' = mode
  PROVE  /\ \A c \in Calls : Answered(c) => calls'[c] = calls[c] \/ Lands(c)
         /\ Acknowledged \subseteq Acknowledged'
         /\ Forgotten \subseteq Forgotten'
         /\ \A m \in Memories : Threatened(m) => Threatened(m)'
         /\ \A m \in Memories : Doubled(m) => Doubled(m)'
         /\ \A m \in Memories : calls[m].from # "nobody" => calls'[m].from = calls[m].from
         /\ \A m \in Memories : calls[m].arrived => calls'[m].arrived
<1>0. Memories \subseteq Calls
  BY DEF Calls
<1>1. ASSUME NEW c \in Calls
      PROVE  /\ Answered(c) => calls'[c] = calls[c] \/ Lands(c)
             /\ Answered(c) => Answered(c)' /\ calls'[c].answer = calls[c].answer
             /\ Begun(c) => Begun(c)' /\ SameCall(c)
             /\ calls[c].from # "nobody" => calls'[c].from = calls[c].from
             /\ calls[c].arrived => calls'[c].arrived
  <2>0. CallSound(c)
    BY DEF Inv
  <2>1. CASE \E x \in Calls : AnswersLocally(x) \/ Waits(x) \/ Lands(x) \/ Hears(x) \/ FallsBackTo(x)
    <3>1. PICK x \in Calls : AnswersLocally(x) \/ Waits(x) \/ Lands(x) \/ Hears(x) \/ FallsBackTo(x)
      BY <2>1
    <3>2. CASE x # c
      BY <3>1, <3>2 DEF AnswersLocally, Waits, BeginsCall, Lands, Hears, FallsBackTo, OthersKept,
                        SameCall, Answered, Begun
    <3>3. CASE x = c /\ (AnswersLocally(x) \/ Waits(x))
      BY <2>0, <3>3 DEF AnswersLocally, Waits, BeginsCall, Answered, Begun, CallSound
    <3>4. CASE x = c /\ Lands(x)
      BY <3>4 DEF Lands, SameCall, Answered, Begun
    <3>5. CASE x = c /\ (Hears(x) \/ FallsBackTo(x))
      BY <2>0, <3>5 DEF Hears, FallsBackTo, SameCall, Answered, Begun, CallSound
    <3>6. QED
      BY <3>1, <3>2, <3>3, <3>4, <3>5
  <2>2. CASE EndsSome
    BY <2>2 DEF EndsSome, Ends, SameCall, Answered, Begun
  <2>3. QED
    BY <2>1, <2>2 DEF Kinded
<1>2. Acknowledged \subseteq Acknowledged'
  BY <1>0, <1>1 DEF Acknowledged
<1>3. Forgotten \subseteq Forgotten'
  BY <1>1 DEF Forgotten, Answered, Begun, SameCall
<1>4. \A m \in Memories : Threatened(m) => Threatened(m)'
  BY <1>1 DEF Threatened, SameCall
<1>5. \A m \in Memories : Doubled(m) => Doubled(m)'
  BY <1>0, <1>1 DEF Doubled
<1>6. QED
  BY <1>0, <1>1, <1>2, <1>3, <1>4, <1>5

-----------------------------------------------------------------------------
(* Every step preserves the invariant.                                     *)

LEMMA CallSoundNext ==
  ASSUME Inv, Kinded, TypeOK', mode' = mode, NEW c \in Calls
  PROVE  CallSound(c)'
<1>0. CallSound(c)
  BY DEF Inv
<1>1. ASSUME NEW x \in Calls, x # c, OthersKept(x)
      PROVE  CallSound(c)'
  BY <1>0, <1>1 DEF OthersKept, CallSound, Begun, Answered
<1>2. CASE AnswersLocally(c)
  BY <1>2 DEF AnswersLocally, BeginsCall, Serves, Own, CallSound, Begun, Answered
<1>3. CASE Waits(c)
  BY <1>3 DEF Waits, BeginsCall, CallSound, Begun, Answered
<1>4. CASE Lands(c)
  <2>1. PICK found \in SUBSET Memories :
           /\ Serves(calls[c], aindy, aindy', found)
           /\ calls'[c].answer = IF calls[c].step = "waiting" THEN found ELSE calls[c].answer
    BY <1>4 DEF Lands
  <2>2. \A m \in found : AgentOf[m] = calls[c].agent
    BY <1>0, <1>4, <2>1 DEF Lands, Serves, Own, CallSound, Kinds
  <2>3. QED
    BY <1>0, <1>4, <2>1, <2>2 DEF Lands, SameCall, CallSound, Begun, Answered
<1>5. CASE Hears(c)
  BY <1>0, <1>5 DEF Hears, SameCall, CallSound, Begun, Answered
<1>6. CASE FallsBackTo(c)
  <2>1. \A m \in calls'[c].answer : AgentOf[m] = calls[c].agent
    BY <1>0, <1>6 DEF FallsBackTo, Serves, Own, CallSound, Begun
  <2>2. QED
    BY <1>0, <1>6, <2>1 DEF FallsBackTo, SameCall, CallSound, Begun, Answered
<1>7. CASE EndsSome
  BY <1>0, <1>7 DEF EndsSome, Ends, SameCall, CallSound, Begun, Answered
<1>8. ASSUME NEW x \in Calls, AnswersLocally(x) \/ Waits(x) \/ Lands(x) \/ Hears(x) \/ FallsBackTo(x)
      PROVE  OthersKept(x)
  BY <1>8 DEF AnswersLocally, Waits, BeginsCall, Lands, Hears, FallsBackTo
<1>9. QED
  BY <1>1, <1>2, <1>3, <1>4, <1>5, <1>6, <1>7, <1>8 DEF Kinded

\* What a step adds to a store or tells a caller.
LEMMA News ==
  ASSUME Inv, Kinded, TypeOK', mode' = mode
  PROVE  /\ \A m \in Memories : m \in aindy' => m \in aindy \/ calls'[m].arrived
         /\ \A m \in Memories : m \in local' => m \in local \/ calls'[m].from = "local"
         /\ \A c \in Calls, m \in Memories :
              m \in calls'[c].answer =>
                \/ m \in calls[c].answer
                \/ m = c /\ (calls'[m].arrived \/ calls'[m].from = "local")
                \/ m \in aindy \cup local
<1>0. Memories \subseteq Calls
  BY DEF Calls
<1>1. ASSUME NEW x \in Calls, AnswersLocally(x) \/ FallsBackTo(x), NEW m \in Memories
      PROVE  /\ aindy' = aindy
             /\ m \in local' => m \in local \/ calls'[m].from = "local"
             /\ m \in calls'[x].answer => (m = x /\ calls'[m].from = "local") \/ m \in local
             /\ OthersKept(x)
  <2>0. CallSound(x) /\ CallSound(x)'
    BY CallSoundNext DEF Inv
  <2>1. calls'[x].kind = "remember" => calls'[x].about = {x} /\ x \in Memories
    BY <2>0, <1>1 DEF CallSound, Begun, AnswersLocally, BeginsCall, FallsBackTo
  <2>2. Serves(calls'[x], local, local', calls'[x].answer)
    BY <1>1 DEF AnswersLocally, FallsBackTo, SameCall, Serves
  <2>3. calls'[x].from = "local" /\ OthersKept(x) /\ aindy' = aindy
    BY <1>1 DEF AnswersLocally, BeginsCall, FallsBackTo
  <2>4. CASE calls'[x].kind = "remember"
    BY <2>1, <2>2, <2>3, <2>4 DEF Serves
  <2>5. CASE calls'[x].kind # "remember"
    BY <2>2, <2>3, <2>5 DEF Serves, Own
  <2>6. QED
    BY <2>3, <2>4, <2>5
<1>2. ASSUME NEW x \in Calls, Lands(x), NEW m \in Memories
      PROVE  /\ local' = local
             /\ m \in aindy' => m \in aindy \/ calls'[m].arrived
             /\ m \in calls'[x].answer =>
                  m \in calls[x].answer \/ (m = x /\ calls'[m].arrived) \/ m \in aindy
             /\ OthersKept(x)
  <2>0. CallSound(x)
    BY DEF Inv
  <2>1. calls[x].kind = "remember" => calls[x].about = {x} /\ x \in Memories
    BY <2>0, <1>2 DEF CallSound, Lands
  <2>2. PICK found \in SUBSET Memories :
           /\ Serves(calls[x], aindy, aindy', found)
           /\ calls'[x].answer = IF calls[x].step = "waiting" THEN found ELSE calls[x].answer
    BY <1>2 DEF Lands
  <2>3. calls'[x].arrived /\ local' = local /\ OthersKept(x)
    BY <1>2 DEF Lands
  <2>4. CASE calls[x].kind = "remember"
    BY <2>1, <2>2, <2>3, <2>4 DEF Serves
  <2>5. CASE calls[x].kind # "remember"
    BY <2>2, <2>3, <2>5 DEF Serves, Own
  <2>6. QED
    BY <2>3, <2>4, <2>5
<1>3. ASSUME NEW x \in Calls, Waits(x) \/ Hears(x)
      PROVE  /\ UNCHANGED <<aindy, local>>
             /\ calls'[x].answer \subseteq calls[x].answer
             /\ OthersKept(x)
  BY <1>3 DEF Waits, BeginsCall, Hears
<1>4. CASE EndsSome
  BY <1>4 DEF EndsSome, Ends
<1>5. ASSUME NEW x \in Calls, AnswersLocally(x) \/ Waits(x) \/ Lands(x) \/ Hears(x) \/ FallsBackTo(x),
             NEW c \in Calls, NEW m \in Memories
      PROVE  /\ m \in aindy' => m \in aindy \/ calls'[m].arrived
             /\ m \in local' => m \in local \/ calls'[m].from = "local"
             /\ m \in calls'[c].answer =>
                \/ m \in calls[c].answer
                \/ m = c /\ (calls'[m].arrived \/ calls'[m].from = "local")
                \/ m \in aindy \cup local
  <2>1. CASE x = c
    BY <1>1, <1>2, <1>3, <1>5, <2>1
  <2>2. CASE x # c
    BY <1>1, <1>2, <1>3, <1>5, <2>2 DEF OthersKept
  <2>3. QED
    BY <2>1, <2>2
<1>6. QED
  BY <1>0, <1>4, <1>5 DEF Kinded

LEMMA StoreSoundNext ==
  ASSUME Inv, Kinded, TypeOK', mode' = mode, NEW m \in Memories
  PROVE  StoreSound(m)'
<1>1. StoreSound(m) /\ m \in Calls
  BY DEF Inv, Calls
<1>2. /\ calls[m].arrived => calls'[m].arrived
      /\ calls[m].from = "local" => calls'[m].from = "local"
  BY Monotone
<1>3. QED
  BY <1>1, <1>2, News DEF StoreSound

\* Only the call itself puts a memory into a store, and only its own agent's
\* forget takes it out.
LEMMA StoreChanges ==
  ASSUME Inv, Kinded, TypeOK', mode' = mode, NEW m \in Memories
  PROVE  /\ m \in aindy' => m \in aindy \/ Lands(m)
         /\ m \in local' => m \in local \/ AnswersLocally(m) \/ FallsBackTo(m)
         /\ m \in aindy => m \in aindy' \/ Threatened(m)'
         /\ m \in local => m \in local' \/ Threatened(m)'
<1> DEFINE Goal == /\ m \in aindy' => m \in aindy \/ Lands(m)
                   /\ m \in local' => m \in local \/ AnswersLocally(m) \/ FallsBackTo(m)
                   /\ m \in aindy => m \in aindy' \/ Threatened(m)'
                   /\ m \in local => m \in local' \/ Threatened(m)'
<1>1. ASSUME NEW x \in Calls, NEW store, NEW after, NEW found,
             Serves(calls'[x], store, after, found), Begun(x)'
      PROVE  /\ m \in after => m \in store \/ (x = m)
             /\ m \in store => m \in after \/ Threatened(m)'
  <2>0. CallSound(x)'
    BY CallSoundNext
  <2>1. CASE calls'[x].kind = "remember"
    <3>1. x \in Memories /\ calls'[x].about = {x}
      BY <1>1, <2>0, <2>1 DEF CallSound, Begun
    <3>2. QED
      BY <1>1, <2>1, <3>1 DEF Serves
  <2>2. CASE calls'[x].kind = "forget"
    BY <1>1, <2>2 DEF Serves, Own, Threatened
  <2>3. CASE calls'[x].kind \notin {"remember", "forget"}
    BY <1>1, <2>3 DEF Serves
  <2>4. QED
    BY <2>1, <2>2, <2>3
<1>2. ASSUME NEW x \in Calls, AnswersLocally(x) \/ FallsBackTo(x)
      PROVE  Goal
  <2>1. Serves(calls'[x], local, local', calls'[x].answer) /\ aindy' = aindy /\ Begun(x)'
    BY <1>2 DEF AnswersLocally, FallsBackTo, SameCall, Serves, Begun
  <2>2. QED
    BY <1>1, <1>2, <2>1
<1>3. ASSUME NEW x \in Calls, Lands(x)
      PROVE  Goal
  <2>1. PICK found : Serves(calls[x], aindy, aindy', found)
    BY <1>3 DEF Lands
  <2>2. Serves(calls'[x], aindy, aindy', found) /\ local' = local /\ Begun(x)'
    BY <1>3, <2>1 DEF Lands, SameCall, Serves, Begun
  <2>3. QED
    BY <1>1, <1>3, <2>2
<1>4. ASSUME NEW x \in Calls, Waits(x) \/ Hears(x) \/ EndsSome
      PROVE  Goal
  BY <1>4 DEF Waits, Hears, EndsSome
<1>5. m \in Calls
  BY DEF Calls
<1>6. QED
  BY <1>2, <1>3, <1>4, <1>5 DEF Kinded

LEMMA KeptNext ==
  ASSUME Inv, Kinded, TypeOK', mode' = mode, NEW m \in Memories
  PROVE  Kept(m)'
<1>0. Kept(m) /\ m \in Calls /\ CallSound(m) /\ CallSound(m)'
  BY CallSoundNext DEF Inv, Calls
<1>1. /\ Threatened(m) => Threatened(m)'
      /\ m \in aindy => m \in aindy' \/ Threatened(m)'
      /\ m \in local => m \in local' \/ Threatened(m)'
  BY Monotone, StoreChanges
<1>2. CASE calls'[m] = calls[m]
  BY <1>0, <1>1, <1>2 DEF Kept
<1>3. CASE AnswersLocally(m) \/ FallsBackTo(m)
  <2>1. /\ Serves(calls'[m], local, local', calls'[m].answer)
        /\ calls'[m].kind = "remember" /\ calls'[m].about = {m} /\ calls'[m].from = "local"
    BY <1>0, <1>3 DEF AnswersLocally, BeginsCall, FallsBackTo, SameCall, Serves, CallSound, Begun
  <2>2. QED
    BY <2>1 DEF Serves, Kept
<1>4. CASE Lands(m)
  <2>1. CASE calls[m].step = "waiting"
    <3>1. /\ \E found : Serves(calls[m], aindy, aindy', found)
          /\ calls[m].kind = "remember" /\ calls[m].about = {m} /\ calls'[m].from = "nobody"
      BY <1>0, <1>4, <2>1 DEF Lands, CallSound
    <3>2. QED
      BY <3>1 DEF Serves, Kept
  <2>2. CASE calls[m].step # "waiting"
    BY <1>0, <1>1, <1>4, <2>2 DEF Lands, Kept
  <2>3. QED
    BY <2>1, <2>2
<1>5. CASE Waits(m) \/ Ends(m)
  BY <1>5 DEF Waits, Ends, Kept
<1>6. CASE Hears(m)
  BY <1>0, <1>1, <1>6 DEF Hears, Kept, CallSound
<1>7. ASSUME NEW x \in Calls, AnswersLocally(x) \/ Waits(x) \/ Lands(x) \/ Hears(x) \/ FallsBackTo(x)
      PROVE  x = m \/ calls'[m] = calls[m]
  BY <1>0, <1>7 DEF AnswersLocally, Waits, BeginsCall, Lands, Hears, FallsBackTo, OthersKept
<1>8. QED
  BY <1>0, <1>2, <1>3, <1>4, <1>5, <1>6, <1>7 DEF Kinded, EndsSome

\* What somebody knows of comes into a store a second time only.
LEMMA KnownIsDoubled ==
  ASSUME Inv, Kinded, TypeOK', mode' = mode, NEW m \in Memories, NEW c \in Calls,
         m \in calls[c].answer, m \notin aindy \cup local
  PROVE  Doubled(m)' \/ m \notin aindy' \cup local'
<1>0. m \in Calls /\ CallSound(m) /\ StoreSound(m)
  BY DEF Inv, Calls
<1>1. calls[m].arrived \/ calls[m].from = "local"
  BY <1>0 DEF StoreSound
<1>2. CASE Lands(m)
  BY <1>1, <1>2 DEF Lands, Doubled
<1>3. CASE AnswersLocally(m)
  BY <1>0, <1>1, <1>3 DEF AnswersLocally, BeginsCall, CallSound
<1>4. CASE FallsBackTo(m)
  BY <1>0, <1>1, <1>4 DEF FallsBackTo, CallSound, Doubled
<1>5. QED
  BY <1>2, <1>3, <1>4, StoreChanges

\* A memory in both stores is doubled.
LEMMA BothIsDoubled ==
  ASSUME Inv, NEW m \in aindy, m \in local
  PROVE  Doubled(m)
  BY DEF Inv, TypeOK, StoreSound, Doubled

LEMMA GoneForNext ==
  ASSUME Inv, Kinded, TypeOK', mode' = mode, NEW c \in Calls, NEW m \in Memories
  PROVE  GoneFor(c, m)'
<1> SUFFICES ASSUME calls'[c].kind = "forget", m \in calls'[c].answer
             PROVE  Doubled(m)' \/ m \notin aindy' \cup local'
  BY DEF GoneFor
<1>0. Doubled(m) => Doubled(m)'
  BY Monotone
<1>1. CASE m \in calls[c].answer
  <2>1. calls[c].kind = "forget"
    <3>1. CallSound(c)
      BY DEF Inv
    <3>2. \/ calls'[c] = calls[c]
          \/ SameCall(c)
          \/ calls[c].answer = {}
      BY <3>1 DEF Kinded, AnswersLocally, Waits, BeginsCall, Lands, Hears, FallsBackTo, EndsSome,
                  Ends, OthersKept, CallSound
    <3>3. QED
      BY <1>1, <3>2 DEF SameCall
  <2>2. Doubled(m) \/ m \notin aindy \cup local
    BY <1>1, <2>1 DEF Inv, GoneFor
  <2>3. QED
    BY <1>0, <1>1, <2>2, KnownIsDoubled
<1>2. CASE m \notin calls[c].answer
  <2>1. CASE AnswersLocally(c) \/ FallsBackTo(c)
    <3>1. Serves(calls'[c], local, local', calls'[c].answer) /\ aindy' = aindy
      BY <2>1 DEF AnswersLocally, FallsBackTo, SameCall, Serves
    <3>2. m \in local /\ m \notin local'
      BY <3>1 DEF Serves, Own
    <3>3. QED
      BY <1>0, <3>1, <3>2, BothIsDoubled
  <2>2. CASE Lands(c)
    <3>1. /\ Serves(calls[c], aindy, aindy', calls'[c].answer)
          /\ calls[c].kind = "forget" /\ local' = local
      BY <1>2, <2>2 DEF Lands, SameCall
    <3>2. m \in aindy /\ m \notin aindy'
      BY <3>1 DEF Serves, Own
    <3>3. QED
      BY <1>0, <3>1, <3>2, BothIsDoubled
  <2>3. CASE calls'[c] = calls[c] \/ Waits(c) \/ Hears(c) \/ Ends(c)
    BY <1>2, <2>3 DEF Waits, Hears, Ends
  <2>4. ASSUME NEW x \in Calls, AnswersLocally(x) \/ Waits(x) \/ Lands(x) \/ Hears(x) \/ FallsBackTo(x)
        PROVE  x = c \/ calls'[c] = calls[c]
    BY <2>4 DEF AnswersLocally, Waits, BeginsCall, Lands, Hears, FallsBackTo, OthersKept
  <2>5. QED
    BY <2>1, <2>2, <2>3, <2>4 DEF Kinded, EndsSome
<1>3. QED
  BY <1>1, <1>2

\* Which call a step is about.
LEMMA OneChanges ==
  ASSUME Inv, Kinded, NEW c \in Calls
  PROVE  \/ calls'[c] = calls[c]
         \/ AnswersLocally(c) \/ Waits(c) \/ Lands(c) \/ Hears(c) \/ FallsBackTo(c)
         \/ Ends(c)
<1>1. ASSUME NEW x \in Calls, AnswersLocally(x) \/ Waits(x) \/ Lands(x) \/ Hears(x) \/ FallsBackTo(x)
      PROVE  x = c \/ calls'[c] = calls[c]
  BY <1>1 DEF AnswersLocally, Waits, BeginsCall, Lands, Hears, FallsBackTo, OthersKept
<1>2. QED
  BY <1>1 DEF Kinded, EndsSome

LEMMA ForgottenIsDoubled ==
  ASSUME Inv, NEW m \in Forgotten, m \in aindy \cup local
  PROVE  Doubled(m)
<1>1. PICK d \in Calls : Answered(d) /\ calls[d].kind = "forget" /\ m \in calls[d].answer
  BY DEF Forgotten
<1>2. GoneFor(d, m)
  BY DEF Inv, TypeOK
<1>3. QED
  BY <1>1, <1>2 DEF GoneFor

LEMMA AcknowledgedIsKept ==
  ASSUME Inv, NEW m \in Acknowledged
  PROVE  /\ calls[m].from # "nobody"
         /\ \/ Threatened(m)
            \/ calls[m].from = "local" /\ m \in local
            \/ calls[m].from # "local" /\ m \in aindy
<1>1. m \in Memories /\ m \in Calls /\ Answered(m) /\ m \in calls[m].answer
  BY DEF Acknowledged, Calls
<1>2. CallSound(m) /\ Kept(m)
  BY <1>1 DEF Inv
<1>3. QED
  BY <1>1, <1>2 DEF CallSound, Kept

LEMMA ToldOfForgotten ==
  ASSUME Inv, Kinded, TypeOK', mode' = mode, NEW c \in Calls, NEW m \in Memories,
         m \in calls'[c].gone
  PROVE  m \in Forgotten' /\ m # c /\ (m \in calls'[c].answer => Doubled(m)')
<1>0. /\ Doubled(m) => Doubled(m)'
      /\ Forgotten \subseteq Forgotten'
  BY Monotone
<1>1. CallSound(c) /\ Told(c, m) /\ m \in Calls /\ StoreSound(m) /\ CallSound(m)
  BY DEF Inv, Calls
<1>2. CASE AnswersLocally(c) \/ Waits(c)
  <2>1. m \in Forgotten /\ ~Begun(c) /\ calls[c].answer = {}
    BY <1>1, <1>2 DEF AnswersLocally, Waits, BeginsCall, CallSound
  <2>2. m # c
    BY <1>1, <2>1 DEF Forgotten, StoreSound, CallSound
  <2>3. m \in calls'[c].answer => m \in aindy \cup local
    BY <2>1, <2>2, News
  <2>4. QED
    BY <1>0, <2>1, <2>2, <2>3, ForgottenIsDoubled
<1>3. CASE calls'[c] = calls[c] \/ SameCall(c)
  <2>1. m \in Forgotten /\ m # c /\ (m \in calls[c].answer => Doubled(m))
    BY <1>1, <1>3 DEF SameCall, Told
  <2>2. m \in calls'[c].answer => m \in calls[c].answer \/ m \in aindy \cup local
    BY <2>1, News
  <2>3. QED
    BY <1>0, <2>1, <2>2, ForgottenIsDoubled
<1>4. QED
  BY <1>2, <1>3, OneChanges DEF Lands, Hears, FallsBackTo, Ends

LEMMA ToldNext ==
  ASSUME Inv, Kinded, TypeOK', mode' = mode, NEW c \in Calls, NEW m \in Memories
  PROVE  Told(c, m)'
<1>0. /\ Threatened(m) => Threatened(m)'
      /\ Acknowledged \subseteq Acknowledged'
      /\ m \in Acknowledged => calls'[m].from = calls[m].from
  BY Monotone, AcknowledgedIsKept
<1>1. CallSound(c) /\ Told(c, m)
  BY DEF Inv
<1>2. m \in calls'[c].known => m \in Acknowledged
  <2>1. CASE AnswersLocally(c) \/ Waits(c)
    BY <2>1 DEF AnswersLocally, Waits, BeginsCall
  <2>2. CASE calls'[c] = calls[c] \/ SameCall(c)
    BY <1>1, <2>2 DEF SameCall, Told
  <2>3. QED
    BY <2>1, <2>2, OneChanges DEF Lands, Hears, FallsBackTo, Ends
<1>3. ASSUME AsksFor(calls'[c], m), m \in calls'[c].known,
             \/ calls'[c].from = "local" /\ calls'[m].from = "local"
             \/ calls'[c].from # "local" /\ calls'[m].from = "aindy" /\ calls'[c].arrived
                /\ (calls'[c].step = "waiting" \/ calls'[c].from = "aindy")
      PROVE  m \in calls'[c].answer \/ Threatened(m)'
  <2>0. /\ m \in Acknowledged /\ calls'[m].from = calls[m].from
        /\ \/ Threatened(m)
           \/ calls[m].from = "local" /\ m \in local
           \/ calls[m].from # "local" /\ m \in aindy
    BY <1>0, <1>2, <1>3, AcknowledgedIsKept
  <2>1. CASE AnswersLocally(c) \/ FallsBackTo(c)
    <3>1. Serves(calls'[c], local, local', calls'[c].answer) /\ calls'[c].from = "local"
      BY <2>1 DEF AnswersLocally, FallsBackTo, SameCall, Serves
    <3>2. m \in Own(local, calls'[c].agent) => m \in calls'[c].answer
      BY <1>3, <3>1 DEF Serves, AsksFor
    <3>3. calls'[c].agent = AgentOf[m]
      BY <1>3 DEF AsksFor
    <3>4. QED
      BY <1>0, <1>3, <2>0, <3>1, <3>2, <3>3 DEF Own
  <2>2. CASE Lands(c)
    <3>1. AsksFor(calls[c], m) /\ calls'[c].agent = calls[c].agent /\ ~calls[c].arrived
          /\ calls'[c].from = calls[c].from /\ calls'[c].step = calls[c].step
          /\ m \in calls[c].known
      BY <1>3, <2>2 DEF Lands, SameCall, AsksFor
    <3>2. CASE calls[c].from = "local"
      <4>1. calls'[c].answer = calls[c].answer
        BY <1>1, <2>2, <3>1, <3>2 DEF Lands, CallSound
      <4>2. QED
        BY <1>0, <1>1, <1>3, <2>0, <3>1, <3>2, <4>1 DEF Told
    <3>3. CASE calls[c].from # "local"
      <4>1. calls[c].step = "waiting" /\ calls[m].from = "aindy"
        BY <1>1, <1>3, <2>0, <3>1, <3>3 DEF CallSound
      <4>2. m \in Own(aindy, calls[c].agent) => m \in calls'[c].answer
        BY <2>2, <3>1, <4>1 DEF Lands, Serves, AsksFor
      <4>3. calls[c].agent = AgentOf[m]
        BY <3>1 DEF AsksFor
      <4>4. QED
        BY <1>0, <1>3, <2>0, <3>1, <4>1, <4>2, <4>3 DEF Own
    <3>4. QED
      BY <3>2, <3>3
  <2>3. CASE Hears(c)
    BY <1>0, <1>1, <1>3, <2>0, <2>3 DEF Hears, SameCall, CallSound, Told, AsksFor
  <2>4. CASE Waits(c) \/ Ends(c)
    BY <1>1, <1>3, <2>4 DEF Waits, BeginsCall, Ends, CallSound
  <2>5. CASE calls'[c] = calls[c]
    BY <1>0, <1>1, <1>3, <2>0, <2>5 DEF Told
  <2>6. QED
    BY <2>1, <2>2, <2>3, <2>4, <2>5, OneChanges
<1>4. QED
  BY <1>0, <1>2, <1>3, ToldOfForgotten DEF Told

LEMMA ForgottenByOneNext ==
  ASSUME Inv, Kinded, TypeOK', mode' = mode, NEW c \in Calls, NEW d \in Calls, NEW m \in Memories
  PROVE  ForgottenByOne(c, d, m)'
<1> SUFFICES ASSUME c # d, calls'[c].kind = "forget", calls'[d].kind = "forget",
                    m \in calls'[c].answer, m \in calls'[d].answer
             PROVE  Doubled(m)'
  BY DEF ForgottenByOne
<1>0. Doubled(m) => Doubled(m)'
  BY Monotone
<1>1. ASSUME NEW x \in Calls, calls'[x].kind = "forget", m \in calls'[x].answer
      PROVE  /\ m # x
             /\ m \in calls[x].answer => calls[x].kind = "forget"
             /\ m \in calls[x].answer \/ m \in aindy \cup local
  <2>1. CallSound(x) /\ CallSound(x)' /\ Begun(x)'
    BY <1>1, CallSoundNext DEF Inv, CallSound
  <2>2. m # x
    BY <1>1, <2>1 DEF CallSound
  <2>3. m \in calls[x].answer => calls[x].kind = "forget"
    BY <1>1, <2>1, OneChanges DEF AnswersLocally, Waits, BeginsCall, Lands, Hears, FallsBackTo,
                                  Ends, SameCall, CallSound
  <2>4. QED
    BY <1>1, <2>2, <2>3, News
<1>2. ASSUME NEW x \in Calls, m \in calls[x].answer, calls[x].kind = "forget", m \in aindy \cup local
      PROVE  Doubled(m)
  BY <1>2 DEF Inv, GoneFor
<1>3. m \in calls[c].answer \/ m \in calls[d].answer
  <2>1. calls'[c].answer \subseteq calls[c].answer \/ calls'[d].answer \subseteq calls[d].answer
    <3>1. ASSUME NEW x \in Calls, AnswersLocally(x) \/ Waits(x) \/ Lands(x) \/ Hears(x) \/ FallsBackTo(x)
          PROVE  calls'[c] = calls[c] \/ calls'[d] = calls[d]
      BY <3>1 DEF AnswersLocally, Waits, BeginsCall, Lands, Hears, FallsBackTo, OthersKept
    <3>2. QED
      BY <3>1 DEF Kinded, EndsSome, Ends
  <2>2. QED
    BY <2>1
<1>4. CASE m \in calls[c].answer /\ m \in calls[d].answer
  BY <1>0, <1>1, <1>4 DEF Inv, ForgottenByOne
<1>5. CASE ~(m \in calls[c].answer /\ m \in calls[d].answer)
  BY <1>0, <1>1, <1>2, <1>3, <1>5
<1>6. QED
  BY <1>4, <1>5

-----------------------------------------------------------------------------
(* The theorems.                                                           *)

THEOREM Invariance == Spec => []Inv
<1>1. Inv /\ [Next]_vars => Inv'
  <2> SUFFICES ASSUME Inv, [Next]_vars
               PROVE  Inv'
    OBVIOUS
  <2>1. TypeOK' /\ Kinded /\ mode' = mode
    BY NextKinded DEF Inv
  <2>2. QED
    BY <2>1, CallSoundNext, StoreSoundNext, KeptNext, GoneForNext, ToldNext, ForgottenByOneNext DEF Inv
<1>2. QED
  BY <1>1, InitInv, PTL DEF Spec

\* Every reachable state is well typed.
THEOREM TypeCorrect == Spec => []TypeOK
<1>1. Inv => TypeOK
  BY DEF Inv
<1>2. QED
  BY <1>1, Invariance, PTL

\* Whatever fails, falls back, arrives late or restarts: what was acknowledged
\* is stored until its own agent has it forgotten.
THEOREM AcknowledgedIsStored == Spec => []RememberedIsKept
<1>1. Inv => RememberedIsKept
  BY AcknowledgedIsKept DEF RememberedIsKept
<1>2. QED
  BY <1>1, Invariance, PTL

\* No answer tells of what was confirmed deleted before the question, unless
\* the memory is in both stores.
THEOREM ForgottenIsGone == Spec => []ForgottenStaysForgotten
<1>1. Inv => ForgottenStaysForgotten
  BY DEF Inv, TypeOK, Call, Told, ForgottenStaysForgotten
<1>2. QED
  BY <1>1, Invariance, PTL

\* A list, or a get of it, finds what was acknowledged before by the store that
\* answers.
THEOREM WritesAreRead == Spec => []ReadsOwnWrites
<1>1. Inv => ReadsOwnWrites
  <2> SUFFICES ASSUME Inv, NEW c \in Calls, Answered(c), NEW m \in calls[c].known,
                      AsksFor(calls[c], m), calls[c].from = calls[m].from
               PROVE  m \in calls[c].answer \/ Threatened(m)
    BY DEF ReadsOwnWrites
  <2>1. m \in Memories /\ calls[c] \in Call
    BY DEF Inv, TypeOK, Call
  <2>2. Told(c, m) /\ CallSound(c)
    BY <2>1 DEF Inv
  <2>3. m \in Acknowledged
    BY <2>2 DEF Told
  <2>4. calls[c].from \in {"aindy", "local"}
    BY <2>1, <2>3, AcknowledgedIsKept DEF Call
  <2>5. QED
    BY <2>2, <2>4 DEF Told, CallSound
<1>2. QED
  BY <1>1, Invariance, PTL

\* A deletion is confirmed once, unless the memory was in both stores.
THEOREM DeletedOnce == Spec => []ForgottenOnce
<1>1. Inv => ForgottenOnce
  BY DEF Inv, TypeOK, Call, ForgottenByOne, ForgottenOnce
<1>2. QED
  BY <1>1, Invariance, PTL

-----------------------------------------------------------------------------
(***************************************************************************)
(* The knowledge index.  Its invariants are those of KnowledgeInvariants.  *)
(***************************************************************************)

-----------------------------------------------------------------------------
(* Jobs, chunks and the numbers of texts.                                  *)

\* A thread with a job has a source, a version and a count.
Busy == [step : Clearing \cup Inserting, source : Sources, version : Versions \cup {Absent},
         upto : 0..NChunks, next : 1..(NChunks + 1)]

LEMMA JobIsIdleOrBusy ==
  /\ Job = {Idle} \cup Busy
  /\ \A j \in Busy : j # Idle /\ j.step # "idle"
<1>1. \A j \in Busy : j.step # "idle"
  BY DEF Busy, Clearing, Inserting
<1>2. Idle.step = "idle"
  BY DEF Idle
<1>3. Clearing \cup Inserting = {"clearTexts", "clearRows", "clearCommit", "insertText", "insertRow", "commit"}
  BY DEF Clearing, Inserting
<1> QED BY <1>1, <1>2, <1>3 DEF Job, Busy

\* A thread at a statement has a job.
LEMMA AtWork ==
  ASSUME TypedIndex, NEW t \in Threads,
         job[t].step \in Clearing \cup Inserting
  PROVE  job[t] \in Busy /\ job[t] # Idle
<1>1. job[t] \in {Idle} \cup Busy
  BY JobIsIdleOrBusy DEF TypedIndex, IndexTypeOK
<1>2. Idle.step = "idle" /\ "idle" \notin Clearing \cup Inserting
  BY DEF Idle, Clearing, Inserting
<1> QED BY <1>1, <1>2, JobIsIdleOrBusy

\* The chunk a job inserts next is one.
LEMMA ChunkAtType ==
  ASSUME NEW j \in Busy, j.version \in Versions, j.next <= j.upto
  PROVE  ChunkAt(j) \in Chunk
<1>1. j.next \in 1..NChunks
  BY KnowledgeAssumption DEF Busy
<1> QED BY <1>1 DEF Busy, ChunkAt, Chunk

\* A finite set of numbers has a largest one.
LEMMA Greatest ==
  ASSUME NEW S, S \in SUBSET Nat, S # {}, IsFiniteSet(S)
  PROVE  \E m \in S : \A k \in S : m >= k
<1> DEFINE Above(i) == {k \in S : k > i}
<1>1. IsWellFoundedOn(StrictSubsetOrdering(S), SUBSET S)
  BY FS_StrictSubsetOrderingWellFounded, FS_FiniteSubsetsOfFinite
<1>2. {Above(i) : i \in S} \subseteq SUBSET S /\ {Above(i) : i \in S} # {}
  <2>1. \A i \in S : Above(i) \in SUBSET S
    OBVIOUS
  <2> HIDE DEF Above
  <2> QED BY <2>1
<1>3. PICK A \in {Above(i) : i \in S} : \A B \in {Above(i) : i \in S} : ~(<<B, A>> \in StrictSubsetOrdering(S))
  <2> HIDE DEF Above
  <2> QED BY <1>1, <1>2, WFMin
<1>4. PICK m \in S : A = Above(m)
  OBVIOUS
<1>5. ASSUME NEW k \in S, k > m
      PROVE  FALSE
  <2>1. Above(k) \subseteq Above(m) /\ k \in Above(m) /\ k \notin Above(k)
    <3>1. \A x \in S : x \in Nat
      OBVIOUS
    <3>2. \A x \in S : x > k => x > m
      BY <1>5, <3>1
    <3>3. ~(k > k)
      BY <3>1
    <3> QED BY <1>5, <3>2, <3>3
  <2>2. <<Above(k), A>> \in StrictSubsetOrdering(S)
    BY <1>4, <2>1 DEF StrictSubsetOrdering
  <2> QED BY <1>3, <2>2
<1> QED BY <1>5

\* The number of a new text is above those of all others.
LEMMA NewIdIsNew ==
  ASSUME TypedIndex
  PROVE  NewId \in Nat /\ \A x \in texts : x.id < NewId
<1> DEFINE ids == {0} \cup {x.id : x \in texts}
<1>1. ids \in SUBSET Nat
  BY DEF TypedIndex, Text
<1>2. IsFiniteSet(ids)
  <2> DEFINE id == [x \in texts |-> x.id]
  <2>1. id \in Surjection(texts, {x.id : x \in texts})
    BY DEF Surjection
  <2>2. IsFiniteSet({x.id : x \in texts})
    <3> HIDE DEF id
    <3> QED BY <2>1, FS_Surjection DEF TypedIndex
  <2> QED BY <2>2, FS_Union, FS_Singleton
<1>3. PICK m \in ids : \A k \in ids : m >= k
  <2> HIDE DEF ids
  <2>1. ids # {}
    BY DEF ids
  <2> QED BY <1>1, <1>2, <2>1, Greatest
<1>4. Max(ids) \in ids /\ \A k \in ids : Max(ids) >= k
  <2> HIDE DEF ids
  <2> QED BY <1>3 DEF Max
<1>5. NewId = 1 + Max(ids)
  BY DEF NewId
<1>6. \A x \in texts : x.id \in ids
  OBVIOUS
<1> HIDE DEF ids
<1>7. Max(ids) \in Nat /\ \A x \in texts : x.id \in Nat
  BY <1>1, <1>4, <1>6
<1> QED BY <1>4, <1>5, <1>6, <1>7

-----------------------------------------------------------------------------
(* Types.                                                                  *)

TablesTyped ==
  /\ rows \in SUBSET Row /\ texts \in SUBSET Text
  /\ saved \in [rows : SUBSET Row, texts : SUBSET Text]
  /\ IsFiniteSet(rows) /\ IsFiniteSet(texts)
  /\ IsFiniteSet(saved.rows) /\ IsFiniteSet(saved.texts)

OthersTyped ==
  /\ disk \in [Files -> Versions \cup {Absent, Empty}]
  /\ phase \in {"scanning", "starting", "watching"}
  /\ toScan \in SUBSET Files
  /\ batch \in SUBSET ({"changed", "deleted"} \X Files)
  /\ pending \in SUBSET ({"changed", "deleted"} \X Files)
  /\ job \in [Threads -> Job]
  /\ last \in Nat
  /\ events \in 0..MaxEvents
  /\ lagging \in SUBSET Files
  /\ overlapped \in BOOLEAN

LEMMA TypedParts == TypedIndex <=> TablesTyped /\ OthersTyped
<1>1. TypedIndex => TablesTyped /\ OthersTyped
  BY DEF TypedIndex, IndexTypeOK, TablesTyped, OthersTyped
<1>2. ASSUME TablesTyped, OthersTyped
      PROVE  TypedIndex
  <2>1. (\A r \in rows : r.chunk \in Chunk /\ r.text \in Nat) /\ (\A t \in texts : t.chunk \in Chunk /\ t.id \in Nat)
    BY <1>2 DEF TablesTyped, Row, Text
  <2>2. DOMAIN saved = {"rows", "texts"}
    BY <1>2 DEF TablesTyped
  <2> QED BY <1>2, <2>1, <2>2 DEF TypedIndex, IndexTypeOK, TablesTyped, OthersTyped
<1> QED BY <1>1, <1>2

LEMMA TypedPartsNext == TablesTyped' /\ OthersTyped' => TypedIndex'
BY TypedParts, PTL

LEMMA BeginType ==
  ASSUME NEW s \in Sources, NEW v \in Versions \cup {Absent}, NEW n \in 0..NChunks
  PROVE  Begin(s, v, n) \in Busy
<1>1. 1 \in 1..(NChunks + 1)
  BY KnowledgeAssumption
<1> QED BY <1>1 DEF Begin, Busy, Clearing

LEMMA ThreadsAre == "loop" \in Threads /\ "worker" \in Threads /\ "loop" # "worker"
BY DEF Threads

\* The thread gets the job, the other keeps its own.
Gives(t, j) == /\ job' = [job EXCEPT ![t] = j]
               /\ job'[t] = j /\ \A u \in Threads \ {t} : job'[u] = job[u]

LEMMA Given ==
  ASSUME TypedIndex, NEW t \in Threads, NEW j, job' = [job EXCEPT ![t] = j]
  PROVE  Gives(t, j) /\ (j \in Job => job' \in [Threads -> Job])
<1>1. job \in [Threads -> Job]
  BY DEF TypedIndex, IndexTypeOK
<1> QED BY <1>1 DEF Gives

\* A statement leaves tables of rows and texts.
LEMMA StatementTyped ==
  ASSUME TypedIndex, Working, NEW t \in Threads, Statement(t)
  PROVE  TypedIndex'
<1> DEFINE j == job[t]
<1>1. Statement(t) => j.step \in Clearing \cup Inserting
  BY DEF Statement, ClearTexts, ClearRows, ClearCommit, InsertText, InsertRow, InsertCommit, Step, Clearing, Inserting
<1>2. j \in Busy /\ AtStep(t)
  BY <1>1, AtWork DEF Working
<1>3. TablesTyped /\ OthersTyped
  BY TypedParts
<1>4. ASSUME NEW to \in Clearing \cup Inserting
      PROVE  [j EXCEPT !.step = to] \in Busy
  BY <1>2, <1>4 DEF Busy
<1>5. Statement(t) => overlapped' \in BOOLEAN
  BY <1>3 DEF Statement, OthersTyped
<1>6. ASSUME last' \in Nat, job' \in [Threads -> Job]
      PROVE  OthersTyped'
  BY <1>3, <1>5, <1>6 DEF Statement, OthersTyped, fileVars
<1>7. ASSUME NEW to \in Job, job' = [job EXCEPT ![t] = to]
      PROVE  job' \in [Threads -> Job]
  BY <1>7, Given
<1>8. Busy \subseteq Job /\ Idle \in Job
  BY JobIsIdleOrBusy
<1>9. CASE ClearTexts(t)
  <2>1. job' \in [Threads -> Job]
    BY <1>9, <1>4, <1>7, <1>8 DEF ClearTexts, Step, GoTo, Clearing
  <2>2. texts' \in SUBSET texts
    BY <1>9 DEF ClearTexts
  <2>3. TablesTyped'
    BY <1>3, <1>9, <2>2, FS_Subset DEF ClearTexts, TablesTyped
  <2> QED BY <1>3, <1>6, <1>9, <2>1, <2>3, TypedPartsNext DEF ClearTexts, OthersTyped
<1>10. CASE ClearRows(t)
  <2>1. job' \in [Threads -> Job]
    BY <1>10, <1>4, <1>7, <1>8 DEF ClearRows, Step, GoTo, Clearing
  <2>2. rows' \in SUBSET rows
    BY <1>10 DEF ClearRows
  <2>3. TablesTyped'
    BY <1>3, <1>10, <2>2, FS_Subset DEF ClearRows, TablesTyped
  <2> QED BY <1>3, <1>6, <1>10, <2>1, <2>3, TypedPartsNext DEF ClearRows, OthersTyped
<1>11. CASE ClearCommit(t)
  <2>1. job' \in [Threads -> Job]
    BY <1>11, <1>4, <1>7, <1>8 DEF ClearCommit, GoTo, Inserting
  <2>2. TablesTyped'
    BY <1>3, <1>11 DEF ClearCommit, Commit, TablesTyped
  <2> QED BY <1>3, <1>6, <1>11, <2>1, <2>2, TypedPartsNext DEF ClearCommit, OthersTyped
<1>12. CASE InsertText(t)
  <2>1. job' \in [Threads -> Job]
    BY <1>12, <1>4, <1>7, <1>8 DEF InsertText, Step, GoTo, Inserting
  <2>2. ChunkAt(j) \in Chunk
    <3>1. j.next <= j.upto /\ j.version \in Versions
      BY <1>2, <1>12 DEF AtStep, InsertText, Step, Inserting
    <3> QED BY <1>2, <3>1, ChunkAtType
  <2>3. [id |-> NewId, chunk |-> ChunkAt(j)] \in Text
    BY <2>2, NewIdIsNew DEF Text
  <2>4. TablesTyped'
    BY <1>3, <1>12, <2>3, FS_AddElement DEF InsertText, TablesTyped
  <2> QED BY <1>6, <1>12, <2>1, <2>4, NewIdIsNew, TypedPartsNext DEF InsertText
<1>13. CASE InsertRow(t)
  <2>1. j.next <= j.upto /\ j.version \in Versions
    BY <1>2, <1>13 DEF AtStep, InsertRow, Inserting
  <2>2. ASSUME NEW to \in Clearing \cup Inserting
        PROVE  [[j EXCEPT !.next = @ + 1] EXCEPT !.step = to] \in Busy
    <3>1. j.next + 1 \in 1..(NChunks + 1)
      BY KnowledgeAssumption, <1>2, <2>1 DEF Busy
    <3>2. [j EXCEPT !.next = @ + 1] \in Busy
      BY <1>2, <3>1 DEF Busy
    <3> QED BY <2>2, <3>2 DEF Busy
  <2>3. job' \in [Threads -> Job]
    BY <1>13, <2>2, <1>7, <1>8 DEF InsertRow, GoTo, Inserting
  <2>4. [chunk |-> ChunkAt(j), text |-> last] \in Row
    BY <1>2, <1>3, <2>1, ChunkAtType DEF Row, OthersTyped
  <2>5. TablesTyped'
    BY <1>3, <1>13, <2>4, FS_AddElement DEF InsertRow, TablesTyped
  <2> QED BY <1>3, <1>6, <1>13, <2>3, <2>5, TypedPartsNext DEF InsertRow, OthersTyped
<1>14. CASE InsertCommit(t)
  <2>1. job' \in [Threads -> Job]
    BY <1>14, <1>7, <1>8 DEF InsertCommit, GoTo
  <2>2. TablesTyped'
    BY <1>3, <1>14 DEF InsertCommit, Commit, TablesTyped
  <2> QED BY <1>3, <1>6, <1>14, <2>1, <2>2, TypedPartsNext DEF InsertCommit, OthersTyped
<1> QED BY <1>9, <1>10, <1>11, <1>12, <1>13, <1>14 DEF Statement

LEMMA IndexInitTyped ==
  ASSUME IndexInit
  PROVE  TypedIndex
<1>1. IsFiniteSet({})
  BY FS_EmptySet
<1>2. TablesTyped
  BY <1>1 DEF IndexInit, TablesTyped
<1>3. job \in [Threads -> Job]
  BY JobIsIdleOrBusy DEF IndexInit
<1>4. disk \in [Files -> Versions \cup {Absent, Empty}] /\ events \in 0..MaxEvents /\ toScan \in SUBSET Files
  BY KnowledgeAssumption DEF IndexInit, Present
<1>5. OthersTyped
  BY <1>3, <1>4 DEF IndexInit, OthersTyped
<1> QED BY <1>2, <1>5, TypedParts

\* Steps that are no statement leave the tables alone, or bring back what is
\* committed.
LEMMA OtherStepsTyped ==
  ASSUME TypedIndex, [IndexNext]_indexVars, ~Statement("loop"), ~Statement("worker")
  PROVE  TypedIndex'
<1>1. TablesTyped /\ OthersTyped
  BY TypedParts
<1>2. UNCHANGED tableVars => TablesTyped'
  BY <1>1 DEF TablesTyped, tableVars
<1>3. ASSUME NEW t \in Threads, NEW j \in Busy \cup {Idle}, job' = [job EXCEPT ![t] = j]
      PROVE  job' \in [Threads -> Job]
  BY <1>3, Given, JobIsIdleOrBusy
<1>4. Event => events' \in 0..MaxEvents
  BY KnowledgeAssumption, <1>1 DEF Event, OthersTyped
<1>5. ASSUME NEW f \in Files, Scan(f)
      PROVE  TypedIndex'
  <2>1. Reindex(f, disk[f]) \in Busy \/ disk[f] \notin Versions
    BY KnowledgeAssumption, BeginType DEF Reindex, Sources
  <2>2. job' \in [Threads -> Job]
    <3>1. CASE disk[f] \in Versions
      BY <1>3, <1>5, <2>1, <3>1, ThreadsAre DEF Scan
    <3>2. CASE disk[f] \notin Versions
      BY <1>1, <1>5, <3>2 DEF Scan, OthersTyped
    <3> QED BY <3>1, <3>2
  <2>3. OthersTyped'
    BY <1>1, <1>5, <2>2 DEF Scan, OthersTyped, tableVars
  <2> QED BY <1>2, <1>5, <2>3, TypedPartsNext DEF Scan
<1>6. ASSUME ScanEnds \/ Watch
      PROVE  TypedIndex'
  <2>1. OthersTyped'
    BY <1>1, <1>6 DEF ScanEnds, Watch, OthersTyped, tableVars, fileVars
  <2> QED BY <1>2, <1>6, <2>1, TypedPartsNext DEF ScanEnds, Watch
<1>7. ASSUME NextBatch
      PROVE  TypedIndex'
  <2>1. OthersTyped'
    BY <1>1, <1>7 DEF NextBatch, LeftOver, OthersTyped, tableVars
  <2> QED BY <1>2, <1>7, <2>1, TypedPartsNext DEF NextBatch
<1>8. ASSUME NEW kind \in {"changed", "deleted"}, NEW f \in Files, Handle(kind, f)
      PROVE  TypedIndex'
  <2>1. Reindex(f, disk[f]) \in Busy \/ disk[f] \notin Versions
    BY KnowledgeAssumption, BeginType DEF Reindex, Sources
  <2>2. Remove(f) \in Busy
    BY KnowledgeAssumption, BeginType DEF Remove, Sources
  <2>3. job' \in [Threads -> Job]
    <3>1. CASE kind = "deleted"
      BY <1>3, <1>8, <2>2, <3>1, ThreadsAre DEF Handle, OnDelete
    <3>2. CASE kind # "deleted" /\ disk[f] \in Versions
      BY <1>3, <1>8, <2>1, <3>2, ThreadsAre DEF Handle
    <3>3. CASE kind # "deleted" /\ disk[f] \notin Versions
      BY <1>1, <1>8, <3>3 DEF Handle, OthersTyped
    <3> QED BY <3>1, <3>2, <3>3
  <2>4. OthersTyped'
    BY <1>1, <1>8, <2>3 DEF Handle, OthersTyped, tableVars
  <2> QED BY <1>2, <1>8, <2>4, TypedPartsNext DEF Handle
<1>9. ASSUME NEW f \in Files, NEW c \in Versions \cup {Absent, Empty}, Edit(f, c)
      PROVE  TypedIndex'
  <2>1. OthersTyped'
    BY <1>1, <1>4, <1>9 DEF Edit, OthersTyped, tableVars
  <2> QED BY <1>2, <1>9, <2>1, TypedPartsNext DEF Edit
<1>10. ASSUME NEW v \in Versions, NEW n \in 0..NChunks, Pull(v, n)
       PROVE  TypedIndex'
  <2>1. Pulled(v, n) \in Busy
    BY BeginType DEF Pulled, Sources
  <2>2. job' \in [Threads -> Job]
    BY <1>3, <1>10, <2>1, ThreadsAre DEF Pull
  <2>3. OthersTyped'
    BY <1>1, <1>4, <1>10, <2>2 DEF Pull, OthersTyped, tableVars, fileVars
  <2> QED BY <1>2, <1>10, <2>3, TypedPartsNext DEF Pull
<1>11. ASSUME Crash
       PROVE  TypedIndex'
  <2>1. job' \in [Threads -> Job]
    BY <1>11, JobIsIdleOrBusy DEF Crash
  <2>2. OthersTyped'
    BY <1>1, <1>4, <1>11, <2>1 DEF Crash, OthersTyped, Present
  <2>3. TablesTyped'
    BY <1>1, <1>11 DEF Crash, TablesTyped
  <2> QED BY <2>2, <2>3, TypedPartsNext
<1>12. ASSUME UNCHANGED indexVars
       PROVE  TypedIndex'
  <2>1. OthersTyped'
    BY <1>1, <1>12 DEF indexVars, OthersTyped, tableVars, fileVars
  <2> QED BY <1>2, <1>12, <2>1, TypedPartsNext DEF indexVars
<1> QED BY <1>5, <1>6, <1>7, <1>8, <1>9, <1>10, <1>11, <1>12 DEF IndexNext, Advance, IndexTerminated

-----------------------------------------------------------------------------
(* No mixture.                                                             *)

OnSource(table, s) == {r \in table : r.chunk.source = s}

LEMMA HoldsAgree ==
  ASSUME NEW a, NEW b, NEW s, OnSource(a, s) = OnSource(b, s), NEW v, NEW n, Holds(a, s, v, n)
  PROVE  Holds(b, s, v, n)
<1>1. ASSUME NEW r
      PROVE  r \in a /\ r.chunk.source = s <=> r \in b /\ r.chunk.source = s
  BY DEF OnSource
<1>2. \A r \in b : r.chunk.source = s => r.chunk.version = v /\ r.chunk.pos \in 1..n
  BY <1>1 DEF Holds
<1>3. \A i \in 1..n : \E r \in b : r.chunk = [source |-> s, version |-> v, pos |-> i]
  <2> SUFFICES ASSUME NEW i \in 1..n
               PROVE  \E r \in b : r.chunk = [source |-> s, version |-> v, pos |-> i]
    OBVIOUS
  <2>1. PICK r \in a : r.chunk = [source |-> s, version |-> v, pos |-> i]
    BY DEF Holds
  <2>2. r.chunk.source = s
    BY <2>1
  <2> QED BY <1>1, <2>1, <2>2
<1> QED BY <1>2, <1>3 DEF Holds

LEMMA HoldsNone ==
  ASSUME NEW a, NEW s, NEW v, OnSource(a, s) = {}
  PROVE  Holds(a, s, v, 0)
BY DEF OnSource, Holds

LEMMA NoneHeld ==
  ASSUME NEW a, NEW s, NEW v, Holds(a, s, v, 0)
  PROVE  OnSource(a, s) = {}
BY DEF OnSource, Holds

\* Clearing a source leaves nothing of it and the others as they were.
LEMMA TidyRemove ==
  ASSUME NEW a, Tidy(a), NEW s
  PROVE  /\ Tidy(a \ OnSource(a, s))
         /\ OnSource(a \ OnSource(a, s), s) = {}
         /\ \A q : q # s => OnSource(a \ OnSource(a, s), q) = OnSource(a, q)
<1> DEFINE b == a \ OnSource(a, s)
<1>1. OnSource(b, s) = {} /\ b \subseteq a
  BY DEF OnSource
<1>2. ASSUME NEW q, q # s
      PROVE  OnSource(b, q) = OnSource(a, q)
  BY <1>2 DEF OnSource
<1>3. ASSUME NEW q \in Sources
      PROVE  \E v \in Versions, n \in 0..NChunks : Holds(b, q, v, n)
  <2>1. CASE q = s
    <3>1. PICK v \in Versions : TRUE
      BY KnowledgeAssumption
    <3>2. Holds(b, q, v, 0) /\ 0 \in 0..NChunks
      <4> HIDE DEF b
      <4> QED BY KnowledgeAssumption, <1>1, <2>1, HoldsNone
    <3> HIDE DEF b
    <3> QED BY <3>2
  <2>2. CASE q # s
    <3>1. PICK v \in Versions, n \in 0..NChunks : Holds(a, q, v, n)
      BY DEF Tidy
    <3>2. Holds(b, q, v, n)
      <4> HIDE DEF b
      <4> QED BY <1>2, <2>2, <3>1, HoldsAgree
    <3> HIDE DEF b
    <3> QED BY <3>2
  <2> QED BY <2>1, <2>2
<1>4. \A r, q \in b : r.chunk = q.chunk => r = q
  BY <1>1 DEF Tidy
<1> HIDE DEF b
<1>5. Tidy(b)
  BY <1>3, <1>4 DEF Tidy
<1> USE DEF b
<1> QED BY <1>1, <1>2, <1>5

\* The next chunk of a source extends its beginning.
LEMMA TidyAdd ==
  ASSUME NEW a \in SUBSET Row, Tidy(a), NEW r \in Row,
         NEW s \in Sources, NEW v \in Versions, NEW n \in 0..NChunks, n + 1 <= NChunks,
         Holds(a, s, v, n), r.chunk = [source |-> s, version |-> v, pos |-> n + 1]
  PROVE  /\ Tidy(a \cup {r})
         /\ Holds(a \cup {r}, s, v, n + 1)
         /\ \A q : q # s => OnSource(a \cup {r}, q) = OnSource(a, q)
<1> DEFINE b == a \cup {r}
<1>0. n \in Nat /\ n + 1 \in 0..NChunks
  OBVIOUS
<1>1. r.chunk.source = s /\ r.chunk.version = v /\ r.chunk.pos = n + 1
  OBVIOUS
<1>2. ASSUME NEW q, q # s
      PROVE  OnSource(b, q) = OnSource(a, q)
  BY <1>1, <1>2 DEF OnSource
<1>3. Holds(b, s, v, n + 1)
  <2>1. \A x \in b : x.chunk.source = s => x.chunk.version = v /\ x.chunk.pos \in 1..(n + 1)
    <3>1. \A x \in a : x.chunk.source = s => x.chunk.version = v /\ x.chunk.pos \in 1..n
      BY DEF Holds
    <3>2. n + 1 \in 1..(n + 1) /\ 1..n \subseteq 1..(n + 1)
      BY <1>0
    <3> QED BY <1>1, <3>1, <3>2
  <2>2. ASSUME NEW i \in 1..(n + 1)
        PROVE  \E x \in b : x.chunk = [source |-> s, version |-> v, pos |-> i]
    <3>1. CASE i \in 1..n
      BY <3>1 DEF Holds
    <3>2. CASE i = n + 1
      BY <3>2
    <3> QED BY <1>0, <3>1, <3>2
  <2> HIDE DEF b
  <2> QED BY <2>1, <2>2 DEF Holds
<1>4. ASSUME NEW q \in Sources
      PROVE  \E w \in Versions, m \in 0..NChunks : Holds(b, q, w, m)
  <2>1. CASE q = s
    <3> HIDE DEF b
    <3> QED BY <1>0, <1>3, <2>1
  <2>2. CASE q # s
    <3>1. PICK w \in Versions, m \in 0..NChunks : Holds(a, q, w, m)
      BY DEF Tidy
    <3>2. Holds(b, q, w, m)
      <4> HIDE DEF b
      <4> QED BY <1>2, <2>2, <3>1, HoldsAgree
    <3> HIDE DEF b
    <3> QED BY <3>2
  <2> QED BY <2>1, <2>2
<1>5. ASSUME NEW x \in a
      PROVE  x.chunk # r.chunk
  <2>1. SUFFICES ASSUME x.chunk = r.chunk
                 PROVE  FALSE
    OBVIOUS
  <2>2. x.chunk.source = s /\ x.chunk.pos = n + 1
    BY <1>1, <2>1
  <2>3. n + 1 \in 1..n
    BY <2>2 DEF Holds
  <2> QED BY <1>0, <2>3
<1>6. \A x, y \in b : x.chunk = y.chunk => x = y
  BY <1>5 DEF Tidy
<1> HIDE DEF b
<1>7. Tidy(b)
  BY <1>4, <1>6 DEF Tidy
<1> USE DEF b
<1> QED BY <1>2, <1>3, <1>7

LEMMA SourcesApart ==
  ASSUME NEW t \in Threads, NEW u \in Threads, t # u,
         NEW s \in SourcesOf(t)
  PROVE  s \notin SourcesOf(u)
BY KnowledgeAssumption DEF SourcesOf, Threads

\* A thread is where it was when its job and the rows of its source are.
LEMMA StillAtStep ==
  ASSUME NEW u \in Threads, AtStep(u), job'[u] = job[u],
         OnSource(rows', job[u].source) = OnSource(rows, job[u].source)
  PROVE  AtStep(u)'
<1> DEFINE j == job[u]
<1>1. Holds(rows, j.source, j.version, j.next - 1) => Holds(rows', j.source, j.version, j.next - 1)
  BY HoldsAgree
<1> QED BY <1>1 DEF AtStep

\* A new job starts with clearing.
LEMMA BeginsAtStep ==
  ASSUME NEW t \in Threads, NEW s \in SourcesOf(t), NEW v \in Versions \cup {Absent}, NEW n,
         v = Absent => n = 0, t = "loop" /\ v \in Versions => n = NChunks,
         job'[t] = Begin(s, v, n)
  PROVE  AtStep(t)'
BY DEF Begin, AtStep, Clearing, Inserting

\* What a statement of t does to its job and to the rows of its source.
Advances(t, j, k) ==
  \/ /\ j.step = "clearTexts"
     /\ k = [j EXCEPT !.step = "clearRows"] /\ rows' = rows /\ saved' = saved
  \/ /\ j.step = "clearRows"
     /\ k = [j EXCEPT !.step = "clearCommit"]
     /\ rows' = rows \ OnSource(rows, j.source) /\ saved' = saved
  \/ /\ j.step = "clearCommit"
     /\ IF HasMore(j) THEN k = [j EXCEPT !.step = "insertText"] ELSE k = Idle
     /\ rows' = rows /\ saved'.rows = rows
  \/ /\ j.step = "insertText"
     /\ k = [j EXCEPT !.step = "insertRow"] /\ rows' = rows /\ saved' = saved
  \/ /\ j.step = "insertRow"
     /\ \E to \in {"insertText", "commit"} :
          /\ to = "insertText" <=> j.next + 1 <= j.upto
          /\ k = [j EXCEPT !.step = to, !.next = j.next + 1]
     /\ rows' = rows \cup {[chunk |-> ChunkAt(j), text |-> last]} /\ saved' = saved
  \/ /\ j.step = "commit"
     /\ k = Idle /\ rows' = rows /\ saved'.rows = rows

LEMMA StatementAdvances ==
  ASSUME TypedIndex, NEW t \in Threads, Statement(t)
  PROVE  /\ job[t].step \in Clearing \cup Inserting
         /\ job[t] \in Busy
         /\ Gives(t, job'[t])
         /\ Advances(t, job[t], job'[t])
<1>1. job[t].step \in Clearing \cup Inserting
  BY DEF Statement, ClearTexts, ClearRows, ClearCommit, InsertText, InsertRow, InsertCommit, Step, Clearing, Inserting
<1>2. ASSUME NEW k, GoTo(t, k)
      PROVE  job'[t] = k /\ Gives(t, k)
  BY <1>2, Given DEF GoTo, Gives
<1>3. job[t] \in Busy
  <2>1. job[t] \in {Idle} \cup Busy
    BY JobIsIdleOrBusy DEF TypedIndex, IndexTypeOK
  <2>2. Idle.step = "idle" /\ "idle" \notin Clearing \cup Inserting
    BY DEF Idle, Clearing, Inserting
  <2> QED BY <1>1, <2>1, <2>2
<1>4. CASE ClearTexts(t)
  BY <1>1, <1>2, <1>3, <1>4 DEF ClearTexts, Step, Advances
<1>5. CASE ClearRows(t)
  BY <1>1, <1>2, <1>3, <1>5 DEF ClearRows, Step, Advances, RowsOf, OnSource
<1>6. CASE ClearCommit(t)
  <2>1. saved'.rows = rows
    BY <1>6 DEF ClearCommit, Commit
  <2> QED BY <1>1, <1>2, <1>3, <1>6, <2>1 DEF ClearCommit, Advances
<1>7. CASE InsertText(t)
  BY <1>1, <1>2, <1>3, <1>7 DEF InsertText, Step, Advances
<1>8. CASE InsertRow(t)
  <2> DEFINE more == [job[t] EXCEPT !.next = @ + 1]
             to == IF HasMore(more) THEN "insertText" ELSE "commit"
  <2>1. job'[t] = [more EXCEPT !.step = to] /\ Gives(t, job'[t])
    BY <1>2, <1>8 DEF InsertRow
  <2>2. more.next = job[t].next + 1 /\ more.upto = job[t].upto
    BY <1>3 DEF Busy
  <2>3. to = "insertText" <=> job[t].next + 1 <= job[t].upto
    BY <2>2 DEF HasMore
  <2>4. job'[t] = [job[t] EXCEPT !.step = to, !.next = job[t].next + 1]
    BY <1>3, <2>1 DEF Busy
  <2>5. to \in {"insertText", "commit"}
    OBVIOUS
  <2> HIDE DEF to
  <2> QED BY <1>1, <1>3, <1>8, <2>1, <2>3, <2>4, <2>5 DEF InsertRow, Advances
<1>9. CASE InsertCommit(t)
  <2>1. saved'.rows = rows
    BY <1>9 DEF InsertCommit, Commit
  <2> QED BY <1>1, <1>2, <1>3, <1>9, <2>1 DEF InsertCommit, Advances
<1> QED BY <1>4, <1>5, <1>6, <1>7, <1>8, <1>9 DEF Statement

LEMMA StatementTidy ==
  ASSUME TypedIndex, TidyInv, NEW t \in Threads, Statement(t)
  PROVE  /\ TidyInv'
         /\ \A q : q # job[t].source => OnSource(rows', q) = OnSource(rows, q)
<1> DEFINE j == job[t]
           k == job'[t]
<1>1. j \in Busy /\ Gives(t, k) /\ Advances(t, j, k) /\ AtStep(t) /\ j # Idle
  BY StatementAdvances, JobIsIdleOrBusy DEF TidyInv, Working
<1>2. /\ j.source \in SourcesOf(t) /\ j.source \in Sources
      /\ j.upto \in 0..NChunks /\ j.next \in 1..(NChunks + 1)
  BY <1>1 DEF AtStep, Busy
<1>3. NChunks \in Nat /\ j.upto \in Int /\ j.next \in Int
  BY KnowledgeAssumption, <1>2
<1>4. Tidy(rows) /\ Tidy(saved.rows) /\ rows \in SUBSET Row /\ last \in Nat
  BY DEF TidyInv, TypedIndex, IndexTypeOK
<1>5. /\ Tidy(rows') /\ Tidy(saved'.rows)
      /\ k # Idle => AtStep(t)'
      /\ \A q : q # j.source => OnSource(rows', q) = OnSource(rows, q)
  <2>1. CASE j.step = "clearTexts"
    <3>1. rows' = rows /\ saved' = saved /\ k = [j EXCEPT !.step = "clearRows"]
      BY <1>1, <2>1 DEF Advances
    <3>2. AtStep(t)'
      BY <1>1, <2>1, <3>1 DEF AtStep, Busy, Clearing, Inserting
    <3> QED BY <1>4, <3>1, <3>2
  <2>2. CASE j.step = "clearRows"
    <3>1. /\ rows' = rows \ OnSource(rows, j.source) /\ saved' = saved
          /\ k = [j EXCEPT !.step = "clearCommit"]
      BY <1>1, <2>2 DEF Advances
    <3>2. /\ Tidy(rows') /\ OnSource(rows', j.source) = {}
          /\ \A q : q # j.source => OnSource(rows', q) = OnSource(rows, q)
      <4> DEFINE b == rows \ OnSource(rows, j.source)
      <4>1. /\ Tidy(b) /\ OnSource(b, j.source) = {}
            /\ \A q : q # j.source => OnSource(b, q) = OnSource(rows, q)
        BY <1>4, TidyRemove
      <4> HIDE DEF b
      <4>2. rows' = b
        BY <3>1 DEF b
      <4> QED BY <4>1, <4>2
    <3>3. Holds(rows', j.source, j.version, 0)
      BY <3>2, HoldsNone
    <3>4. AtStep(t)'
      BY <1>1, <2>2, <3>1, <3>3 DEF AtStep, Busy, Clearing, Inserting
    <3> QED BY <1>4, <3>1, <3>2, <3>4
  <2>3. CASE j.step = "clearCommit"
    <3>1. /\ rows' = rows /\ saved'.rows = rows
          /\ IF HasMore(j) THEN k = [j EXCEPT !.step = "insertText"] ELSE k = Idle
      BY <1>1, <2>3 DEF Advances
    <3>2. ASSUME HasMore(j)
          PROVE  AtStep(t)'
      <4>1. k = [j EXCEPT !.step = "insertText"] /\ j.next = 1 /\ j.next <= j.upto
        BY <1>1, <2>3, <3>1, <3>2 DEF AtStep, Clearing, HasMore
      <4>2. j.version \in Versions
        BY <1>1, <4>1 DEF AtStep
      <4> QED BY <1>1, <2>3, <3>1, <4>1, <4>2 DEF AtStep, Busy, Clearing, Inserting
    <3> QED BY <1>4, <3>1, <3>2
  <2>4. CASE j.step = "insertText"
    <3>1. rows' = rows /\ saved' = saved /\ k = [j EXCEPT !.step = "insertRow"]
      BY <1>1, <2>4 DEF Advances
    <3>2. AtStep(t)'
      BY <1>1, <2>4, <3>1 DEF AtStep, Busy, Clearing, Inserting
    <3> QED BY <1>4, <3>1, <3>2
  <2>5. CASE j.step = "insertRow"
    <3> DEFINE r == [chunk |-> ChunkAt(j), text |-> last]
    <3>1. rows' = rows \cup {r} /\ saved' = saved
      BY <1>1, <2>5 DEF Advances
    <3>2. PICK to \in {"insertText", "commit"} :
             /\ to = "insertText" <=> j.next + 1 <= j.upto
             /\ k = [j EXCEPT !.step = to, !.next = j.next + 1]
      BY <1>1, <2>5 DEF Advances
    <3>3. /\ j.next <= j.upto /\ j.version \in Versions
          /\ Holds(rows, j.source, j.version, j.next - 1)
      BY <1>1, <2>5 DEF AtStep, Inserting
    <3>4. r \in Row
      BY <1>1, <1>4, <3>3, ChunkAtType DEF Row
    <3>5. j.next - 1 \in 0..NChunks /\ (j.next - 1) + 1 = j.next /\ j.next <= NChunks
      BY <1>2, <1>3, <3>3
    <3>6. r.chunk = [source |-> j.source, version |-> j.version, pos |-> (j.next - 1) + 1]
      BY <3>5 DEF ChunkAt
    <3>7. /\ Tidy(rows') /\ Holds(rows', j.source, j.version, j.next)
          /\ \A q : q # j.source => OnSource(rows', q) = OnSource(rows, q)
      <4> DEFINE n == j.next - 1
      <4>1. n + 1 = j.next /\ n \in 0..NChunks /\ n + 1 <= NChunks
        BY <3>5
      <4>2. Holds(rows, j.source, j.version, n) /\ r.chunk = [source |-> j.source, version |-> j.version, pos |-> n + 1]
        BY <3>3, <3>6
      <4> HIDE DEF r, n
      <4>3. /\ Tidy(rows \cup {r}) /\ Holds(rows \cup {r}, j.source, j.version, n + 1)
            /\ \A q : q # j.source => OnSource(rows \cup {r}, q) = OnSource(rows, q)
        BY <1>2, <1>4, <3>3, <3>4, <4>1, <4>2, TidyAdd
      <4> QED BY <3>1, <4>1, <4>3
    <3>8. AtStep(t)'
      <4>1. /\ k.source = j.source /\ k.version = j.version /\ k.upto = j.upto
            /\ k.step = to /\ k.next = j.next + 1
        BY <1>1, <3>2 DEF Busy
      <4>2. to = "insertText" => k.next <= k.upto
        BY <3>2, <4>1
      <4>3. to = "commit" => k.next = k.upto + 1
        <5>1. to = "commit" => ~(j.next + 1 <= j.upto)
          BY <3>2
        <5> QED BY <1>3, <3>3, <4>1, <5>1
      <4>4. k.next - 1 = j.next
        BY <1>3, <4>1
      <4>5. Holds(rows', k.source, k.version, k.next - 1)
        BY <3>7, <4>1, <4>4
      <4>6. k.step \notin Clearing /\ k.step # "insertRow"
        BY <4>1 DEF Clearing
      <4>7. t = "loop" /\ k.version \in Versions => k.upto = NChunks
        BY <1>1, <4>1 DEF AtStep
      <4> QED BY <1>2, <3>3, <4>1, <4>2, <4>3, <4>5, <4>6, <4>7 DEF AtStep
    <3> QED BY <1>4, <3>1, <3>7, <3>8
  <2>6. CASE j.step = "commit"
    <3>1. k = Idle /\ rows' = rows /\ saved'.rows = rows
      BY <1>1, <2>6 DEF Advances
    <3> QED BY <1>4, <3>1
  <2> QED BY <1>1, <2>1, <2>2, <2>3, <2>4, <2>5, <2>6 DEF Advances
<1>6. ASSUME NEW u \in Threads, job'[u] # Idle
      PROVE  AtStep(u)'
  <2>1. CASE u = t
    BY <1>5, <1>6, <2>1
  <2>2. CASE u # t
    <3>1. job'[u] = job[u]
      BY <1>1, <2>2 DEF Gives
    <3>2. AtStep(u)
      BY <1>6, <3>1 DEF TidyInv, Working
    <3>3. job[u].source # j.source
      BY <1>2, <2>2, <3>2, SourcesApart DEF AtStep
    <3> QED BY <1>5, <3>1, <3>2, <3>3, StillAtStep
  <2> QED BY <2>1, <2>2
<1> QED BY <1>5, <1>6 DEF TidyInv, Working

BeginsJob(t) ==
  \E s \in SourcesOf(t), v \in Versions \cup {Absent}, n \in 0..NChunks :
    /\ v = Absent => n = 0
    /\ t = "loop" /\ v \in Versions => n = NChunks
    /\ job'[t] = Begin(s, v, n)

\* A step that is no statement: jobs begin, or the gateway restarts.
Starts ==
  /\ UNCHANGED <<rows, texts, last, saved, overlapped>>
  /\ \A t \in Threads : job'[t] = job[t] \/ (job[t] = Idle /\ BeginsJob(t))

Restarts ==
  /\ rows' = saved.rows /\ texts' = saved.texts /\ saved' = saved /\ overlapped' = overlapped
  /\ \A t \in Threads : job'[t] = Idle

LEMMA OtherSteps ==
  ASSUME TypedIndex, [IndexNext]_indexVars, ~Statement("loop"), ~Statement("worker")
  PROVE  Starts \/ Restarts
<1>1. ASSUME NEW t \in Threads, NEW j, job' = [job EXCEPT ![t] = j]
      PROVE  job'[t] = j /\ \A u \in Threads \ {t} : job'[u] = job[u]
  BY <1>1, Given DEF Gives
<1>2. "loop" \in Threads /\ "worker" \in Threads
  BY ThreadsAre
<1>3. /\ SourcesOf("loop") = Files /\ SourcesOf("worker") = {Export}
      /\ NChunks \in 0..NChunks /\ 0 \in 0..NChunks
  BY KnowledgeAssumption DEF SourcesOf
<1>4. ASSUME NEW f \in Files, NEW v \in Versions,
             job["loop"] = Idle, job' = [job EXCEPT !["loop"] = Reindex(f, v)]
      PROVE  \A t \in Threads : job'[t] = job[t] \/ (job[t] = Idle /\ BeginsJob(t))
  <2>1. job'["loop"] = Begin(f, v, NChunks) /\ v # Absent
    BY KnowledgeAssumption, <1>1, <1>2, <1>4 DEF Reindex
  <2>2. BeginsJob("loop")
    BY <1>3, <2>1 DEF BeginsJob
  <2> QED BY <1>1, <1>2, <1>4, <2>2
<1>5. ASSUME NEW f \in Files, Scan(f)
      PROVE  Starts
  <2>1. CASE disk[f] \in Versions
    BY <1>4, <1>5, <2>1 DEF Scan, Starts, tableVars
  <2>2. CASE disk[f] \notin Versions
    BY <1>5, <2>2 DEF Scan, Starts, tableVars
  <2> QED BY <2>1, <2>2
<1>6. ASSUME ScanEnds \/ Watch \/ NextBatch \/ UNCHANGED indexVars
      PROVE  Starts
  BY <1>6 DEF ScanEnds, Watch, NextBatch, indexVars, Starts, tableVars
<1>7. ASSUME NEW kind \in {"changed", "deleted"}, NEW f \in Files, Handle(kind, f)
      PROVE  Starts
  <2>1. CASE kind = "deleted"
    <3>1. job["loop"] = Idle /\ job' = [job EXCEPT !["loop"] = Begin(f, Absent, 0)]
      BY <1>7, <2>1 DEF Handle, OnDelete, Remove
    <3>2. job'["loop"] = Begin(f, Absent, 0)
      BY <1>1, <1>2, <3>1
    <3>3. BeginsJob("loop")
      BY KnowledgeAssumption, <1>3, <3>2 DEF BeginsJob
    <3>4. \A t \in Threads : job'[t] = job[t] \/ (job[t] = Idle /\ BeginsJob(t))
      BY <1>1, <1>2, <3>1, <3>3
    <3> QED BY <1>7, <3>4 DEF Handle, Starts, tableVars
  <2>2. CASE kind # "deleted" /\ disk[f] \in Versions
    <3>1. job["loop"] = Idle /\ job' = [job EXCEPT !["loop"] = Reindex(f, disk[f])]
      BY <1>7, <2>2 DEF Handle
    <3> QED BY <1>4, <1>7, <2>2, <3>1 DEF Handle, Starts, tableVars
  <2>3. CASE kind # "deleted" /\ disk[f] \notin Versions
    BY <1>7, <2>3 DEF Handle, Starts, tableVars
  <2> QED BY <2>1, <2>2, <2>3
<1>8. ASSUME NEW f \in Files, NEW c \in Versions \cup {Absent, Empty}, Edit(f, c)
      PROVE  Starts
  BY <1>8 DEF Edit, Starts, tableVars
<1>9. ASSUME NEW v \in Versions, NEW n \in 0..NChunks, Pull(v, n)
      PROVE  Starts
  <2>1. job["worker"] = Idle /\ job' = [job EXCEPT !["worker"] = Begin(Export, v, n)]
    BY <1>9 DEF Pull, Pulled
  <2>2. job'["worker"] = Begin(Export, v, n) /\ v # Absent
    BY KnowledgeAssumption, <1>1, <1>2, <2>1
  <2>3. BeginsJob("worker")
    BY <1>3, <2>2 DEF BeginsJob
  <2>4. \A t \in Threads : job'[t] = job[t] \/ (job[t] = Idle /\ BeginsJob(t))
    BY <1>1, <1>2, <2>1, <2>3
  <2> QED BY <1>9, <2>4 DEF Pull, Starts, tableVars
<1>10. ASSUME Crash
       PROVE  Restarts
  BY <1>10 DEF Crash, Restarts
<1> QED BY <1>5, <1>6, <1>7, <1>8, <1>9, <1>10 DEF IndexNext, Advance, IndexTerminated

LEMMA OtherStepsTidy ==
  ASSUME TypedIndex, TidyInv, Starts \/ Restarts
  PROVE  TidyInv'
<1>1. CASE Starts
  <2>1. rows' = rows /\ saved' = saved
    BY <1>1 DEF Starts
  <2>2. ASSUME NEW t \in Threads, job'[t] # Idle
        PROVE  AtStep(t)'
    <3>1. CASE job'[t] = job[t]
      BY <2>1, <2>2, <3>1, StillAtStep DEF TidyInv, Working
    <3>2. CASE BeginsJob(t)
      <4>1. PICK s \in SourcesOf(t), v \in Versions \cup {Absent}, n \in 0..NChunks :
              /\ v = Absent => n = 0
              /\ t = "loop" /\ v \in Versions => n = NChunks
              /\ job'[t] = Begin(s, v, n)
        BY <3>2 DEF BeginsJob
      <4> QED BY <4>1, BeginsAtStep
    <3> QED BY <1>1, <3>1, <3>2 DEF Starts
  <2> QED BY <2>1, <2>2 DEF TidyInv, Working
<1>2. CASE Restarts
  BY <1>2 DEF Restarts, TidyInv, Working
<1> QED BY <1>1, <1>2

LEMMA TidyKept ==
  ASSUME TypedIndex, TidyInv, [IndexNext]_indexVars
  PROVE  (TypedIndex /\ TidyInv)'
<1>1. CASE Statement("loop") \/ Statement("worker")
  BY <1>1, ThreadsAre, StatementTyped, StatementTidy DEF TidyInv
<1>2. CASE ~Statement("loop") /\ ~Statement("worker")
  BY <1>2, OtherSteps, OtherStepsTyped, OtherStepsTidy
<1> QED BY <1>1, <1>2

LEMMA InitTidy ==
  ASSUME IndexInit
  PROVE  TypedIndex /\ TidyInv
<1>1. Tidy({})
  <2>1. PICK v \in Versions : TRUE
    BY KnowledgeAssumption
  <2>2. \A s \in Sources : Holds({}, s, v, 0)
    BY DEF Holds
  <2>3. 0 \in 0..NChunks
    BY KnowledgeAssumption
  <2> QED BY <2>2, <2>3 DEF Tidy
<1>2. rows = {} /\ saved.rows = {} /\ \A t \in Threads : job[t] = Idle
  BY DEF IndexInit
<1> QED BY <1>1, <1>2, IndexInitTyped DEF TidyInv, Working

LEMMA TidyAlways == IndexSpec => [](TypedIndex /\ TidyInv)
<1>1. IndexInit => TypedIndex /\ TidyInv
  BY InitTidy
<1>2. (TypedIndex /\ TidyInv) /\ [IndexNext]_indexVars => (TypedIndex /\ TidyInv)'
  BY TidyKept
<1> QED BY <1>1, <1>2, PTL DEF IndexSpec

\* The tables of the index, the jobs and the changes are what they should be
\* after any number of edits, pulls and restarts.
THEOREM IndexTyped == IndexSpec => []IndexTypeOK
<1>1. TypedIndex => IndexTypeOK
  BY DEF TypedIndex
<1> QED BY <1>1, TidyAlways, PTL

\* The chunks of a source are those the table holds.
LEMMA HeldChunks ==
  ASSUME NEW table, table \in SUBSET Row, NEW s, NEW v, NEW n, Holds(table, s, v, n)
  PROVE  {r.chunk : r \in OnSource(table, s)} = {[source |-> s, version |-> v, pos |-> i] : i \in 1..n}
<1>1. ASSUME NEW r \in OnSource(table, s)
      PROVE  r.chunk = [source |-> s, version |-> v, pos |-> r.chunk.pos] /\ r.chunk.pos \in 1..n
  BY DEF Holds, OnSource, Row, Chunk
<1>2. ASSUME NEW i \in 1..n
      PROVE  \E r \in OnSource(table, s) : r.chunk = [source |-> s, version |-> v, pos |-> i]
  <2>1. PICK r \in table : r.chunk = [source |-> s, version |-> v, pos |-> i]
    BY DEF Holds
  <2>2. r.chunk.source = s
    BY <2>1
  <2> QED BY <2>1, <2>2 DEF OnSource
<1> DEFINE A == {r.chunk : r \in OnSource(table, s)}
           B == {[source |-> s, version |-> v, pos |-> i] : i \in 1..n}
<1>3. ASSUME NEW x \in A
      PROVE  x \in B
  BY <1>1
<1>4. ASSUME NEW x \in B
      PROVE  x \in A
  <2>1. PICK i \in 1..n : x = [source |-> s, version |-> v, pos |-> i]
    OBVIOUS
  <2>2. PICK r \in OnSource(table, s) : r.chunk = x
    BY <1>2, <2>1
  <2> QED BY <2>2
<1> HIDE DEF A, B
<1>5. A = B
  BY <1>3, <1>4
<1> QED BY <1>5 DEF A, B

\* The index and what a restart finds of it have a beginning of one version of
\* each source, whatever the loop and the worker interleave.
THEOREM NoMixtures == IndexSpec => []NoMixture
<1>1. ASSUME TypedIndex, TidyInv
      PROVE  NoMixture
  <2> SUFFICES ASSUME NEW table \in {rows, saved.rows}, NEW s \in Sources
               PROVE  FirstChunks(table, s)
    BY DEF NoMixture
  <2>1. Tidy(table) /\ table \in SUBSET Row
    BY <1>1 DEF TidyInv, TypedIndex
  <2>2. PICK v \in Versions, n \in 0..NChunks : Holds(table, s, v, n)
    BY <2>1 DEF Tidy
  <2>3. {r.chunk : r \in OnSource(table, s)} = {[source |-> s, version |-> v, pos |-> i] : i \in 1..n}
    BY <2>1, <2>2, HeldChunks
  <2> QED BY <2>3 DEF FirstChunks, OnSource
<1>2. TypedIndex /\ TidyInv => NoMixture
  BY <1>1
<1> QED BY <1>2, TidyAlways, PTL

-----------------------------------------------------------------------------
(* Freshness.                                                              *)

LEMMA UpToDateKept ==
  ASSUME NEW f, UpToDate(f), disk'[f] = disk[f], OnSource(rows', f) = OnSource(rows, f),
         ~(job["loop"] # Idle /\ job["loop"].source = f) => ~(job["loop"] # Idle /\ job["loop"].source = f)',
         job["loop"] # Idle /\ job["loop"].source = f => job'["loop"] = job["loop"]
  PROVE  UpToDate(f)'
<1>1. CASE job["loop"] # Idle /\ job["loop"].source = f
  BY <1>1 DEF UpToDate
<1>2. CASE ~(job["loop"] # Idle /\ job["loop"].source = f)
  <2>1. disk[f] \in Versions => Holds(rows', f, disk[f], NChunks)
    BY <1>2, HoldsAgree DEF UpToDate
  <2>2. disk[f] = Absent => RowsOf(f)' = {}
    BY <1>2 DEF UpToDate, RowsOf, OnSource
  <2> QED BY <1>2, <2>1, <2>2 DEF UpToDate
<1> QED BY <1>1, <1>2

LEMMA FollowsKept ==
  ASSUME NEW f, Follows(f), UNCHANGED <<disk, pending, batch, toScan>>,
         UpToDate(f) => UpToDate(f)'
  PROVE  Follows(f)'
BY DEF Follows, EventFor, EventsOf

\* A statement of the job of a file leaves its rows on their way.
LEMMA StatementUpToDate ==
  ASSUME TypedIndex, TidyInv, NEW t \in Threads, Statement(t),
         NEW f \in Files, UpToDate(f), disk' = disk
  PROVE  UpToDate(f)'
<1> DEFINE j == job[t]
           k == job'[t]
<1>1. j \in Busy /\ Gives(t, k) /\ Advances(t, j, k) /\ AtStep(t) /\ j # Idle
  BY StatementAdvances, JobIsIdleOrBusy DEF TidyInv, Working
<1>2. \A q : q # j.source => OnSource(rows', q) = OnSource(rows, q)
  BY StatementTidy
<1>3. CASE t # "loop"
  <2>1. j.source = Export /\ f # Export
    BY KnowledgeAssumption, <1>1, <1>3 DEF AtStep, SourcesOf
  <2>2. job'["loop"] = job["loop"]
    BY <1>1, <1>3, ThreadsAre DEF Gives
  <2> QED BY <1>2, <2>1, <2>2, UpToDateKept
<1>4. k = Idle \/ (k.source = j.source /\ k.version = j.version)
  BY <1>1 DEF Advances, Busy
<1>5. CASE t = "loop" /\ f # j.source
  <2>1. OnSource(rows', f) = OnSource(rows, f)
    BY <1>2, <1>5
  <2> QED BY <1>4, <1>5, <2>1, UpToDateKept
<1>6. CASE t = "loop" /\ f = j.source /\ k # Idle
  BY <1>1, <1>4, <1>6 DEF UpToDate
<1>7. CASE t = "loop" /\ f = j.source /\ k = Idle
  <2>1. (j.step = "clearCommit" /\ ~HasMore(j)) \/ j.step = "commit"
    <3>1. Idle.step = "idle"
      BY DEF Idle
    <3>2. j.step = "clearTexts" => k.step = "clearRows"
      BY <1>1 DEF Advances, Busy
    <3>3. j.step = "clearRows" => k.step = "clearCommit"
      BY <1>1 DEF Advances, Busy
    <3>4. j.step = "clearCommit" /\ HasMore(j) => k.step = "insertText"
      BY <1>1 DEF Advances, Busy
    <3>5. j.step = "insertText" => k.step = "insertRow"
      BY <1>1 DEF Advances, Busy
    <3>6. j.step = "insertRow" => k.step \in {"insertText", "commit"}
      BY <1>1 DEF Advances, Busy
    <3> QED BY <1>1, <1>7, <3>1, <3>2, <3>3, <3>4, <3>5, <3>6 DEF Advances
  <2>2. rows' = rows
    BY <1>1, <2>1 DEF Advances
  <2>3. disk[f] # Empty => j.version = disk[f]
    BY <1>1, <1>7 DEF UpToDate
  <2>4. j.next \in Int /\ j.upto \in Nat /\ NChunks \in Nat \ {0}
    BY KnowledgeAssumption, <1>1 DEF Busy
  <2>5. Holds(rows, f, j.version, j.next - 1)
    BY <1>1, <1>7, <2>1 DEF AtStep, Inserting
  <2>6. CASE j.step = "clearCommit" /\ ~HasMore(j)
    <3>1. j.next = 1 /\ j.upto = 0
      BY <1>1, <2>4, <2>6 DEF AtStep, Clearing, HasMore
    <3>2. j.version = Absent
      BY <1>1, <1>7, <2>4, <3>1 DEF AtStep
    <3>3. RowsOf(f) = {}
      BY <2>5, <3>1, NoneHeld DEF RowsOf, OnSource
    <3> QED BY KnowledgeAssumption, <1>7, <2>2, <2>3, <3>2, <3>3 DEF UpToDate, RowsOf
  <2>7. CASE j.step = "commit"
    <3>1. j.version \in Versions /\ j.upto = NChunks /\ j.next = j.upto + 1
      BY <1>1, <1>7, <2>7 DEF AtStep, Inserting
    <3>2. j.next - 1 = NChunks
      BY <2>4, <3>1
    <3> QED BY KnowledgeAssumption, <1>7, <2>2, <2>3, <2>5, <3>1, <3>2 DEF UpToDate
  <2> QED BY <2>1, <2>6, <2>7
<1> QED BY <1>3, <1>5, <1>6, <1>7

LEMMA InitFresh ==
  ASSUME IndexInit
  PROVE  FreshInv
<1>1. rows = {} /\ batch = {} /\ pending = {} /\ lagging = {} /\ phase = "scanning" /\ toScan = Present(disk)
  BY DEF IndexInit
<1>2. job["loop"] = Idle
  BY ThreadsAre DEF IndexInit
<1>3. ASSUME NEW f \in Files
      PROVE  Follows(f)
  <2>1. disk[f] \in Versions \cup {Absent}
    BY DEF IndexInit
  <2>2. f \in toScan <=> disk[f] # Absent
    BY <1>1 DEF Present
  <2>3. RowsOf(f) = {}
    BY <1>1 DEF RowsOf
  <2>4. f \notin toScan => UpToDate(f)
    BY KnowledgeAssumption, <1>2, <2>2, <2>3 DEF UpToDate
  <2> QED BY <1>1, <2>2, <2>4 DEF Follows, EventsOf
<1> QED BY <1>1, <1>3 DEF FreshInv

\* A file that changes is scanned later, or the watcher is told.
LEMMA EditFresh ==
  ASSUME TypedIndex, FreshInv,
         NEW f \in Files, NEW c \in Versions \cup {Absent, Empty}, Edit(f, c)
  PROVE  FreshInv'
<1> DEFINE told == IF c = Absent THEN <<"deleted", f>> ELSE <<"changed", f>>
<1>1. disk \in [Files -> Versions \cup {Absent, Empty}]
  BY DEF TypedIndex, IndexTypeOK
<1>2. disk'[f] = c /\ \A g \in Files : g # f => disk'[g] = disk[g]
  BY <1>1 DEF Edit
<1>3. /\ pending' = IF phase = "watching" THEN pending \cup {told} ELSE pending
      /\ lagging \subseteq lagging'
      /\ Unseen(f, c) => f \in lagging'
      /\ {<<"deleted", f>>, <<"changed", f>>} \subseteq pending' => f \in lagging'
      /\ UNCHANGED <<phase, toScan, batch, job, rows>>
  BY DEF Edit, tableVars
<1>4. told[2] = f /\ told = EventFor(f)'
  BY <1>2 DEF EventFor
<1>5. ASSUME NEW g \in Files, g # f, Follows(g)
      PROVE  Follows(g)'
  <2>1. EventsOf(g, pending)' = EventsOf(g, pending) /\ EventsOf(g, batch)' = EventsOf(g, batch)
    BY <1>3, <1>4, <1>5 DEF EventsOf
  <2>2. EventsOf(g, batch \cup pending)' = EventsOf(g, batch \cup pending)
    BY <1>3, <1>4, <1>5 DEF EventsOf
  <2>3. EventFor(g)' = EventFor(g)
    BY <1>2, <1>5 DEF EventFor
  <2>4. UpToDate(g)' <=> UpToDate(g)
    BY <1>2, <1>3, <1>5 DEF UpToDate, RowsOf
  <2> QED BY <1>2, <1>3, <1>5, <2>1, <2>2, <2>3, <2>4 DEF Follows
<1>6. ASSUME f \notin lagging'
      PROVE  Follows(f)'
  <2>1. Follows(f)
    BY <1>3, <1>6 DEF FreshInv
  <2>2. CASE phase # "watching"
    <3>1. f \in toScan' /\ c # Absent
      BY <1>3, <1>6, <2>2 DEF Unseen
    <3>2. batch' = {} /\ pending' = {}
      BY <1>3, <2>2 DEF FreshInv
    <3> QED BY <1>2, <3>1, <3>2 DEF Follows, EventsOf
  <2>3. CASE phase = "watching"
    <3>1. told \in pending' /\ pending' = pending \cup {told}
      BY <1>3, <2>3
    <3>2. f \notin toScan'
      BY <1>3, <2>3 DEF FreshInv
    <3>3. \A e \in pending : e \in {"changed", "deleted"} \X Files
      BY DEF TypedIndex, IndexTypeOK
    <3>4. ASSUME NEW e \in pending', e[2] = f
          PROVE  e = told
      <4>1. e = <<"deleted", f>> \/ e = <<"changed", f>>
        BY <1>4, <3>1, <3>3, <3>4
      <4> QED BY <1>3, <1>6, <3>1, <3>4, <4>1
    <3>5. EventsOf(f, pending') \subseteq {told} /\ told \in EventsOf(f, pending')
      BY <1>4, <3>1, <3>4 DEF EventsOf
    <3>6. told \in EventsOf(f, batch' \cup pending')
      BY <1>4, <3>1 DEF EventsOf
    <3> HIDE DEF told
    <3> QED BY <1>4, <3>2, <3>5, <3>6 DEF Follows
  <2> QED BY <2>2, <2>3
<1>7. phase' # "watching" => batch' = {} /\ pending' = {}
  BY <1>3 DEF FreshInv
<1>8. phase' # "scanning" => toScan' = {}
  BY <1>3 DEF FreshInv
<1> HIDE DEF told
<1> QED BY <1>3, <1>5, <1>6, <1>7, <1>8 DEF FreshInv

\* What is read is what the rows become.
LEMMA ScanFresh ==
  ASSUME TypedIndex, FreshInv, NEW f \in Files, Scan(f)
  PROVE  FreshInv'
<1>1. /\ phase = "scanning" /\ job["loop"] = Idle /\ f \in toScan /\ toScan' = toScan \ {f}
      /\ batch = {} /\ pending = {}
      /\ UNCHANGED <<disk, phase, batch, pending, rows>>
  BY DEF Scan, FreshInv, tableVars
<1>2. disk[f] \in Versions \cup {Absent, Empty}
  BY DEF TypedIndex, IndexTypeOK
<1>3. CASE disk[f] \in Versions
  <2>1. job' = [job EXCEPT !["loop"] = Reindex(f, disk[f])] /\ lagging' = lagging \ {f}
    BY <1>3 DEF Scan
  <2>2. job'["loop"] = Begin(f, disk[f], NChunks)
    BY <2>1, Given, ThreadsAre DEF Gives, Reindex
  <2>3. job'["loop"].source = f /\ job'["loop"].version = disk[f] /\ job'["loop"] # Idle
    <3>1. job'["loop"].step # Idle.step
      BY <2>2 DEF Begin, Idle
    <3> QED BY <2>2, <3>1 DEF Begin
  <2>4. Follows(f)'
    <3>1. UpToDate(f)'
      BY <1>1, <2>3 DEF UpToDate
    <3> QED BY <1>1, <3>1 DEF Follows, EventsOf
  <2>5. ASSUME NEW g \in Files, g # f, Follows(g)
        PROVE  Follows(g)'
    <3>1. UpToDate(g) => UpToDate(g)'
      BY <1>1, <2>3, <2>5 DEF UpToDate, RowsOf
    <3> QED BY <1>1, <2>5, <3>1 DEF Follows, EventFor, EventsOf
  <2> QED BY <1>1, <2>1, <2>4, <2>5 DEF FreshInv
<1>4. CASE disk[f] \notin Versions
  <2>1. job' = job /\ lagging' = lagging
    BY <1>4 DEF Scan
  <2>2. ASSUME f \notin lagging
        PROVE  Follows(f)'
    <3>1. disk[f] = Empty
      BY <1>1, <1>2, <1>4, <2>2 DEF FreshInv, Follows
    <3>2. UpToDate(f)'
      BY KnowledgeAssumption, <1>1, <1>4, <2>1, <3>1 DEF UpToDate
    <3> QED BY <1>1, <3>2 DEF Follows, EventsOf
  <2>3. ASSUME NEW g \in Files, g # f, Follows(g)
        PROVE  Follows(g)'
    <3>1. UpToDate(g) => UpToDate(g)'
      BY <1>1, <2>1 DEF UpToDate, RowsOf
    <3> QED BY <1>1, <2>3, <3>1 DEF Follows, EventFor, EventsOf
  <2> QED BY <1>1, <2>1, <2>2, <2>3 DEF FreshInv
<1> QED BY <1>3, <1>4

\* The watcher does to the index what its last event of a file says.
LEMMA HandleFresh ==
  ASSUME TypedIndex, FreshInv,
         NEW kind \in {"changed", "deleted"}, NEW f \in Files, Handle(kind, f)
  PROVE  FreshInv'
<1>1. /\ phase = "watching" /\ job["loop"] = Idle /\ toScan = {}
      /\ <<kind, f>> \in batch /\ batch' = batch \ {<<kind, f>>}
      /\ UNCHANGED <<disk, phase, toScan, pending, rows>>
  BY DEF Handle, FreshInv, tableVars
<1>2. disk[f] \in Versions \cup {Absent, Empty}
  BY DEF TypedIndex, IndexTypeOK
<1>3. /\ lagging \ {f} \subseteq lagging'
      /\ f \notin lagging' => \/ f \notin lagging
                              \/ /\ kind = "deleted" <=> disk[f] = Absent
                                 /\ \A e \in batch' \cup pending : e[2] # f
  BY DEF Handle
<1>4. ASSUME NEW g \in Files, g # f, Follows(g)
      PROVE  Follows(g)'
  <2>1. EventsOf(g, batch)' = EventsOf(g, batch) /\ EventsOf(g, batch \cup pending)' = EventsOf(g, batch \cup pending)
    BY <1>1, <1>4 DEF EventsOf
  <2>2. job'["loop"] = Idle \/ job'["loop"].source = f
    <3>1. CASE kind = "deleted"
      <4>1. job' = [job EXCEPT !["loop"] = Begin(f, Absent, 0)]
        BY <3>1 DEF Handle, OnDelete, Remove
      <4>2. job'["loop"] = Begin(f, Absent, 0)
        BY <4>1, Given, ThreadsAre DEF Gives
      <4> QED BY <4>2 DEF Begin
    <3>2. CASE kind # "deleted" /\ disk[f] \in Versions
      <4>1. job' = [job EXCEPT !["loop"] = Begin(f, disk[f], NChunks)]
        BY <3>2 DEF Handle, Reindex
      <4>2. job'["loop"] = Begin(f, disk[f], NChunks)
        BY <4>1, Given, ThreadsAre DEF Gives
      <4> QED BY <4>2 DEF Begin
    <3>3. CASE kind # "deleted" /\ disk[f] \notin Versions
      BY <1>1, <3>3 DEF Handle
    <3> QED BY <3>1, <3>2, <3>3
  <2>3. UpToDate(g) => UpToDate(g)'
    BY <1>1, <1>4, <2>2 DEF UpToDate, RowsOf
  <2> QED BY <1>1, <1>4, <2>1, <2>3 DEF Follows, EventFor
\* The event of f that is handled last is that of its contents.
<1>5. ASSUME kind = "deleted" <=> disk[f] = Absent
      PROVE  UpToDate(f)'
  <2>1. CASE kind = "deleted"
    <3>1. job' = [job EXCEPT !["loop"] = Begin(f, Absent, 0)]
      BY <2>1 DEF Handle, OnDelete, Remove
    <3>2. job'["loop"] = Begin(f, Absent, 0)
      BY <3>1, Given, ThreadsAre DEF Gives
    <3>3. job'["loop"].step # Idle.step /\ job'["loop"].source = f /\ job'["loop"].version = Absent
      BY <3>2 DEF Begin, Idle
    <3> QED BY <1>1, <1>5, <2>1, <3>3 DEF UpToDate
  <2>2. CASE kind # "deleted" /\ disk[f] \in Versions
    <3>1. job' = [job EXCEPT !["loop"] = Begin(f, disk[f], NChunks)]
      BY <2>2 DEF Handle, Reindex
    <3>2. job'["loop"] = Begin(f, disk[f], NChunks)
      BY <3>1, Given, ThreadsAre DEF Gives
    <3>3. job'["loop"].step # Idle.step /\ job'["loop"].source = f /\ job'["loop"].version = disk[f]
      BY <3>2 DEF Begin, Idle
    <3> QED BY <1>1, <3>3 DEF UpToDate
  <2>3. CASE kind # "deleted" /\ disk[f] = Empty
    <3>1. job' = job
      BY KnowledgeAssumption, <2>3 DEF Handle
    <3> QED BY KnowledgeAssumption, <1>1, <2>3, <3>1 DEF UpToDate
  <2> QED BY <1>2, <1>5, <2>1, <2>2, <2>3
<1>6. ASSUME f \notin lagging'
      PROVE  Follows(f)'
  <2>1. CASE f \notin lagging
    <3>1. Follows(f)
      BY <2>1 DEF FreshInv
    <3>2. EventsOf(f, batch)' \subseteq EventsOf(f, batch) /\ EventsOf(f, pending)' = EventsOf(f, pending)
      BY <1>1 DEF EventsOf
    <3>3. ASSUME EventsOf(f, batch \cup pending)' = {}
          PROVE  UpToDate(f)'
      <4>1. EventsOf(f, pending) = {}
        BY <1>1, <3>3 DEF EventsOf
      <4>2. <<kind, f>> \in EventsOf(f, batch)
        BY <1>1 DEF EventsOf
      <4>3. <<kind, f>> = EventFor(f)
        BY <3>1, <4>1, <4>2 DEF Follows
      <4>4. kind = "deleted" <=> disk[f] = Absent
        BY <4>3 DEF EventFor
      <4> QED BY <1>5, <4>4
    <3> QED BY <1>1, <3>1, <3>2, <3>3 DEF Follows, EventFor
  <2>2. CASE f \in lagging
    <3>1. EventsOf(f, batch)' = {} /\ EventsOf(f, pending)' = {}
      BY <1>1, <1>3, <1>6, <2>2 DEF EventsOf
    <3>2. UpToDate(f)'
      BY <1>3, <1>5, <1>6, <2>2
    <3> QED BY <1>1, <3>1, <3>2 DEF Follows
  <2> QED BY <2>1, <2>2
<1> QED BY <1>1, <1>3, <1>4, <1>6 DEF FreshInv

LEMMA FreshKept ==
  ASSUME TypedIndex, TidyInv, FreshInv, [IndexNext]_indexVars
  PROVE  FreshInv'
<1>1. ASSUME NEW t \in Threads, Statement(t)
      PROVE  FreshInv'
  <2>1. UNCHANGED <<disk, batch, pending, lagging, phase, toScan>>
    BY <1>1 DEF Statement, fileVars
  <2>2. ASSUME NEW f \in Files, Follows(f)
        PROVE  Follows(f)'
    <3>1. UpToDate(f) => UpToDate(f)'
      BY <1>1, <2>1, StatementUpToDate
    <3> QED BY <2>1, <2>2, <3>1, FollowsKept
  <2> QED BY <2>1, <2>2 DEF FreshInv
<1>2. ASSUME UNCHANGED <<disk, batch, pending, lagging, rows>>, job'["loop"] = job["loop"],
             toScan' = toScan, phase' # "scanning" => toScan = {},
             phase' # "watching" => phase # "watching"
      PROVE  FreshInv'
  <2>1. ASSUME NEW f \in Files, Follows(f)
        PROVE  Follows(f)'
    <3>1. UpToDate(f) => UpToDate(f)'
      BY <1>2 DEF UpToDate, RowsOf
    <3> QED BY <1>2, <2>1, <3>1, FollowsKept
  <2> QED BY <1>2, <2>1 DEF FreshInv
<1>3. CASE ScanEnds \/ Watch \/ UNCHANGED indexVars
  BY <1>2, <1>3 DEF ScanEnds, Watch, indexVars, fileVars, tableVars, FreshInv
<1>4. ASSUME NEW v \in Versions, NEW n \in 0..NChunks, Pull(v, n)
      PROVE  FreshInv'
  <2>1. job'["loop"] = job["loop"]
    BY <1>4, Given, ThreadsAre DEF Pull, Gives
  <2> QED BY <1>2, <1>4, <2>1 DEF Pull, fileVars, tableVars, FreshInv
<1>5. CASE NextBatch
  <2>1. /\ batch = {} /\ batch' = pending /\ pending' = {}
        /\ UNCHANGED <<disk, lagging, rows, job, phase, toScan>> /\ phase = "watching"
    BY <1>5 DEF NextBatch, LeftOver, tableVars
  <2>2. ASSUME NEW f \in Files, Follows(f)
        PROVE  Follows(f)'
    <3>1. UpToDate(f) => UpToDate(f)'
      BY <2>1 DEF UpToDate, RowsOf
    <3> QED BY <2>1, <2>2, <3>1 DEF Follows, EventFor, EventsOf
  <2> QED BY <2>1, <2>2 DEF FreshInv
<1>6. CASE Crash
  <2>1. /\ toScan' = Present(disk) /\ batch' = {} /\ pending' = {} /\ phase' = "scanning"
        /\ lagging' = lagging \cup (Files \ Present(disk)) /\ disk' = disk
    BY <1>6 DEF Crash
  <2>2. ASSUME NEW f \in Files, f \notin lagging'
        PROVE  Follows(f)'
    <3>1. f \in toScan' /\ disk'[f] # Absent
      BY <2>1, <2>2 DEF Present
    <3> QED BY <2>1, <3>1 DEF Follows, EventsOf
  <2> QED BY <2>1, <2>2 DEF FreshInv
<1> QED BY <1>1, <1>3, <1>4, <1>5, <1>6, ThreadsAre, EditFresh, ScanFresh, HandleFresh DEF IndexNext, Advance, IndexTerminated

LEMMA FreshAlways == IndexSpec => []FreshInv
<1>1. IndexInit => FreshInv
  BY InitFresh
<1>2. (TypedIndex /\ TidyInv) /\ FreshInv /\ [IndexNext]_indexVars => FreshInv'
  BY FreshKept
<1> QED BY <1>1, <1>2, TidyAlways, PTL DEF IndexSpec

\* A source whose chunks are all held has as many rows.
LEMMA RowsCounted ==
  ASSUME NEW table, table \in SUBSET Row, Tidy(table), IsFiniteSet(table),
         NEW s, NEW v, NEW n \in Nat, Holds(table, s, v, n)
  PROVE  Cardinality(OnSource(table, s)) = n
<1> DEFINE R == OnSource(table, s)
           at == [r \in R |-> r.chunk.pos]
<1>1. ASSUME NEW r \in R
      PROVE  r \in table /\ r.chunk = [source |-> s, version |-> v, pos |-> r.chunk.pos] /\ r.chunk.pos \in 1..n
  BY DEF Holds, OnSource, Row, Chunk
<1>2. ASSUME NEW r \in R, NEW q \in R, at[r] = at[q]
      PROVE  r = q
  <2>1. r.chunk = q.chunk
    <3>1. r.chunk.pos = q.chunk.pos
      BY <1>2
    <3> HIDE DEF R, at
    <3> QED BY <1>1, <3>1
  <2> HIDE DEF R, at
  <2> QED BY <1>1, <2>1 DEF Tidy
<1>3. ASSUME NEW i \in 1..n
      PROVE  \E r \in R : at[r] = i
  <2>1. PICK r \in table : r.chunk = [source |-> s, version |-> v, pos |-> i]
    BY DEF Holds
  <2>2. r.chunk.source = s /\ r.chunk.pos = i
    BY <2>1
  <2> QED BY <2>2 DEF OnSource
<1>4. at \in [R -> 1..n]
  BY <1>1
<1> HIDE DEF at
<1>5. at \in Bijection(R, 1..n)
  <2> HIDE DEF R
  <2>1. \A r, q \in R : at[r] = at[q] => r = q
    BY <1>2
  <2>2. \A i \in 1..n : \E r \in R : at[r] = i
    BY <1>3
  <2> QED BY <1>4, <2>1, <2>2 DEF Bijection, Injection, IsInjective, Surjection
<1>6. IsFiniteSet(R)
  BY FS_Subset DEF OnSource
<1>7. Cardinality(1..n) = n
  BY FS_Interval
<1>8. Cardinality(1..n) = Cardinality(R)
  <2> HIDE DEF R
  <2>1. ExistsBijection(R, 1..n)
    BY <1>5 DEF ExistsBijection
  <2> QED BY <1>6, <2>1, FS_Bijection
<1> QED BY <1>7, <1>8

\* A watcher at rest leaves an index of the files as they are.
THEOREM IndexFollowsFiles == IndexSpec => []IndexIsFresh
<1>1. ASSUME TypedIndex, TidyInv, FreshInv
      PROVE  IndexIsFresh
  <2> SUFFICES ASSUME Quiet, NEW f \in Files \ lagging
               PROVE  /\ disk[f] \in Versions => Fresh(f)
                      /\ disk[f] = Absent => RowsOf(f) = {}
    BY DEF IndexIsFresh
  <2>1. UpToDate(f)
    BY <1>1 DEF Quiet, FreshInv, Follows, EventsOf
  <2>2. disk[f] = Absent => RowsOf(f) = {}
    BY <2>1 DEF Quiet, UpToDate
  <2>3. ASSUME disk[f] \in Versions
        PROVE  Fresh(f)
    <3>1. Holds(rows, f, disk[f], NChunks) /\ NChunks \in Nat
      BY KnowledgeAssumption, <2>1, <2>3 DEF Quiet, UpToDate
    <3>2. rows \in SUBSET Row /\ Tidy(rows) /\ IsFiniteSet(rows)
      BY <1>1 DEF TypedIndex, TidyInv
    <3>3. RowsOf(f) = OnSource(rows, f)
      BY DEF RowsOf, OnSource
    <3>4. {r.chunk : r \in RowsOf(f)} = {[source |-> f, version |-> disk[f], pos |-> i] : i \in 1..NChunks}
      BY <3>1, <3>2, <3>3, HeldChunks
    <3>5. Cardinality(RowsOf(f)) = NChunks
      BY <3>1, <3>2, <3>3, RowsCounted
    <3> QED BY <3>4, <3>5 DEF Fresh
  <2> QED BY <2>2, <2>3
<1>2. TypedIndex /\ TidyInv /\ FreshInv => IndexIsFresh
  BY <1>1
<1> QED BY <1>2, TidyAlways, FreshAlways, PTL

-----------------------------------------------------------------------------
(* One text per row.                                                       *)

\* Without the rows of a source and their texts, the others still match.
LEMMA PairedClear ==
  ASSUME NEW rs, NEW ts, Paired(rs, ts), NEW s
  PROVE  Paired(rs \ OnSource(rs, s), {x \in ts : x.id \notin {r.text : r \in OnSource(rs, s)}})
<1> DEFINE R == OnSource(rs, s)
           left == {x \in ts : x.id \notin {r.text : r \in R}}
<1>1. R \subseteq rs
  BY DEF OnSource
<1>2. \A r : Link(r).id = r.text
  BY DEF Link
<1>3. \A r, q \in rs : r.text = q.text => r = q
  BY DEF Paired
<1>4. ASSUME NEW r \in rs \ R
      PROVE  Link(r) \in left
  <2>1. Link(r) \in ts
    BY DEF Paired
  <2>2. \A q \in R : q.text # r.text
    BY <1>1, <1>3
  <2> HIDE DEF R
  <2> QED BY <1>2, <2>1, <2>2
<1>5. ASSUME NEW x \in left
      PROVE  \E r \in rs \ R : x = Link(r)
  <2>1. PICK r \in rs : x = Link(r)
    BY DEF Paired
  <2> HIDE DEF R
  <2>2. r \notin R
    BY <1>2, <2>1
  <2> QED BY <2>1, <2>2
<1> HIDE DEF R, left
<1>6. Paired(rs \ R, left)
  BY <1>3, <1>4, <1>5 DEF Paired
<1> USE DEF R, left
<1> QED BY <1>6

\* A row of its own for the text without one completes the match.
LEMMA PairedAdd ==
  ASSUME NEW rs, NEW ts, NEW row, Link(row) \in ts, Paired(rs, ts \ {Link(row)}),
         \A r \in rs : r.text # row.text
  PROVE  Paired(rs \cup {row}, ts)
<1>1. \A r \in rs \cup {row} : Link(r) \in ts
  BY DEF Paired
<1>2. \A x \in ts : \E r \in rs \cup {row} : x = Link(r)
  BY DEF Paired
<1>3. \A r, q \in rs \cup {row} : r.text = q.text => r = q
  BY DEF Paired
<1> HIDE DEF Link
<1> QED BY <1>1, <1>2, <1>3 DEF Paired

LEMMA StatementLinks ==
  ASSUME TypedIndex, TidyInv, LinkInv, NEW t \in Threads, Statement(t)
  PROVE  LinkInv'
<1> SUFFICES ASSUME ~overlapped'
             PROVE  LinkInv'
  BY DEF LinkInv
<1> DEFINE j == job[t]
           k == job'[t]
<1>1. j \in Busy /\ Gives(t, k) /\ j # Idle
  BY StatementAdvances, JobIsIdleOrBusy
<1>2. ~overlapped /\ \A u \in Threads \ {t} : job[u] = Idle
  <2>1. overlapped \in BOOLEAN /\ (overlapped' <=> overlapped \/ \A u \in Threads : job[u] # Idle)
    BY DEF Statement, TypedIndex, IndexTypeOK
  <2> QED BY <1>1, <2>1 DEF Threads
<1>3. \A u \in Threads \ {t} : ~InIndex(u) /\ ~InIndex(u)'
  BY <1>1, <1>2 DEF InIndex, Gives
<1>4. /\ Paired(saved.rows, saved.texts)
      /\ j.step = "clearTexts" => Paired(rows, texts)
      /\ j.step # "clearTexts" => Midway(t)
  <2>1. j.step = "clearTexts" => \A u \in Threads : ~InIndex(u)
    BY <1>3 DEF InIndex
  <2>2. j.step # "clearTexts" => InIndex(t)
    BY <1>1 DEF InIndex
  <2> QED BY <1>2, <2>1, <2>2 DEF LinkInv
<1>5. SUFFICES /\ Paired(saved'.rows, saved'.texts)
               /\ k = Idle => Paired(rows', texts')
               /\ k # Idle => Midway(t)' /\ k.step # "clearTexts"
  <2>1. ~InIndex(t)' <=> k = Idle \/ k.step = "clearTexts"
    BY DEF InIndex
  <2> QED BY <1>3, <2>1, <1>5 DEF LinkInv
<1>6. CASE ClearTexts(t)
  <2>1. /\ k = [j EXCEPT !.step = "clearRows"] /\ j.step = "clearTexts" /\ rows' = rows /\ saved' = saved
        /\ texts' = {x \in texts : x.id \notin {r.text : r \in OnSource(rows, j.source)}}
    BY <1>6, Given DEF ClearTexts, Step, GoTo, Gives, TextsOf, RowsOf, OnSource
  <2>2. Paired(rows \ OnSource(rows, j.source), texts')
    BY <1>4, <2>1, PairedClear
  <2>3. k.source = j.source /\ k.step = "clearRows"
    BY <1>1, <2>1 DEF Busy
  <2>4. Midway(t)'
    BY <2>1, <2>2, <2>3 DEF Midway, RowsOf, OnSource
  <2> QED BY <1>4, <2>1, <2>3, <2>4, JobIsIdleOrBusy DEF Idle
<1>7. CASE ClearRows(t)
  <2>1. /\ k = [j EXCEPT !.step = "clearCommit"] /\ j.step = "clearRows"
        /\ rows' = rows \ RowsOf(j.source) /\ texts' = texts /\ saved' = saved
    BY <1>7, Given DEF ClearRows, Step, GoTo, Gives
  <2>2. k.step = "clearCommit"
    BY <1>1, <2>1 DEF Busy
  <2>3. Midway(t)'
    BY <1>4, <2>1, <2>2 DEF Midway
  <2> QED BY <1>4, <2>1, <2>2, <2>3 DEF Idle
<1>8. CASE ClearCommit(t)
  <2>1. /\ j.step = "clearCommit" /\ rows' = rows /\ texts' = texts
        /\ saved'.rows = rows /\ saved'.texts = texts
        /\ k = [j EXCEPT !.step = "insertText"] \/ k = Idle
    BY <1>8, Given DEF ClearCommit, Commit, GoTo, Gives
  <2>2. Paired(rows, texts)
    BY <1>4, <2>1 DEF Midway
  <2>3. k = Idle \/ k.step = "insertText"
    BY <1>1, <2>1 DEF Busy
  <2>4. k # Idle => Midway(t)'
    BY <2>1, <2>2, <2>3 DEF Midway
  <2> QED BY <2>1, <2>2, <2>3, <2>4
<1>9. CASE InsertText(t)
  <2>1. /\ k = [j EXCEPT !.step = "insertRow"] /\ j.step = "insertText" /\ rows' = rows /\ saved' = saved
        /\ texts' = texts \cup {[id |-> NewId, chunk |-> ChunkAt(j)]} /\ last' = NewId
    BY <1>9, Given DEF InsertText, Step, GoTo, Gives
  <2>2. k.step = "insertRow" /\ ChunkAt(k) = ChunkAt(j)
    BY <1>1, <2>1 DEF Busy, ChunkAt
  <2>3. NewText(t)' = [id |-> NewId, chunk |-> ChunkAt(j)]
    BY <2>1, <2>2 DEF NewText, ChunkAt
  <2>4. NewId \in Nat /\ \A x \in texts : x.id # NewId
    <3>1. NewId \in Nat /\ \A x \in texts : x.id < NewId /\ x.id \in Nat
      BY NewIdIsNew DEF TypedIndex, IndexTypeOK
    <3> QED BY <3>1
  <2>5. Paired(rows, texts)
    BY <1>4, <2>1 DEF Midway
  <2>6. NewText(t)' \notin texts /\ NewText(t)' \in texts'
    BY <2>1, <2>3, <2>4
  <2>7. texts' \ {NewText(t)'} = texts
    BY <2>1, <2>3, <2>6
  <2>8. \A r \in rows : r.text # NewId
    <3>1. \A r \in rows : Link(r) \in texts /\ Link(r).id = r.text
      BY <2>5 DEF Paired, Link
    <3> QED BY <2>4, <3>1
  <2>9. Midway(t)'
    BY <2>1, <2>2, <2>5, <2>6, <2>7, <2>8 DEF Midway
  <2> QED BY <1>4, <2>1, <2>2, <2>9 DEF Idle
<1>10. CASE InsertRow(t)
  <2> DEFINE row == [chunk |-> ChunkAt(j), text |-> last]
  <2>1. /\ j.step = "insertRow" /\ rows' = rows \cup {row} /\ texts' = texts /\ saved' = saved
    BY <1>10 DEF InsertRow
  <2>2. k.step \in {"insertText", "commit"}
    <3>1. k = [[j EXCEPT !.next = @ + 1] EXCEPT !.step = "insertText"] \/ k = [[j EXCEPT !.next = @ + 1] EXCEPT !.step = "commit"]
      BY <1>10, Given DEF InsertRow, GoTo, Gives
    <3> QED BY <1>1, <3>1 DEF Busy
  <2>3. Link(row) = NewText(t) /\ row.text = last
    BY DEF Link, NewText
  <2>4. NewText(t) \in texts /\ Paired(rows, texts \ {NewText(t)}) /\ \A r \in rows : r.text # last
    BY <1>4, <2>1 DEF Midway
  <2>5. Paired(rows', texts)
    <3> HIDE DEF row
    <3> QED BY <2>1, <2>3, <2>4, PairedAdd
  <2>6. Midway(t)'
    BY <2>1, <2>2, <2>5 DEF Midway
  <2> QED BY <1>4, <2>1, <2>2, <2>5, <2>6
<1>11. CASE InsertCommit(t)
  <2>1. /\ j.step = "commit" /\ rows' = rows /\ texts' = texts
        /\ saved'.rows = rows /\ saved'.texts = texts /\ k = Idle
    BY <1>11, Given DEF InsertCommit, Commit, GoTo, Gives
  <2> QED BY <1>4, <2>1 DEF Midway
<1> QED BY <1>6, <1>7, <1>8, <1>9, <1>10, <1>11 DEF Statement

LEMMA OtherStepsLink ==
  ASSUME LinkInv, Starts \/ Restarts
  PROVE  LinkInv'
<1>1. CASE Restarts
  <2>1. \A t \in Threads : ~InIndex(t)'
    BY <1>1 DEF Restarts, InIndex
  <2> QED BY <1>1, <2>1 DEF Restarts, LinkInv
<1>2. CASE Starts
  <2>1. UNCHANGED <<rows, texts, last, saved, overlapped>>
    BY <1>2 DEF Starts
  <2>2. ASSUME NEW t \in Threads
        PROVE  /\ InIndex(t)' <=> InIndex(t)
               /\ InIndex(t) => job'[t] = job[t]
    <3>1. CASE job'[t] = job[t]
      BY <3>1 DEF InIndex
    <3>2. CASE job[t] = Idle /\ BeginsJob(t)
      <4>1. job'[t].step = "clearTexts"
        BY <3>2 DEF BeginsJob, Begin
      <4> QED BY <3>2, <4>1 DEF InIndex
    <3> QED BY <1>2, <3>1, <3>2 DEF Starts
  <2>3. ASSUME NEW t \in Threads, InIndex(t), Midway(t)
        PROVE  Midway(t)'
    <3>1. job'[t] = job[t]
      BY <2>2, <2>3
    <3> QED BY <2>1, <2>3, <3>1 DEF Midway, NewText, RowsOf
  <2> QED BY <2>1, <2>2, <2>3 DEF LinkInv
<1> QED BY <1>1, <1>2

LEMMA LinkKept ==
  ASSUME TypedIndex, TidyInv, LinkInv, [IndexNext]_indexVars
  PROVE  LinkInv'
<1>1. CASE Statement("loop") \/ Statement("worker")
  BY <1>1, ThreadsAre, StatementLinks
<1>2. CASE ~Statement("loop") /\ ~Statement("worker")
  BY <1>2, OtherSteps, OtherStepsLink
<1> QED BY <1>1, <1>2

LEMMA LinkAlways == IndexSpec => []LinkInv
<1>1. ASSUME IndexInit
      PROVE  LinkInv
  <2>1. /\ rows = {} /\ texts = {} /\ saved.rows = {} /\ saved.texts = {}
        /\ \A t \in Threads : ~InIndex(t)
    BY <1>1 DEF IndexInit, InIndex
  <2>2. Paired({}, {})
    BY DEF Paired
  <2> QED BY <2>1, <2>2 DEF LinkInv
<1>2. IndexInit => LinkInv
  BY <1>1
<1>3. (TypedIndex /\ TidyInv) /\ LinkInv /\ [IndexNext]_indexVars => LinkInv'
  BY LinkKept
<1> QED BY <1>2, <1>3, TidyAlways, PTL DEF IndexSpec

\* Rows that match the texts one to one are as many as the texts' numbers.
LEMMA PairedCounts ==
  ASSUME NEW rs, NEW ts, Paired(rs, ts), IsFiniteSet(rs)
  PROVE  /\ {[id |-> r.text, chunk |-> r.chunk] : r \in rs} = ts
         /\ Cardinality({r.text : r \in rs}) = Cardinality(rs)
<1> DEFINE ids == {r.text : r \in rs}
           id == [r \in rs |-> r.text]
<1>1. {[id |-> r.text, chunk |-> r.chunk] : r \in rs} = ts
  BY DEF Paired, Link
<1>2. id \in [rs -> ids] /\ \A r \in rs : id[r] = r.text
  OBVIOUS
<1>3. \A x \in ids : \E r \in rs : id[r] = x
  OBVIOUS
<1>4. \A r, q \in rs : id[r] = id[q] => r = q
  BY DEF Paired
<1> HIDE DEF ids, id
<1>5. ExistsBijection(rs, ids)
  BY <1>2, <1>3, <1>4 DEF ExistsBijection, Bijection, Injection, IsInjective, Surjection
<1>6. Cardinality(ids) = Cardinality(rs)
  BY <1>5, FS_Bijection
<1> USE DEF ids
<1> QED BY <1>1, <1>6

\* While the loop and the worker take turns in the index, every chunk is found
\* by its text and every text has its chunk, whatever a restart loses.
THEOREM TextsMatchRows == IndexSpec => []OneTextPerRow
<1>1. ASSUME TypedIndex, LinkInv
      PROVE  OneTextPerRow
  <2>1. SUFFICES ASSUME ~overlapped
                 PROVE  OneTextPerRow
    BY DEF OneTextPerRow
  <2>2. Paired(saved.rows, saved.texts) /\ IsFiniteSet(saved.rows) /\ IsFiniteSet(rows)
    BY <1>1, <2>1 DEF LinkInv, TypedIndex
  <2>3. /\ {[id |-> r.text, chunk |-> r.chunk] : r \in saved.rows} = saved.texts
        /\ Cardinality({r.text : r \in saved.rows}) = Cardinality(saved.rows)
    BY <2>2, PairedCounts
  <2>4. ASSUME \A t \in Threads : job[t] = Idle
        PROVE  /\ {[id |-> r.text, chunk |-> r.chunk] : r \in rows} = texts
               /\ Cardinality({r.text : r \in rows}) = Cardinality(rows)
    <3>1. Paired(rows, texts)
      BY <1>1, <2>1, <2>4 DEF LinkInv, InIndex
    <3> QED BY <2>2, <3>1, PairedCounts
  <2> QED BY <2>3, <2>4 DEF OneTextPerRow
<1>2. TypedIndex /\ TidyInv /\ LinkInv => OneTextPerRow
  BY <1>1
<1> QED BY <1>2, TidyAlways, LinkAlways, PTL
=============================================================================
