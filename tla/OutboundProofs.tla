--------------------------- MODULE OutboundProofs ---------------------------
(***************************************************************************)
(* Proofs about Outbound: it is well typed and never waits in more threads *)
(* than there are, it implements ExactlyOnce, an answer goes out in order  *)
(* and entirely or with an error, turns that are over are quiet, and runs  *)
(* of a job stay apart; for any turns, jobs, channels, blocks and threads. *)
(***************************************************************************)
EXTENDS Outbound, FiniteSetTheorems, TLAPS

\* The messages a turn has not handed to its adapter: the block it is about to
\* send, the blocks after it, and the error text.
ToCome(t, i) ==
  \/ step[t] \in {"idle", "thinking"}
  \/ step[t] \in {"token", "call"} /\ i = current[t]
  \/ /\ step[t] \in {"token", "call", "waiting"}
     /\ current[t] # ErrorText
     /\ i = ErrorText \/ i > current[t]

\* How often an adapter has tried a message at most, by its state.
Tried(t, state) ==
  CASE state \in {"none", "starting", "sending"} -> 0
    [] state = "retrying" -> 1
    [] OTHER -> IF t \in Telegram THEN 2 ELSE 1

NotBegun == \A t \in Turns, i \in Indices : ToCome(t, i) => adapter[<<t, i>>] = "none"

NotTold ==
  /\ \A t \in Turns, i \in Indices : adapter[<<t, i>>] = "none" => ledger[<<t, i>>] = "nothing"
  /\ \A t \in Turns : step[t] = "waiting" =>
       adapter[<<t, current[t]>>] # "none" /\ ledger[<<t, current[t]>>] = "nothing"

Counted ==
  \A t \in Turns, i \in Indices :
    /\ Occurrences(outbox[t], i) \in 0..Tried(t, adapter[<<t, i>>])
    /\ adapter[<<t, i>>] = "retrying" => t \in Telegram
    /\ adapter[<<t, i>>] = "sent" => Occurrences(outbox[t], i) > 0

Typed == TypeOK /\ IsFiniteSet(Waiting)

IInv == Typed /\ NotBegun /\ NotTold /\ Counted

-----------------------------------------------------------------------------
\* One more message at the end is one more occurrence of it, and of no other.
LEMMA OccurrencesOfAppend ==
  ASSUME NEW S, NEW s \in Seq(S), NEW i \in S, NEW j \in S
  PROVE  /\ Occurrences(s, j) \in Nat
         /\ Occurrences(Append(s, i), j) =
              Occurrences(s, j) + (IF i = j THEN 1 ELSE 0)
<1> DEFINE At(q) == {k \in DOMAIN q : q[k] = j}
<1>1. DOMAIN s = 1..Len(s) /\ Len(s) \in Nat
  OBVIOUS
<1>2. IsFiniteSet(At(s)) /\ Cardinality(At(s)) \in Nat
  <2>1. IsFiniteSet(1..Len(s))
    BY <1>1, FS_Interval
  <2> QED BY <1>1, <2>1, FS_Subset, FS_CardinalityType
<1>3. /\ DOMAIN Append(s, i) = 1..(Len(s) + 1)
      /\ \A k \in 1..Len(s) : Append(s, i)[k] = s[k]
      /\ Append(s, i)[Len(s) + 1] = i
  OBVIOUS
<1>6. Occurrences(s, j) = Cardinality(At(s)) /\ Occurrences(Append(s, i), j) = Cardinality(At(Append(s, i)))
  BY DEF Occurrences
<1>4. CASE i = j
  <2>1. At(Append(s, i)) = At(s) \cup {Len(s) + 1}
    BY <1>1, <1>3, <1>4
  <2>2. Len(s) + 1 \notin At(s)
    BY <1>1
  <2>3. Cardinality(At(s) \cup {Len(s) + 1}) = Cardinality(At(s)) + 1
    BY <1>2, <2>2, FS_AddElement
  <2> QED BY <1>6, <1>2, <1>4, <2>1, <2>3
<1>5. CASE i # j
  <2>1. At(Append(s, i)) = At(s)
    BY <1>1, <1>3, <1>5
  <2> HIDE DEF At
  <2>2. Cardinality(At(Append(s, i))) = Cardinality(At(s))
    BY <2>1
  <2> QED BY <1>6, <1>2, <1>5, <2>2
<1> QED BY <1>4, <1>5

\* The parts of an action that move a turn, by their effect on it.
LEMMA Moves ==
  ASSUME TypeOK, NEW t \in Turns,
         End(t) \/ Raise(t) \/ NextBlock(t)
  PROVE  /\ \E s \in {"token", "done"} : step' = [step EXCEPT ![t] = s]
         /\ \E i \in Indices : current' = [current EXCEPT ![t] = i]
         /\ UNCHANGED runner \/ \E j \in SUBSET Jobs :
              runner' = [k \in Jobs |-> IF k \in j THEN NoRun ELSE runner[k]]
         /\ UNCHANGED givenUp
<1> USE OutboundAssumption
<1>0. current[t] \in Indices /\ blocks[t] \in 0..MaxBlocks /\ ErrorText \in Indices
  BY DEF TypeOK, Indices, ErrorText
<1>1. CASE End(t)
  <2>1. step' = [step EXCEPT ![t] = "done"] /\ current' = [current EXCEPT ![t] = current[t]] /\ UNCHANGED givenUp
    BY <1>1 DEF End, GoTo, TypeOK
  <2>2. runner' = [k \in Jobs |-> IF k \in {j \in Jobs : runner[j] = t} THEN NoRun ELSE runner[k]]
    BY <1>1 DEF End
  <2> QED BY <1>0, <2>1, <2>2
<1>2. ASSUME NEW i \in Indices, StartSend(t, i)
      PROVE  /\ step' = [step EXCEPT ![t] = "token"]
             /\ current' = [current EXCEPT ![t] = i]
             /\ UNCHANGED <<runner, givenUp>>
  BY <1>2 DEF StartSend, GoTo, cronVars
<1>3. CASE Raise(t)
  BY <1>0, <1>1, <1>2, <1>3 DEF Raise
<1>4. CASE NextBlock(t)
  <2>1. CASE ~(current[t] = ErrorText \/ IsLast(current[t], blocks[t]))
    <3>1. current[t] + 1 \in Indices
      BY <1>0, <2>1 DEF IsLast, Indices, ErrorText
    <3> QED BY <1>2, <1>4, <2>1, <3>1 DEF NextBlock
  <2> QED BY <1>1, <1>4, <2>1 DEF NextBlock
<1> QED BY <1>1, <1>3, <1>4

\* The worker threads: a step that leaves a turn elsewhere needs no thread, and
\* one that begins to wait takes a free one.
LEMMA Threads ==
  ASSUME Typed, NEW t \in Turns, NEW s, step' = [step EXCEPT ![t] = s],
         s = "waiting" => FreeWorker
  PROVE  IsFiniteSet(Waiting') /\ Cardinality(Waiting') <= Workers
<1> USE OutboundAssumption
<1>0. IsFiniteSet(Waiting) /\ Cardinality(Waiting) \in Nat /\ Cardinality(Waiting) <= Workers /\ Workers \in Nat
  BY FS_CardinalityType DEF Typed, TypeOK
<1>1. step \in [Turns -> {"idle", "thinking", "token", "call", "waiting", "done"}]
  BY DEF Typed, TypeOK
<1>2. CASE s = "waiting"
  <2>1. Waiting' = Waiting \cup {t}
    BY <1>1, <1>2 DEF Waiting
  <2>2. Cardinality(Waiting \cup {t}) <= Cardinality(Waiting) + 1 /\ IsFiniteSet(Waiting \cup {t})
    BY <1>0, FS_AddElement
  <2>3. Cardinality(Waiting \cup {t}) \in Nat
    BY <2>2, FS_CardinalityType
  <2>4. Cardinality(Waiting) < Workers
    BY <1>2 DEF FreeWorker, HasThread
  <2> QED BY <1>0, <2>1, <2>2, <2>3, <2>4
<1>3. CASE s # "waiting"
  <2>1. Waiting' \subseteq Waiting
    BY <1>1, <1>3 DEF Waiting
  <2>2. IsFiniteSet(Waiting') /\ Cardinality(Waiting') <= Cardinality(Waiting)
    BY <1>0, <2>1, FS_Subset
  <2>3. Cardinality(Waiting') \in Nat
    BY <2>2, FS_CardinalityType
  <2> QED BY <1>0, <2>2, <2>3
<1> QED BY <1>2, <1>3

\* A step that only moves a turn keeps the types of what it moves.
LEMMA MovesTyped ==
  ASSUME Typed, NEW t \in Turns, End(t) \/ Raise(t) \/ NextBlock(t)
  PROVE  /\ step' \in [Turns -> {"idle", "thinking", "token", "call", "waiting", "done"}]
         /\ current' \in [Turns -> Indices]
         /\ runner' \in [Jobs -> Runs \cup {NoRun}]
         /\ givenUp' \in SUBSET Runs
         /\ IsFiniteSet(Waiting') /\ Cardinality(Waiting') <= Workers
<1>0. TypeOK
  BY DEF Typed
<1>1. PICK s \in {"token", "done"} : step' = [step EXCEPT ![t] = s]
  BY <1>0, Moves
<1>2. IsFiniteSet(Waiting') /\ Cardinality(Waiting') <= Workers
  BY <1>1, Threads
<1>3. PICK i \in Indices : current' = [current EXCEPT ![t] = i]
  BY <1>0, Moves
<1>4. runner' \in [Jobs -> Runs \cup {NoRun}]
  <2>1. runner \in [Jobs -> Runs \cup {NoRun}]
    BY <1>0 DEF TypeOK
  <2> QED BY <1>0, <2>1, Moves
<1>5. UNCHANGED givenUp
  BY <1>0, Moves
<1> QED BY <1>0, <1>1, <1>2, <1>3, <1>4, <1>5 DEF TypeOK

LEMMA TypedInit == Init => Typed
<1> SUFFICES ASSUME Init PROVE Typed
  OBVIOUS
<1> USE OutboundAssumption DEF Init
<1>1. Waiting = {}
  BY DEF Waiting
<1>2. IsFiniteSet(Waiting) /\ Cardinality(Waiting) = 0
  BY <1>1, FS_EmptySet
<1>3. 0 \in Indices /\ 0 \in 0..MaxBlocks
  BY DEF Indices, ErrorText
<1>4. runner \in [Jobs -> Runs \cup {NoRun}]
  OBVIOUS
<1>5. ledger \in [Turns \X Indices -> {"nothing", "success", "failed"}]
  OBVIOUS
<1>6. outbox \in [Turns -> Seq(Indices)]
  OBVIOUS
<1> QED BY <1>2, <1>3, <1>4, <1>5, <1>6 DEF Typed, TypeOK

\* Every step keeps the types, and takes a thread only when one is free.
LEMMA TypedNext == Typed /\ [Next]_vars => Typed'
<1> SUFFICES ASSUME Typed, [Next]_vars PROVE Typed'
  OBVIOUS
<1> USE OutboundAssumption
<1>0. TypeOK
  BY DEF Typed
<1>1. ASSUME NEW t \in Turns, Receive(t) PROVE Typed'
  <2>1. step' = [step EXCEPT ![t] = "thinking"]
    BY <1>1 DEF Receive, GoTo
  <2>2. IsFiniteSet(Waiting') /\ Cardinality(Waiting') <= Workers
    BY <2>1, Threads
  <2> QED BY <1>0, <1>1, <2>1, <2>2 DEF Typed, TypeOK, Receive, seamVars, cronVars
<1>2. ASSUME NEW t \in Turns, Fire(t) PROVE Typed'
  <2>1. step' = [step EXCEPT ![t] = "thinking"]
    BY <1>2 DEF Fire, GoTo
  <2>2. IsFiniteSet(Waiting') /\ Cardinality(Waiting') <= Workers
    BY <2>1, Threads
  <2>3. runner' \in [Jobs -> Runs \cup {NoRun}]
    BY <1>0, <1>2 DEF TypeOK, Fire, Jobs
  <2> QED BY <1>0, <1>2, <2>1, <2>2, <2>3 DEF Typed, TypeOK, Fire, seamVars
<1>3. ASSUME NEW t \in Turns, Answer(t) PROVE Typed'
  <2>1. PICK n \in 0..MaxBlocks :
          /\ blocks' = [blocks EXCEPT ![t] = n]
          /\ IF n = 0 THEN End(t) ELSE StartSend(t, 0)
    <3>1. PICK n \in IF t \in Messages THEN 0..MaxBlocks ELSE {0, 1} :
            /\ blocks' = [blocks EXCEPT ![t] = n]
            /\ IF n = 0 THEN End(t) ELSE StartSend(t, 0)
      BY <1>3, Zenon DEF Answer
    <3>2. n \in 0..MaxBlocks
      BY <3>1
    <3> QED BY <3>1, <3>2, Zenon
  <2>2. blocks' \in [Turns -> 0..MaxBlocks]
    BY <1>0, <2>1 DEF TypeOK
  <2>3. CASE n = 0
    BY <1>0, <1>3, <2>1, <2>2, <2>3, MovesTyped DEF Typed, TypeOK, Answer, seamVars
  <2>4. CASE n # 0
    <3>1. step' = [step EXCEPT ![t] = "token"] /\ current' = [current EXCEPT ![t] = 0] /\ 0 \in Indices
      BY <2>1, <2>4 DEF StartSend, GoTo, Indices, ErrorText
    <3>2. IsFiniteSet(Waiting') /\ Cardinality(Waiting') <= Workers
      BY <3>1, Threads
    <3>3. UNCHANGED cronVars
      BY <2>1, <2>4 DEF StartSend
    <3> QED BY <1>0, <1>3, <2>2, <3>1, <3>2, <3>3 DEF Typed, TypeOK, Answer, seamVars, cronVars
  <2> QED BY <2>3, <2>4
<1>4. ASSUME NEW t \in Turns, AnswerFails(t) PROVE Typed'
  BY <1>0, <1>4, MovesTyped DEF Typed, TypeOK, AnswerFails, seamVars
<1>5. ASSUME NEW t \in Turns, Token(t) PROVE Typed'
  <2>1. CASE GoTo(t, "call") /\ UNCHANGED <<current, cronVars>>
    <3>1. step' = [step EXCEPT ![t] = "call"]
      BY <2>1 DEF GoTo
    <3>2. IsFiniteSet(Waiting') /\ Cardinality(Waiting') <= Workers
      BY <3>1, Threads
    <3> QED BY <1>0, <1>5, <2>1, <3>1, <3>2 DEF Typed, TypeOK, Token, seamVars, cronVars
  <2>2. CASE Raise(t)
    BY <1>0, <1>5, <2>2, MovesTyped DEF Typed, TypeOK, Token, seamVars
  <2> QED BY <1>5, <2>1, <2>2 DEF Token
<1>6. ASSUME NEW t \in Turns, Call(t) PROVE Typed'
  <2>1. CASE /\ GoTo(t, "waiting")
             /\ adapter' = [adapter EXCEPT ![<<t, current[t]>>] = "starting"]
             /\ UNCHANGED <<current, cronVars>>
    <3>1. step' = [step EXCEPT ![t] = "waiting"]
      BY <2>1 DEF GoTo
    <3>2. IsFiniteSet(Waiting') /\ Cardinality(Waiting') <= Workers
      BY <1>6, <3>1, Threads DEF Call
    <3> QED BY <1>0, <1>6, <2>1, <3>1, <3>2 DEF Typed, TypeOK, Call, cronVars
  <2>2. CASE Raise(t) /\ UNCHANGED adapter
    BY <1>0, <1>6, <2>2, MovesTyped DEF Typed, TypeOK, Call
  <2> QED BY <1>6, <2>1, <2>2 DEF Call
<1>7. ASSUME NEW t \in Turns, NEW i \in Indices, Connect(t, i) PROVE Typed'
  BY <1>0, <1>7 DEF Typed, TypeOK, Connect, cronVars, Waiting
<1>8. ASSUME NEW t \in Turns, NEW i \in Indices, Attempt(t, i) PROVE Typed'
  <2>1. adapter' \in [Turns \X Indices -> {"none", "starting", "sending", "retrying", "sent", "raised"}]
    BY <1>0, <1>8 DEF TypeOK, Attempt, AfterError
  <2>2. outbox' \in [Turns -> Seq(Indices)]
    <3>1. outbox' = outbox \/ outbox' = [outbox EXCEPT ![t] = Append(@, i)]
      BY <1>8 DEF Attempt
    <3>2. outbox \in [Turns -> Seq(Indices)] /\ Append(outbox[t], i) \in Seq(Indices)
      BY <1>0 DEF TypeOK
    <3> QED BY <3>1, <3>2
  <2> QED BY <1>0, <1>8, <2>1, <2>2 DEF Typed, TypeOK, Attempt, cronVars, Waiting
<1>9. ASSUME NEW t \in Turns, Return(t) PROVE Typed'
  <2>1. ledger' \in [Turns \X Indices -> {"nothing", "success", "failed"}]
    BY <1>0, <1>9 DEF TypeOK, Return
  <2>2. NextBlock(t) \/ Raise(t)
    BY <1>9 DEF Return
  <2> QED BY <1>0, <1>9, <2>1, <2>2, MovesTyped DEF Typed, TypeOK, Return
<1>10. ASSUME NEW t \in Turns, TimeOut(t) PROVE Typed'
  BY <1>0, <1>10, MovesTyped DEF Typed, TypeOK, TimeOut
<1>11. ASSUME NEW j \in Jobs, RunnerTimesOut(j) PROVE Typed'
  BY <1>0, <1>11 DEF Typed, TypeOK, RunnerTimesOut, seamVars, Waiting
<1>12. CASE UNCHANGED vars
  BY <1>0, <1>12 DEF Typed, TypeOK, vars, seamVars, cronVars, Waiting
<1> QED BY <1>1, <1>2, <1>3, <1>4, <1>5, <1>6, <1>7, <1>8, <1>9, <1>10, <1>11, <1>12
     DEF Next, Step, Deliver, Terminated

\* effects.py, server.py, manager.py: the types of the state, and at most as many
\* calls that wait as the default executor has threads.
THEOREM TypeCorrect == Spec => []TypeOK
<1>1. Typed => TypeOK
  BY DEF Typed
<1> QED BY <1>1, TypedInit, TypedNext, PTL DEF Spec

-----------------------------------------------------------------------------
\* A turn that moves on goes forward: what it still has to send it had before.
LEMMA MovesForward ==
  ASSUME TypeOK, NEW t \in Turns,
         \/ (End(t) \/ Raise(t)) /\ step[t] \in {"thinking", "token", "call", "waiting"}
         \/ NextBlock(t) /\ step[t] = "waiting"
  PROVE  /\ \A u \in Turns, i \in Indices : ToCome(u, i)' => ToCome(u, i)
         /\ \A u \in Turns : step'[u] = "waiting" => u # t /\ step[u] = "waiting" /\ current'[u] = current[u]
<1> USE OutboundAssumption
<1>0. /\ step \in [Turns -> {"idle", "thinking", "token", "call", "waiting", "done"}]
      /\ current \in [Turns -> Indices] /\ Indices \subseteq Int
  BY DEF TypeOK, Indices, ErrorText
<1>1. CASE End(t)
  BY <1>0, <1>1 DEF End, GoTo, ToCome, ErrorText
<1>2. CASE Raise(t) /\ step[t] # "idle" /\ ~End(t)
  <2>1. step' = [step EXCEPT ![t] = "token"] /\ current' = [current EXCEPT ![t] = ErrorText] /\ current[t] # ErrorText
    BY <1>2 DEF Raise, StartSend, GoTo
  <2> QED BY <1>0, <2>1 DEF ToCome, ErrorText
<1>3. CASE NextBlock(t) /\ step[t] = "waiting" /\ ~End(t)
  <2>1. step' = [step EXCEPT ![t] = "token"] /\ current' = [current EXCEPT ![t] = current[t] + 1] /\ current[t] # ErrorText
    BY <1>3 DEF NextBlock, StartSend, GoTo
  <2>2. step[t] = "waiting" /\ current[t] \in Int
    BY <1>0, <1>3
  <2>3. step'[t] = "token" /\ current'[t] = current[t] + 1
    BY <1>0, <2>1
  <2>4. \A u \in Turns : u # t => step'[u] = step[u] /\ current'[u] = current[u]
    BY <1>0, <2>1
  <2>5. ASSUME NEW i \in Indices, ToCome(t, i)' PROVE ToCome(t, i)
    <3>1. i = ErrorText \/ i = current'[t] \/ i > current'[t]
      BY <2>3, <2>5 DEF ToCome
    <3>2. i = ErrorText \/ i > current[t]
      BY <1>0, <2>2, <2>3, <3>1
    <3> QED BY <2>1, <2>2, <3>2 DEF ToCome
  <2>6. ASSUME NEW u \in Turns, u # t, NEW i \in Indices, ToCome(u, i)' PROVE ToCome(u, i)
    BY <2>4, <2>6 DEF ToCome
  <2> QED BY <2>3, <2>4, <2>5, <2>6
<1> QED BY <1>1, <1>2, <1>3

\* A step that leaves the seam alone and sends nothing back.
LEMMA Undisturbed ==
  ASSUME NotBegun, NotTold, Counted, UNCHANGED <<adapter, ledger, outbox>>,
         \A t \in Turns, i \in Indices : ToCome(t, i)' => ToCome(t, i),
         \A t \in Turns : step'[t] = "waiting" => step[t] = "waiting" /\ current'[t] = current[t]
  PROVE  (NotBegun /\ NotTold /\ Counted)'
<1>1. NotBegun'
  BY DEF NotBegun
<1>2. NotTold'
  BY DEF NotTold
<1>3. Counted'
  BY DEF Counted, Tried
<1> QED BY <1>1, <1>2, <1>3

\* Only a message that its adapter is sending arrives, and it is counted.
LEMMA AttemptCounts ==
  ASSUME Typed, Counted, NEW t \in Turns, NEW i \in Indices, Attempt(t, i)
  PROVE  /\ Counted'
         /\ Occurrences(outbox[t], i) < IF t \in Telegram THEN 2 ELSE 1
         /\ \A u \in Turns, j \in Indices :
              Occurrences(outbox'[u], j) =
                Occurrences(outbox[u], j) + (IF outbox' # outbox /\ u = t /\ j = i THEN 1 ELSE 0)
<1>0. /\ adapter \in [Turns \X Indices -> {"none", "starting", "sending", "retrying", "sent", "raised"}]
      /\ outbox \in [Turns -> Seq(Indices)]
  BY DEF Typed, TypeOK
<1>1. PICK arrived \in BOOLEAN, answered \in BOOLEAN :
        /\ answered => arrived
        /\ outbox' = IF arrived THEN [outbox EXCEPT ![t] = Append(@, i)] ELSE outbox
        /\ adapter' = [adapter EXCEPT ![<<t, i>>] = IF answered THEN "sent" ELSE AfterError(t, @)]
  BY Zenon DEF Attempt
<1>2. \A u \in Turns, j \in Indices :
        Occurrences(outbox'[u], j) =
          Occurrences(outbox[u], j) + (IF arrived /\ u = t /\ j = i THEN 1 ELSE 0)
  <2> SUFFICES ASSUME NEW u \in Turns, NEW j \in Indices
               PROVE  Occurrences(outbox'[u], j) =
                        Occurrences(outbox[u], j) + (IF arrived /\ u = t /\ j = i THEN 1 ELSE 0)
    OBVIOUS
  <2>1. outbox[u] \in Seq(Indices)
    BY <1>0
  <2>2. Occurrences(outbox[u], j) \in Nat
    BY <2>1, OccurrencesOfAppend
  <2>3. Occurrences(Append(outbox[u], i), j) = Occurrences(outbox[u], j) + (IF i = j THEN 1 ELSE 0)
    BY <2>1, OccurrencesOfAppend
  <2>4. outbox'[u] = IF arrived /\ u = t THEN Append(outbox[u], i) ELSE outbox[u]
    BY <1>0, <1>1
  <2> QED BY <2>2, <2>3, <2>4
<1>3. arrived <=> outbox' # outbox
  <2>1. arrived => Len(outbox'[t]) = Len(outbox[t]) + 1 /\ Len(outbox[t]) \in Nat
    BY <1>0, <1>1
  <2> QED BY <1>1, <2>1
<1>4. adapter[<<t, i>>] \in {"sending", "retrying"}
  BY DEF Attempt
<1>5. /\ Occurrences(outbox[t], i) \in 0..(IF adapter[<<t, i>>] = "sending" THEN 0 ELSE 1)
      /\ adapter[<<t, i>>] = "retrying" => t \in Telegram
  BY <1>4 DEF Counted, Tried
<1>6. ASSUME NEW u \in Turns, NEW j \in Indices
      PROVE  /\ Occurrences(outbox'[u], j) \in 0..Tried(u, adapter'[<<u, j>>])
             /\ adapter'[<<u, j>>] = "retrying" => u \in Telegram
             /\ adapter'[<<u, j>>] = "sent" => Occurrences(outbox'[u], j) > 0
  <2>1. CASE u = t /\ j = i
    <3>1. adapter'[<<t, i>>] = IF answered THEN "sent" ELSE AfterError(t, adapter[<<t, i>>])
      BY <1>0, <1>1
    <3>2. Occurrences(outbox'[t], i) = Occurrences(outbox[t], i) + (IF arrived THEN 1 ELSE 0)
      BY <1>2
    <3>3. /\ Tried(t, "retrying") = 1
          /\ Tried(t, "sent") = IF t \in Telegram THEN 2 ELSE 1
          /\ Tried(t, "raised") = IF t \in Telegram THEN 2 ELSE 1
      BY DEF Tried
    <3>4. adapter'[<<t, i>>] \in {"sent", AfterError(t, adapter[<<t, i>>])}
      BY <3>1
    <3>5. adapter'[<<t, i>>] = "sent" => arrived
      BY <1>1, <3>1 DEF AfterError
    <3>6. CASE adapter[<<t, i>>] = "sending"
      <4>1. Occurrences(outbox[t], i) = 0
        BY <1>5, <3>6
      <4>2. Occurrences(outbox'[t], i) \in 0..1
        BY <3>2, <4>1
      <4>3. AfterError(t, "sending") = IF t \in Telegram THEN "retrying" ELSE "raised"
        BY DEF AfterError
      <4>4. adapter'[<<t, i>>] = "sent" => Occurrences(outbox'[t], i) > 0
        BY <3>2, <3>5, <4>1
      <4>5. adapter'[<<t, i>>] = "retrying" => t \in Telegram
        BY <3>4, <3>6, <4>3
      <4>6. adapter'[<<t, i>>] \in {"sent", "retrying", "raised"}
        BY <3>4, <3>6, <4>3
      <4>7. Tried(t, adapter'[<<t, i>>]) \in {1, 2}
        BY <3>3, <4>6
      <4> QED BY <2>1, <4>2, <4>4, <4>5, <4>7
    <3>7. CASE adapter[<<t, i>>] = "retrying"
      <4>1. Occurrences(outbox[t], i) \in 0..1 /\ t \in Telegram
        BY <1>5, <3>7
      <4>2. adapter'[<<t, i>>] \in {"sent", "raised"}
        BY <3>4, <3>7 DEF AfterError
      <4>3. Tried(t, adapter'[<<t, i>>]) = 2
        BY <3>3, <4>1, <4>2
      <4>4. Occurrences(outbox'[t], i) \in 0..2
        BY <3>2, <4>1
      <4>5. adapter'[<<t, i>>] = "sent" => Occurrences(outbox'[t], i) > 0
        BY <3>2, <3>5, <4>1
      <4> QED BY <2>1, <4>1, <4>3, <4>4, <4>5
    <3> QED BY <1>4, <3>6, <3>7
  <2>2. CASE ~(u = t /\ j = i)
    <3>1. adapter'[<<u, j>>] = adapter[<<u, j>>]
      BY <1>0, <1>1, <2>2
    <3>2. Occurrences(outbox[u], j) \in 0..Tried(u, adapter[<<u, j>>])
      BY DEF Counted
    <3>3. Tried(u, adapter[<<u, j>>]) \in Nat
      BY DEF Tried
    <3>4. Occurrences(outbox'[u], j) = Occurrences(outbox[u], j)
      BY <1>2, <2>2, <3>2, <3>3
    <3> QED BY <3>1, <3>2, <3>4 DEF Counted
  <2> QED BY <2>1, <2>2
<1>7. Counted'
  BY <1>6 DEF Counted
<1> QED BY <1>2, <1>3, <1>4, <1>5, <1>7

LEMMA IInvInit == Init => IInv
<1> SUFFICES ASSUME Init PROVE IInv
  OBVIOUS
<1>1. NotBegun /\ NotTold
  BY DEF Init, NotBegun, NotTold
<1>2. \A j \in Indices : Occurrences(<<>>, j) = 0
  <2>1. \A j : {k \in DOMAIN <<>> : <<>>[k] = j} = {}
    OBVIOUS
  <2> QED BY <2>1, FS_EmptySet DEF Occurrences
<1>3. Counted
  BY <1>2 DEF Init, Counted, Tried
<1> QED BY <1>1, <1>3, TypedInit DEF IInv

\* What a step does to the ledger and to the channels, and why the invariant
\* holds after it: one message arrives, or one is told of, or neither.
LEMMA StepSends ==
  ASSUME IInv, [Next]_vars
  PROVE  /\ IInv'
         /\ \/ UNCHANGED <<outbox, ledger>>
            \/ \E t \in Turns, i \in Indices : Attempt(t, i)
            \/ /\ UNCHANGED outbox
               /\ \E t \in Turns, i \in Indices, outcome \in {"success", "failed"} :
                    /\ ledger[<<t, i>>] = "nothing"
                    /\ outcome = "success" => Occurrences(outbox[t], i) > 0
                    /\ ledger' = [ledger EXCEPT ![<<t, i>>] = outcome]
<1> USE OutboundAssumption
<1>0. /\ Typed /\ TypeOK /\ NotBegun /\ NotTold /\ Counted
      /\ step \in [Turns -> {"idle", "thinking", "token", "call", "waiting", "done"}]
      /\ current \in [Turns -> Indices] /\ Indices \subseteq Int
      /\ adapter \in [Turns \X Indices -> {"none", "starting", "sending", "retrying", "sent", "raised"}]
      /\ ledger \in [Turns \X Indices -> {"nothing", "success", "failed"}]
  BY DEF IInv, Typed, TypeOK, Indices, ErrorText
<1>T. Typed'
  BY <1>0, TypedNext
<1>1. ASSUME NEW t \in Turns, Receive(t) \/ Fire(t)
      PROVE  (NotBegun /\ NotTold /\ Counted)' /\ UNCHANGED <<outbox, ledger>>
  <2>1. /\ UNCHANGED <<adapter, ledger, outbox, current>>
        /\ step[t] = "idle" /\ step' = [step EXCEPT ![t] = "thinking"]
    BY <1>1 DEF Receive, Fire, GoTo, seamVars
  <2> QED BY <1>0, <2>1, Undisturbed DEF ToCome
<1>2. ASSUME NEW t \in Turns, End(t) \/ Raise(t), step[t] \in {"thinking", "token", "call"},
             UNCHANGED <<adapter, ledger, outbox>>
      PROVE  (NotBegun /\ NotTold /\ Counted)' /\ UNCHANGED <<outbox, ledger>>
  <2>1. /\ \A u \in Turns, i \in Indices : ToCome(u, i)' => ToCome(u, i)
        /\ \A u \in Turns : step'[u] = "waiting" => u # t /\ step[u] = "waiting" /\ current'[u] = current[u]
    BY <1>0, <1>2, MovesForward
  <2> QED BY <1>0, <1>2, <2>1, Undisturbed
<1>3. ASSUME NEW t \in Turns, Answer(t) \/ AnswerFails(t)
      PROVE  (NotBegun /\ NotTold /\ Counted)' /\ UNCHANGED <<outbox, ledger>>
  <2>1. step[t] = "thinking" /\ UNCHANGED <<adapter, ledger, outbox>>
    BY <1>3 DEF Answer, AnswerFails, seamVars
  <2>2. CASE End(t) \/ Raise(t)
    BY <1>2, <2>1, <2>2
  <2>3. CASE StartSend(t, 0)
    <3>1. step' = [step EXCEPT ![t] = "token"] /\ current' = [current EXCEPT ![t] = 0]
      BY <2>3 DEF StartSend, GoTo
    <3> QED BY <1>0, <2>1, <3>1, Undisturbed DEF ToCome
  <2> QED BY <1>3, <2>2, <2>3, Zenon DEF Answer, AnswerFails
<1>4. ASSUME NEW t \in Turns, Token(t)
      PROVE  (NotBegun /\ NotTold /\ Counted)' /\ UNCHANGED <<outbox, ledger>>
  <2>1. step[t] = "token" /\ UNCHANGED <<adapter, ledger, outbox>>
    BY <1>4 DEF Token, seamVars
  <2>2. CASE GoTo(t, "call") /\ UNCHANGED <<current, cronVars>>
    <3>1. step' = [step EXCEPT ![t] = "call"] /\ UNCHANGED current
      BY <2>2 DEF GoTo
    <3> QED BY <1>0, <2>1, <3>1, Undisturbed DEF ToCome
  <2>3. CASE Raise(t)
    BY <1>2, <2>1, <2>3
  <2> QED BY <1>4, <2>2, <2>3 DEF Token
<1>5. ASSUME NEW t \in Turns, Call(t)
      PROVE  (NotBegun /\ NotTold /\ Counted)' /\ UNCHANGED <<outbox, ledger>>
  <2>1. step[t] = "call" /\ UNCHANGED <<ledger, outbox>>
    BY <1>5 DEF Call
  <2>2. CASE Raise(t) /\ UNCHANGED adapter
    BY <1>2, <2>1, <2>2
  <2>3. CASE /\ GoTo(t, "waiting")
             /\ adapter' = [adapter EXCEPT ![<<t, current[t]>>] = "starting"]
             /\ UNCHANGED <<current, cronVars>>
    <3>1. step' = [step EXCEPT ![t] = "waiting"] /\ UNCHANGED current
      BY <2>3 DEF GoTo
    <3>2. adapter[<<t, current[t]>>] = "none"
      BY <1>0, <2>1 DEF NotBegun, ToCome
    <3>3. NotBegun'
      <4>1. ASSUME NEW u \in Turns, NEW i \in Indices, ToCome(u, i)'
            PROVE  ToCome(u, i) /\ ~(u = t /\ i = current[t])
        BY <1>0, <2>1, <3>1, <4>1 DEF ToCome
      <4> QED BY <1>0, <2>3, <4>1 DEF NotBegun
    <3>4. NotTold'
      BY <1>0, <2>1, <2>3, <3>1, <3>2 DEF NotTold
    <3>5. Counted'
      BY <1>0, <2>1, <2>3, <3>2 DEF Counted, Tried
    <3> QED BY <2>1, <3>3, <3>4, <3>5
  <2> QED BY <1>5, <2>2, <2>3 DEF Call
<1>6. ASSUME NEW t \in Turns, NEW i \in Indices, Connect(t, i)
      PROVE  (NotBegun /\ NotTold /\ Counted)' /\ UNCHANGED <<outbox, ledger>>
  <2>1. /\ UNCHANGED <<step, current, ledger, outbox>>
        /\ adapter[<<t, i>>] = "starting"
        /\ adapter' = [adapter EXCEPT ![<<t, i>>] = "sending"]
    BY <1>6 DEF Connect
  <2>2. NotBegun' /\ NotTold'
    BY <1>0, <2>1 DEF NotBegun, NotTold, ToCome
  <2>3. \A u \in Turns, j \in Indices :
          /\ Tried(u, adapter'[<<u, j>>]) = Tried(u, adapter[<<u, j>>])
          /\ adapter'[<<u, j>>] \in {"sending", adapter[<<u, j>>]}
    BY <1>0, <2>1 DEF Tried
  <2>4. ASSUME NEW u \in Turns, NEW j \in Indices
        PROVE  /\ Occurrences(outbox'[u], j) \in 0..Tried(u, adapter'[<<u, j>>])
               /\ adapter'[<<u, j>>] = "retrying" => u \in Telegram
               /\ adapter'[<<u, j>>] = "sent" => Occurrences(outbox'[u], j) > 0
    <3>1. /\ Occurrences(outbox[u], j) \in 0..Tried(u, adapter[<<u, j>>])
          /\ adapter[<<u, j>>] = "retrying" => u \in Telegram
          /\ adapter[<<u, j>>] = "sent" => Occurrences(outbox[u], j) > 0
      BY <1>0 DEF Counted
    <3>2. outbox'[u] = outbox[u]
      BY <2>1
    <3> QED BY <2>3, <3>1, <3>2
  <2>5. Counted'
    BY <2>4 DEF Counted
  <2> QED BY <2>1, <2>2, <2>5
<1>7. ASSUME NEW t \in Turns, NEW i \in Indices, Attempt(t, i)
      PROVE  (NotBegun /\ NotTold /\ Counted)'
  <2>1. /\ UNCHANGED <<step, current, ledger>>
        /\ adapter[<<t, i>>] \in {"sending", "retrying"}
        /\ \E s \in {"sent", "retrying", "raised"} : adapter' = [adapter EXCEPT ![<<t, i>>] = s]
    BY <1>7 DEF Attempt, AfterError
  <2>2. NotBegun' /\ NotTold'
    BY <1>0, <2>1 DEF NotBegun, NotTold, ToCome
  <2> QED BY <1>0, <1>7, <2>2, AttemptCounts
<1>8. ASSUME NEW t \in Turns, Return(t) \/ TimeOut(t)
      PROVE  /\ (NotBegun /\ NotTold /\ Counted)'
             /\ UNCHANGED outbox
             /\ \E outcome \in {"success", "failed"} :
                  /\ ledger[<<t, current[t]>>] = "nothing"
                  /\ outcome = "success" => Occurrences(outbox[t], current[t]) > 0
                  /\ ledger' = [ledger EXCEPT ![<<t, current[t]>>] = outcome]
  <2>1. /\ step[t] = "waiting" /\ UNCHANGED <<adapter, outbox>>
        /\ NextBlock(t) \/ Raise(t)
    BY <1>8 DEF Return, TimeOut
  <2>2. PICK outcome \in {"success", "failed"} :
          /\ ledger' = [ledger EXCEPT ![<<t, current[t]>>] = outcome]
          /\ outcome = "success" => adapter[<<t, current[t]>>] = "sent"
    BY <1>8 DEF Return, TimeOut
  <2>3. ledger[<<t, current[t]>>] = "nothing" /\ adapter[<<t, current[t]>>] # "none"
    BY <1>0, <2>1 DEF NotTold
  <2>4. /\ \A u \in Turns, i \in Indices : ToCome(u, i)' => ToCome(u, i)
        /\ \A u \in Turns : step'[u] = "waiting" => u # t /\ step[u] = "waiting" /\ current'[u] = current[u]
    BY <1>0, <2>1, MovesForward
  <2>5. NotBegun'
    BY <1>0, <2>1, <2>4 DEF NotBegun
  <2>6. NotTold'
    BY <1>0, <2>1, <2>2, <2>3, <2>4 DEF NotTold
  <2>7. Counted'
    BY <1>0, <2>1 DEF Counted, Tried
  <2>8. outcome = "success" => Occurrences(outbox[t], current[t]) > 0
    BY <1>0, <2>2 DEF Counted
  <2> QED BY <2>1, <2>2, <2>3, <2>5, <2>6, <2>7, <2>8
<1>9. ASSUME UNCHANGED <<step, current, adapter, ledger, outbox>>
      PROVE  (NotBegun /\ NotTold /\ Counted)' /\ UNCHANGED <<outbox, ledger>>
  BY <1>0, <1>9, Undisturbed DEF ToCome
<1>10. ASSUME NEW j \in Jobs, RunnerTimesOut(j)
       PROVE  (NotBegun /\ NotTold /\ Counted)' /\ UNCHANGED <<outbox, ledger>>
  BY <1>9, <1>10 DEF RunnerTimesOut, seamVars
<1>11. CASE UNCHANGED vars
  BY <1>T, <1>9, <1>11 DEF vars, seamVars, IInv
<1>12. CASE \E t \in Turns : Return(t) \/ TimeOut(t)
  BY <1>0, <1>T, <1>8, <1>12 DEF IInv
<1>13. CASE \E t \in Turns : \/ Receive(t) \/ Fire(t)
                              \/ Answer(t) \/ AnswerFails(t) \/ Token(t) \/ Call(t)
  BY <1>T, <1>1, <1>3, <1>4, <1>5, <1>13 DEF IInv
<1>14. CASE \E t \in Turns, i \in Indices : Connect(t, i) \/ Attempt(t, i)
  BY <1>T, <1>6, <1>7, <1>14 DEF IInv
<1>15. CASE \E j \in Jobs : RunnerTimesOut(j)
  BY <1>T, <1>10, <1>15 DEF IInv
<1> QED BY <1>11, <1>12, <1>13, <1>14, <1>15 DEF Next, Step, Deliver, Terminated

-----------------------------------------------------------------------------
LEMMA Refines ==
  ASSUME IInv, [Next]_vars
  PROVE  [Promise!Next]_<<[m \in Turns \X Indices |-> Occurrences(outbox[m[1]], m[2])], ledger>>
<1> DEFINE arrivals == [m \in Turns \X Indices |-> Occurrences(outbox[m[1]], m[2])]
<1>0. Typed /\ Counted
  BY DEF IInv
<1>1. CASE UNCHANGED <<outbox, ledger>>
  BY <1>1
<1>2. ASSUME NEW t \in Turns, NEW i \in Indices, Attempt(t, i)
      PROVE  Promise!Post(<<t, i>>) \/ UNCHANGED <<arrivals, ledger>>
  <2>1. UNCHANGED ledger
    BY <1>2 DEF Attempt
  <2>2. Occurrences(outbox[t], i) < IF t \in Telegram THEN 2 ELSE 1
    BY <1>0, <1>2, AttemptCounts
  <2>3. \A u \in Turns, j \in Indices :
          Occurrences(outbox'[u], j) =
            Occurrences(outbox[u], j) + (IF outbox' # outbox /\ u = t /\ j = i THEN 1 ELSE 0)
    BY <1>0, <1>2, AttemptCounts
  <2>4. CASE outbox' = outbox
    BY <2>1, <2>4
  <2>5. CASE outbox' # outbox
    <3>1. \A u \in Turns, j \in Indices : Occurrences(outbox[u], j) \in Nat
      BY <1>0, OccurrencesOfAppend DEF Typed, TypeOK
    <3>2. \A m \in Turns \X Indices :
            arrivals'[m] = IF m = <<t, i>> THEN arrivals[m] + 1 ELSE arrivals[m]
      <4> SUFFICES ASSUME NEW m \in Turns \X Indices
                   PROVE  arrivals'[m] = IF m = <<t, i>> THEN arrivals[m] + 1 ELSE arrivals[m]
        OBVIOUS
      <4>1. PICK u \in Turns, j \in Indices : m = <<u, j>>
        OBVIOUS
      <4>2. arrivals[m] = Occurrences(outbox[u], j) /\ arrivals'[m] = Occurrences(outbox'[u], j)
        BY <4>1
      <4>3. m = <<t, i>> <=> u = t /\ j = i
        BY <4>1
      <4> HIDE DEF arrivals
      <4> QED BY <2>3, <2>5, <3>1, <4>2, <4>3
    <3>3. arrivals' = [arrivals EXCEPT ![<<t, i>>] = @ + 1]
      BY <3>2
    <3> QED BY <2>1, <2>2, <3>3 DEF Promise!Post
  <2> QED BY <2>4, <2>5
<1>3. ASSUME NEW t \in Turns, NEW i \in Indices, NEW outcome \in {"success", "failed"},
             UNCHANGED outbox,
             ledger[<<t, i>>] = "nothing",
             outcome = "success" => Occurrences(outbox[t], i) > 0,
             ledger' = [ledger EXCEPT ![<<t, i>>] = outcome]
      PROVE  Promise!Tell(<<t, i>>, outcome)
  BY <1>3 DEF Promise!Tell
<1> QED BY <1>1, <1>2, <1>3, StepSends DEF Promise!Next

\* effects.py, adapter.py: a message reaches its channel once, over Telegram twice
\* at most, and the ledger tells "success" of none that did not; for any turns,
\* blocks, threads, errors, timeouts and late answers.
THEOREM SentOnce == Spec => DeliversExactlyOnce
<1>1. Init => Promise!Init
  <2>1. \A j \in Indices : Occurrences(<<>>, j) = 0
    <3>1. \A j : {k \in DOMAIN <<>> : <<>>[k] = j} = {}
      OBVIOUS
    <3> QED BY <3>1, FS_EmptySet DEF Occurrences
  <2> QED BY <2>1 DEF Init, Promise!Init
<1> QED BY <1>1, IInvInit, StepSends, Refines, PTL DEF Spec, DeliversExactlyOnce, Promise!Spec

-----------------------------------------------------------------------------
Busy == {"starting", "sending", "retrying"}

\* An adapter is at work only on the message that its turn waits for.
OneAtWork ==
  \A t \in Turns \ late, i \in Indices :
    adapter[<<t, i>>] \in Busy => step[t] = "waiting" /\ i = current[t]

\* The scheduler's thread waits for a run that is under way, or gave it up.
RunnerWaits ==
  \A r \in Runs : step[r] \notin {"idle", "done"} => runner[JobOf[r]] = r \/ r \in givenUp

LEMMA WorkNext == Typed /\ OneAtWork /\ [Next]_vars => OneAtWork'
<1> SUFFICES ASSUME Typed, OneAtWork, [Next]_vars PROVE OneAtWork'
  OBVIOUS
<1> USE OutboundAssumption
<1>0. /\ TypeOK
      /\ step \in [Turns -> {"idle", "thinking", "token", "call", "waiting", "done"}]
      /\ current \in [Turns -> Indices]
      /\ adapter \in [Turns \X Indices -> {"none", "starting", "sending", "retrying", "sent", "raised"}]
  BY DEF Typed, TypeOK
<1>1. ASSUME NEW t \in Turns, step[t] # "waiting", UNCHANGED <<adapter, late>>,
             \E s : step' = [step EXCEPT ![t] = s], \E c : current' = [current EXCEPT ![t] = c]
      PROVE  OneAtWork'
  BY <1>0, <1>1 DEF OneAtWork
<1>2. ASSUME NEW t \in Turns, Receive(t) \/ Fire(t) PROVE OneAtWork'
  <2>1. current' = [current EXCEPT ![t] = current[t]]
    BY <1>0, <1>2 DEF Receive, Fire
  <2>2. step[t] # "waiting" /\ UNCHANGED <<adapter, late>> /\ step' = [step EXCEPT ![t] = "thinking"]
    BY <1>2 DEF Receive, Fire, GoTo, seamVars
  <2> QED BY <1>1, <2>1, <2>2
<1>3. ASSUME NEW t \in Turns, End(t) \/ Raise(t) \/ NextBlock(t), step[t] # "waiting", UNCHANGED <<adapter, late>>
      PROVE  OneAtWork'
  BY <1>0, <1>1, <1>3, Moves
<1>4. ASSUME NEW t \in Turns, Answer(t) \/ AnswerFails(t) PROVE OneAtWork'
  <2>1. step[t] # "waiting" /\ UNCHANGED <<adapter, late>>
    BY <1>4 DEF Answer, AnswerFails, seamVars
  <2>2. CASE StartSend(t, 0)
    BY <1>1, <2>1, <2>2 DEF StartSend, GoTo
  <2>3. CASE End(t) \/ Raise(t)
    BY <1>3, <2>1, <2>3
  <2> QED BY <1>4, <2>2, <2>3, Zenon DEF Answer, AnswerFails
<1>5. ASSUME NEW t \in Turns, Token(t) PROVE OneAtWork'
  <2>1. step[t] # "waiting" /\ UNCHANGED <<adapter, late>>
    BY <1>5 DEF Token, seamVars
  <2>2. CASE GoTo(t, "call") /\ UNCHANGED <<current, cronVars>>
    <3>1. current' = [current EXCEPT ![t] = current[t]]
      BY <1>0, <2>2
    <3> QED BY <1>1, <2>1, <2>2, <3>1 DEF GoTo
  <2> QED BY <1>3, <1>5, <2>1, <2>2 DEF Token
<1>6. ASSUME NEW t \in Turns, Call(t) PROVE OneAtWork'
  <2>1. step[t] = "call" /\ UNCHANGED late
    BY <1>6 DEF Call
  <2>2. CASE Raise(t) /\ UNCHANGED adapter
    BY <1>3, <2>1, <2>2
  <2>3. CASE /\ GoTo(t, "waiting")
             /\ adapter' = [adapter EXCEPT ![<<t, current[t]>>] = "starting"]
             /\ UNCHANGED <<current, cronVars>>
    BY <1>0, <2>1, <2>3 DEF GoTo, OneAtWork
  <2> QED BY <1>6, <2>2, <2>3 DEF Call
<1>7. ASSUME NEW t \in Turns, NEW i \in Indices, Connect(t, i) \/ Attempt(t, i) PROVE OneAtWork'
  <2>1. UNCHANGED <<step, current, late>> /\ adapter[<<t, i>>] \in Busy
    BY <1>7 DEF Connect, Attempt, Busy
  <2>2. \E s : adapter' = [adapter EXCEPT ![<<t, i>>] = s]
    BY <1>7 DEF Connect, Attempt
  <2> QED BY <1>0, <2>1, <2>2 DEF OneAtWork
<1>8. ASSUME NEW t \in Turns, Return(t) PROVE OneAtWork'
  <2>1. adapter[<<t, current[t]>>] \notin Busy /\ UNCHANGED <<adapter, late>>
    BY <1>8 DEF Return, Finished, Busy
  <2>2. NextBlock(t) \/ Raise(t)
    BY <1>8 DEF Return
  <2>3. /\ \E s : step' = [step EXCEPT ![t] = s]
        /\ \E c : current' = [current EXCEPT ![t] = c]
    BY <1>0, <2>2, Moves
  <2> QED BY <1>0, <2>1, <2>3 DEF OneAtWork
<1>9. ASSUME NEW t \in Turns, TimeOut(t) PROVE OneAtWork'
  <2>1. late' = late \cup {t} /\ UNCHANGED adapter /\ Raise(t)
    BY <1>9 DEF TimeOut
  <2>2. /\ \E s : step' = [step EXCEPT ![t] = s]
        /\ \E c : current' = [current EXCEPT ![t] = c]
    BY <1>0, <2>1, Moves
  <2> QED BY <1>0, <2>1, <2>2 DEF OneAtWork
<1>10. ASSUME NEW j \in Jobs, RunnerTimesOut(j) PROVE OneAtWork'
  BY <1>10 DEF RunnerTimesOut, seamVars, OneAtWork
<1>11. CASE UNCHANGED vars
  BY <1>11 DEF vars, seamVars, OneAtWork
<1> QED BY <1>2, <1>4, <1>5, <1>6, <1>7, <1>8, <1>9, <1>10, <1>11
     DEF Next, Step, Deliver, Terminated

\* effects.py: when a turn is over its adapter does nothing more for it, unless a
\* send of it timed out.
THEOREM QuietWhenOver == Spec => []OverMeansQuiet
<1>1. Init => OneAtWork
  BY DEF Init, OneAtWork, Busy
<1>2. Typed /\ OneAtWork => OverMeansQuiet
  BY DEF Typed, TypeOK, OneAtWork, Busy, OverMeansQuiet
<1> QED BY <1>1, <1>2, TypedInit, TypedNext, WorkNext, PTL DEF Spec

LEMMA RunnerNext == Typed /\ RunnerWaits /\ [Next]_vars => RunnerWaits'
<1> SUFFICES ASSUME Typed, RunnerWaits, [Next]_vars PROVE RunnerWaits'
  OBVIOUS
<1> USE OutboundAssumption
<1>0. /\ TypeOK
      /\ step \in [Turns -> {"idle", "thinking", "token", "call", "waiting", "done"}]
      /\ runner \in [Jobs -> Runs \cup {NoRun}]
      /\ \A r \in Runs : r \in Turns /\ JobOf[r] \in Jobs
  BY DEF Typed, TypeOK, Turns, Jobs
<1>1. ASSUME NEW t \in Turns, step[t] \notin {"idle", "done"} \/ t \notin Runs,
             \E s : step' = [step EXCEPT ![t] = s], UNCHANGED <<runner, givenUp>>
      PROVE  RunnerWaits'
  BY <1>0, <1>1 DEF RunnerWaits
<1>2. ASSUME NEW t \in Turns, Receive(t) PROVE RunnerWaits'
  BY <1>1, <1>2 DEF Receive, GoTo, cronVars
<1>3. ASSUME NEW t \in Turns, Fire(t) PROVE RunnerWaits'
  <2>1. /\ t \in Runs /\ runner[JobOf[t]] = NoRun
        /\ runner' = [runner EXCEPT ![JobOf[t]] = t]
        /\ step' = [step EXCEPT ![t] = "thinking"] /\ UNCHANGED givenUp
    BY <1>3 DEF Fire, RunnerFree, GoTo
  <2>2. ASSUME NEW r \in Runs, step'[r] \notin {"idle", "done"}
        PROVE  runner'[JobOf[r]] = r \/ r \in givenUp'
    <3>1. CASE r = t
      BY <1>0, <2>1, <3>1
    <3>2. CASE r # t
      <4>1. runner[JobOf[r]] = r \/ r \in givenUp
        BY <1>0, <2>1, <2>2, <3>2 DEF RunnerWaits
      <4>2. JobOf[r] = JobOf[t] => r \in givenUp
        BY <2>1, <4>1
      <4> QED BY <1>0, <2>1, <4>1, <4>2
    <3> QED BY <3>1, <3>2
  <2> QED BY <2>2 DEF RunnerWaits
<1>4. ASSUME NEW t \in Turns, End(t) \/ Raise(t) \/ NextBlock(t), step[t] \notin {"idle", "done"}
      PROVE  RunnerWaits'
  <2>1. CASE End(t)
    <3>1. /\ step' = [step EXCEPT ![t] = "done"] /\ UNCHANGED givenUp
          /\ \A j \in Jobs : runner[j] # t => runner'[j] = runner[j]
      BY <2>1 DEF End, GoTo
    <3> QED BY <1>0, <3>1 DEF RunnerWaits
  <2>2. CASE ~End(t)
    <3>1. \E i : StartSend(t, i)
      BY <1>4, <2>2 DEF Raise, NextBlock
    <3> QED BY <1>1, <1>4, <3>1 DEF StartSend, GoTo, cronVars
  <2> QED BY <2>1, <2>2
<1>5. ASSUME NEW t \in Turns, Answer(t) \/ AnswerFails(t) PROVE RunnerWaits'
  <2>1. step[t] \notin {"idle", "done"}
    BY <1>5 DEF Answer, AnswerFails
  <2>2. CASE StartSend(t, 0)
    BY <1>1, <2>1, <2>2 DEF StartSend, GoTo, cronVars
  <2>3. CASE End(t) \/ Raise(t)
    BY <1>4, <2>1, <2>3
  <2> QED BY <1>5, <2>2, <2>3, Zenon DEF Answer, AnswerFails
<1>6. ASSUME NEW t \in Turns, Token(t) \/ Call(t) PROVE RunnerWaits'
  <2>1. step[t] \notin {"idle", "done"}
    BY <1>6 DEF Token, Call
  <2>2. CASE (GoTo(t, "call") \/ GoTo(t, "waiting")) /\ UNCHANGED cronVars
    BY <1>1, <2>1, <2>2 DEF GoTo, cronVars
  <2> QED BY <1>4, <1>6, <2>1, <2>2 DEF Token, Call
<1>7. ASSUME NEW t \in Turns, Return(t) \/ TimeOut(t) PROVE RunnerWaits'
  <2>1. NextBlock(t) \/ Raise(t)
    BY <1>7 DEF Return, TimeOut
  <2>2. step[t] \notin {"idle", "done"}
    BY <1>7 DEF Return, TimeOut
  <2> QED BY <1>4, <2>1, <2>2
<1>8. ASSUME NEW j \in Jobs, RunnerTimesOut(j) PROVE RunnerWaits'
  <2>1. /\ givenUp' = givenUp \cup {runner[j]} /\ UNCHANGED step
        /\ runner' = [runner EXCEPT ![j] = NoRun]
    BY <1>8 DEF RunnerTimesOut
  <2> QED BY <1>0, <2>1 DEF RunnerWaits
<1>9. CASE UNCHANGED <<step, cronVars>>
  BY <1>9 DEF RunnerWaits, cronVars
<1>10. ASSUME NEW t \in Turns, NEW i \in Indices, Connect(t, i) \/ Attempt(t, i) PROVE RunnerWaits'
  BY <1>9, <1>10 DEF Connect, Attempt
<1>11. CASE UNCHANGED vars
  BY <1>9, <1>11 DEF vars
<1> QED BY <1>2, <1>3, <1>5, <1>6, <1>7, <1>8, <1>10, <1>11
     DEF Next, Step, Deliver, Terminated

\* manager.py: of two runs of a job under way together, one was given up by the
\* scheduler's thread.
THEOREM RunsStayApart == Spec => []RunsApart
<1>1. Init => RunnerWaits
  BY DEF Init, RunnerWaits, Turns
<1>2. RunnerWaits => RunsApart
  BY DEF RunnerWaits, RunsApart
<1> QED BY <1>1, <1>2, TypedInit, TypedNext, RunnerNext, PTL DEF Spec

-----------------------------------------------------------------------------
\* What arrived of a turn none of whose sends timed out is no further than the
\* block it is at, and in order.
Sorted ==
  /\ \A t \in Turns : step[t] \in {"idle", "thinking"} => current[t] = 0
  /\ \A t \in Turns \ late : \A k \in DOMAIN outbox[t] :
       current[t] # ErrorText => outbox[t][k] # ErrorText /\ outbox[t][k] <= current[t]
  /\ InOrder

\* A turn that moves goes on to a later block, or to the error text, or stays.
LEMMA MovesOn ==
  ASSUME TypeOK, NEW t \in Turns, End(t) \/ Raise(t) \/ NextBlock(t) \/ StartSend(t, 0),
         StartSend(t, 0) => current[t] = 0
  PROVE  /\ \E s \in {"token", "done"} : step' = [step EXCEPT ![t] = s]
         /\ \E i \in Indices :
              /\ current' = [current EXCEPT ![t] = i]
              /\ i = ErrorText \/ (current[t] # ErrorText /\ i >= current[t])
<1> USE OutboundAssumption
<1>0. /\ current[t] \in Indices /\ blocks[t] \in 0..MaxBlocks /\ ErrorText \in Indices /\ Indices \subseteq Int
      /\ current \in [Turns -> Indices]
  BY DEF TypeOK, Indices, ErrorText
<1>1. CASE End(t)
  <2>1. step' = [step EXCEPT ![t] = "done"] /\ current' = [current EXCEPT ![t] = current[t]]
    BY <1>0, <1>1 DEF End, GoTo
  <2>2. current[t] \in Int
    BY <1>0
  <2>3. current[t] >= current[t]
    BY <2>2
  <2> QED BY <1>0, <2>1, <2>3
<1>2. ASSUME NEW i \in Indices, StartSend(t, i), i = ErrorText \/ (current[t] # ErrorText /\ i >= current[t])
      PROVE  /\ \E s \in {"token", "done"} : step' = [step EXCEPT ![t] = s]
             /\ \E j \in Indices : /\ current' = [current EXCEPT ![t] = j]
                                   /\ j = ErrorText \/ (current[t] # ErrorText /\ j >= current[t])
  BY <1>2 DEF StartSend, GoTo
<1>3. CASE Raise(t)
  BY <1>0, <1>1, <1>2, <1>3 DEF Raise
<1>4. CASE NextBlock(t) /\ ~End(t)
  <2>1. current[t] # ErrorText /\ ~IsLast(current[t], blocks[t]) /\ StartSend(t, current[t] + 1)
    BY <1>4 DEF NextBlock
  <2>2. current[t] + 1 \in Indices /\ current[t] + 1 >= current[t]
    BY <1>0, <2>1 DEF IsLast, Indices, ErrorText
  <2> QED BY <1>2, <2>1, <2>2
<1>5. CASE StartSend(t, 0)
  <2>1. 0 \in Indices /\ 0 # ErrorText
    BY DEF Indices, ErrorText
  <2> QED BY <1>2, <1>5, <2>1
<1> QED BY <1>1, <1>3, <1>4, <1>5

\* A channel holds indices.
LEMMA Entries ==
  ASSUME outbox \in [Turns -> Seq(Indices)], NEW t \in Turns
  PROVE  /\ Len(outbox[t]) \in Nat /\ DOMAIN outbox[t] = 1..Len(outbox[t])
         /\ \A k \in DOMAIN outbox[t] : outbox[t][k] \in Indices
OBVIOUS

LEMMA SortedNext == Typed /\ OneAtWork /\ Sorted /\ [Next]_vars => Sorted'
<1> SUFFICES ASSUME Typed, OneAtWork, Sorted, [Next]_vars PROVE Sorted'
  OBVIOUS
<1> USE OutboundAssumption
<1>0. /\ TypeOK
      /\ step \in [Turns -> {"idle", "thinking", "token", "call", "waiting", "done"}]
      /\ current \in [Turns -> Indices] /\ Indices \subseteq Int /\ ErrorText \in Int
      /\ outbox \in [Turns -> Seq(Indices)]
  BY DEF Typed, TypeOK, Indices, ErrorText
<1>1. ASSUME NEW t \in Turns, NEW s, step' = [step EXCEPT ![t] = s], UNCHANGED <<current, outbox>>,
             late \subseteq late', step[t] \in {"idle", "thinking"} \/ s \notin {"idle", "thinking"}
      PROVE  Sorted'
  BY <1>0, <1>1 DEF Sorted, InOrder
<1>2. ASSUME NEW t \in Turns, End(t) \/ Raise(t) \/ NextBlock(t) \/ StartSend(t, 0),
             StartSend(t, 0) => current[t] = 0, UNCHANGED outbox, late \subseteq late'
      PROVE  Sorted'
  <2>1. PICK s \in {"token", "done"} : step' = [step EXCEPT ![t] = s]
    BY <1>0, <1>2, MovesOn
  <2>2. PICK i \in Indices : /\ current' = [current EXCEPT ![t] = i]
                             /\ i = ErrorText \/ (current[t] # ErrorText /\ i >= current[t])
    BY <1>0, <1>2, MovesOn
  <2>3. \A u \in Turns : step'[u] \in {"idle", "thinking"} => current'[u] = 0
    BY <1>0, <2>1, <2>2 DEF Sorted
  <2>4. ASSUME NEW u \in Turns \ late', NEW k \in DOMAIN outbox[u], current'[u] # ErrorText
        PROVE  outbox[u][k] # ErrorText /\ outbox[u][k] <= current'[u]
    <3>1. u \in Turns \ late /\ outbox[u][k] \in Int
      BY <1>0, <1>2, Entries
    <3>2. CASE u = t
      <4>1. current'[t] = i /\ current[t] # ErrorText /\ i >= current[t] /\ i \in Int /\ current[t] \in Int
        BY <1>0, <2>2, <2>4, <3>2
      <4>2. outbox[u][k] # ErrorText /\ outbox[u][k] <= current[t]
        BY <3>1, <3>2, <4>1 DEF Sorted
      <4> QED BY <3>1, <3>2, <4>1, <4>2
    <3>3. CASE u # t
      BY <1>0, <2>2, <2>4, <3>1, <3>3 DEF Sorted
    <3> QED BY <3>2, <3>3
  <2>5. InOrder'
    BY <1>2 DEF Sorted, InOrder
  <2> QED BY <1>2, <2>3, <2>4, <2>5 DEF Sorted
<1>3. ASSUME NEW t \in Turns, Receive(t) \/ Fire(t) PROVE Sorted'
  <2>1. step' = [step EXCEPT ![t] = "thinking"] /\ step[t] = "idle" /\ UNCHANGED <<current, outbox, late>>
    BY <1>3 DEF Receive, Fire, GoTo, seamVars
  <2> QED BY <1>1, <2>1
<1>4. ASSUME NEW t \in Turns, Answer(t) \/ AnswerFails(t) PROVE Sorted'
  <2>1. step[t] = "thinking" /\ UNCHANGED <<outbox, late>>
    BY <1>4 DEF Answer, AnswerFails, seamVars
  <2>2. End(t) \/ Raise(t) \/ StartSend(t, 0)
    BY <1>4, Zenon DEF Answer, AnswerFails
  <2>3. current[t] = 0
    BY <2>1 DEF Sorted
  <2> QED BY <1>2, <2>1, <2>2, <2>3
<1>5. ASSUME NEW t \in Turns, Token(t) \/ Call(t) \/ Return(t) \/ TimeOut(t) PROVE Sorted'
  <2>1. UNCHANGED outbox /\ late \subseteq late' /\ step[t] \in {"token", "call", "waiting"}
    BY <1>5 DEF Token, Call, Return, TimeOut, seamVars
  <2>2. CASE End(t) \/ Raise(t) \/ NextBlock(t)
    <3>1. StartSend(t, 0) => current[t] = 0
      <4>1. SUFFICES ASSUME StartSend(t, 0) PROVE current[t] = 0
        OBVIOUS
      <4>2. current'[t] = 0 /\ step'[t] = "token"
        BY <1>0, <4>1 DEF StartSend, GoTo
      <4>3. ~End(t)
        BY <1>0, <4>2 DEF End, GoTo
      <4>4. current'[t] = ErrorText \/ current'[t] = current[t] + 1
        BY <1>0, <2>2, <4>3 DEF Raise, NextBlock, StartSend
      <4>5. current[t] = ErrorText
        <5>1. current[t] \in Int
          BY <1>0
        <5> QED BY <4>2, <4>4, <5>1 DEF ErrorText
      <4> QED BY <2>2, <4>3, <4>5 DEF Raise, NextBlock
    <3> QED BY <1>2, <2>1, <2>2, <3>1
  <2>3. CASE (GoTo(t, "call") \/ GoTo(t, "waiting")) /\ UNCHANGED current
    BY <1>1, <2>1, <2>3 DEF GoTo
  <2> QED BY <1>5, <2>2, <2>3 DEF Token, Call, Return, TimeOut
<1>6. ASSUME NEW t \in Turns, NEW i \in Indices, Connect(t, i) PROVE Sorted'
  BY <1>6 DEF Connect, Sorted, InOrder
<1>7. ASSUME NEW t \in Turns, NEW i \in Indices, Attempt(t, i) PROVE Sorted'
  <2>1. UNCHANGED <<step, current, late>> /\ adapter[<<t, i>>] \in Busy
    BY <1>7 DEF Attempt, Busy
  <2>2. CASE outbox' = outbox
    BY <2>1, <2>2 DEF Sorted, InOrder
  <2>3. CASE outbox' = [outbox EXCEPT ![t] = Append(@, i)]
    <3>1. /\ outbox'[t] = Append(outbox[t], i)
          /\ \A u \in Turns : u # t => outbox'[u] = outbox[u]
      BY <1>0, <2>3
    <3>2. /\ Len(outbox[t]) \in Nat /\ DOMAIN outbox[t] = 1..Len(outbox[t])
          /\ DOMAIN Append(outbox[t], i) = 1..(Len(outbox[t]) + 1)
          /\ \A k \in 1..Len(outbox[t]) : Append(outbox[t], i)[k] = outbox[t][k]
          /\ Append(outbox[t], i)[Len(outbox[t]) + 1] = i
          /\ \A k \in 1..Len(outbox[t]) : outbox[t][k] \in Int
      <4>1. outbox[t] \in Seq(Indices) /\ Len(outbox[t]) \in Nat /\ DOMAIN outbox[t] = 1..Len(outbox[t])
        BY <1>0, Entries
      <4>2. \A k \in 1..Len(outbox[t]) : outbox[t][k] \in Int
        BY <1>0, <4>1, Entries
      <4> QED BY <4>1, <4>2
    <3>3. t \notin late => i = current[t]
      BY <2>1 DEF OneAtWork
    <3>4. ASSUME NEW u \in Turns \ late, NEW k \in DOMAIN outbox'[u], current[u] # ErrorText
          PROVE  outbox'[u][k] # ErrorText /\ outbox'[u][k] <= current[u]
      <4>1. CASE u # t
        BY <3>1, <3>4, <4>1 DEF Sorted
      <4>2. CASE u = t /\ k = Len(outbox[t]) + 1
        BY <1>0, <3>1, <3>2, <3>3, <3>4, <4>2
      <4>3. CASE u = t /\ k # Len(outbox[t]) + 1
        <5>1. k \in 1..Len(outbox[t])
          BY <3>1, <3>2, <4>3
        <5> QED BY <3>1, <3>2, <3>4, <4>3, <5>1 DEF Sorted
      <4> QED BY <4>1, <4>2, <4>3
    <3>5. ASSUME NEW u \in Turns \ late, NEW k \in DOMAIN outbox'[u], NEW l \in DOMAIN outbox'[u], k < l
          PROVE  \/ outbox'[u][l] = ErrorText
                 \/ outbox'[u][k] # ErrorText /\ outbox'[u][k] <= outbox'[u][l]
      <4>1. CASE u # t
        BY <3>1, <3>5, <4>1 DEF Sorted, InOrder
      <4>2. CASE u = t /\ l = Len(outbox[t]) + 1
        <5>1. k \in 1..Len(outbox[t])
          BY <3>1, <3>2, <3>5, <4>2
        <5>2. outbox'[t][l] = current[t] /\ outbox'[t][k] = outbox[t][k]
          BY <3>1, <3>2, <3>3, <4>2, <5>1
        <5>3. current[t] # ErrorText => outbox[t][k] # ErrorText /\ outbox[t][k] <= current[t]
          BY <3>2, <4>2, <5>1 DEF Sorted
        <5> QED BY <4>2, <5>2, <5>3
      <4>3. CASE u = t /\ l # Len(outbox[t]) + 1
        <5>1. k \in 1..Len(outbox[t]) /\ l \in 1..Len(outbox[t])
          BY <3>1, <3>2, <3>5, <4>3
        <5> QED BY <3>1, <3>2, <3>5, <4>3, <5>1 DEF Sorted, InOrder
      <4> QED BY <4>1, <4>2, <4>3
    <3>6. InOrder'
      BY <2>1, <3>5 DEF InOrder
    <3> QED BY <2>1, <3>4, <3>6 DEF Sorted
  <2> QED BY <1>7, <2>2, <2>3 DEF Attempt
<1>8. ASSUME NEW j \in Jobs, RunnerTimesOut(j) PROVE Sorted'
  BY <1>8 DEF RunnerTimesOut, seamVars, Sorted, InOrder
<1>9. CASE UNCHANGED vars
  BY <1>9 DEF vars, seamVars, Sorted, InOrder
<1> QED BY <1>3, <1>4, <1>5, <1>6, <1>7, <1>8, <1>9
     DEF Next, Step, Deliver, Terminated

\* server.py _run_turn: the blocks of an answer reach the channel in order and the
\* error text after them, for any number of blocks, turns, threads and retries.
THEOREM SentInOrder == Spec => []InOrder
<1>1. Init => OneAtWork /\ Sorted
  BY DEF Init, OneAtWork, Busy, Sorted, InOrder
<1>2. Sorted => InOrder
  BY DEF Sorted
<1> QED BY <1>1, <1>2, TypedInit, TypedNext, WorkNext, SortedNext, PTL DEF Spec

-----------------------------------------------------------------------------
\* The blocks before the one a turn is at have arrived, if it reports no error;
\* when the turn is over, all of them.
Reached(t) ==
  IF step[t] = "done" THEN \A i \in 0..(blocks[t] - 1) : i \in Arrived(t)
  ELSE \A i \in 0..(current[t] - 1) : i \in Arrived(t)

Forward == \A t \in Messages : current[t] # ErrorText => Reached(t)

\* What has arrived stays, and what its adapter sent has arrived.
LEMMA ArrivedGrows ==
  ASSUME Typed, [Next]_vars, NEW t \in Turns
  PROVE  Arrived(t) \subseteq Arrived(t)'
<1> USE OutboundAssumption
<1>0. outbox \in [Turns -> Seq(Indices)]
  BY DEF Typed, TypeOK
<1>1. CASE outbox' = outbox
  BY <1>1 DEF Arrived
<1>2. ASSUME NEW u \in Turns, NEW i \in Indices, outbox' = [outbox EXCEPT ![u] = Append(@, i)]
      PROVE  Arrived(t) \subseteq Arrived(t)'
  <2>1. outbox'[t] = IF t = u THEN Append(outbox[t], i) ELSE outbox[t]
    BY <1>0, <1>2
  <2>2. outbox[t] \in Seq(Indices) /\ Len(outbox[t]) \in Nat /\ DOMAIN outbox[t] = 1..Len(outbox[t])
    BY <1>0, Entries
  <2>3. /\ DOMAIN Append(outbox[t], i) = 1..(Len(outbox[t]) + 1)
        /\ \A k \in 1..Len(outbox[t]) : Append(outbox[t], i)[k] = outbox[t][k]
    BY <2>2
  <2>4. \A k \in DOMAIN outbox[t] : k \in DOMAIN outbox'[t] /\ outbox'[t][k] = outbox[t][k]
    BY <2>1, <2>2, <2>3
  <2> QED BY <2>4 DEF Arrived
<1>3. \/ outbox' = outbox
      \/ \E u \in Turns, i \in Indices : outbox' = [outbox EXCEPT ![u] = Append(@, i)]
  BY DEF Next, Step, Deliver, Terminated, Receive, Fire, Answer, AnswerFails, Token, Call, Return,
         TimeOut, Connect, Attempt, RunnerTimesOut, vars, seamVars
<1> QED BY <1>1, <1>2, <1>3

LEMMA SentHasArrived ==
  ASSUME Counted, NEW t \in Turns, NEW i \in Indices, adapter[<<t, i>>] = "sent"
  PROVE  i \in Arrived(t)
<1>1. Occurrences(outbox[t], i) > 0
  BY DEF Counted
<1>2. {k \in DOMAIN outbox[t] : outbox[t][k] = i} # {}
  <2>1. SUFFICES ASSUME {k \in DOMAIN outbox[t] : outbox[t][k] = i} = {} PROVE FALSE
    OBVIOUS
  <2>2. Occurrences(outbox[t], i) = 0
    BY <2>1, FS_EmptySet DEF Occurrences
  <2> QED BY <1>1, <2>2
<1> QED BY <1>2 DEF Arrived

LEMMA ForwardNext == IInv /\ Sorted /\ Forward /\ [Next]_vars => Forward'
<1> SUFFICES ASSUME IInv, Sorted, Forward, [Next]_vars PROVE Forward'
  OBVIOUS
<1> USE OutboundAssumption
<1>0. /\ Typed /\ TypeOK /\ Counted
      /\ step \in [Turns -> {"idle", "thinking", "token", "call", "waiting", "done"}]
      /\ current \in [Turns -> Indices] /\ Indices \subseteq Int /\ ErrorText \notin Nat
      /\ blocks \in [Turns -> 0..MaxBlocks] /\ Messages \subseteq Turns
  BY DEF IInv, Typed, TypeOK, Indices, ErrorText, Turns
<1>A. \A t \in Turns : Arrived(t) \subseteq Arrived(t)'
  BY <1>0, ArrivedGrows
\* A turn that is not over and does not end keeps what it has reached.
<1>1. ASSUME NEW t \in Turns, current'[t] = current[t], t \in Messages, current'[t] # ErrorText,
             \/ step[t] # "done" /\ step'[t] # "done"
             \/ step'[t] = step[t] /\ blocks'[t] = blocks[t]
      PROVE  Reached(t)'
  <2>1. Reached(t)
    BY <1>1 DEF Forward
  <2> QED BY <1>1, <1>A, <2>1 DEF Reached
<1>2. ASSUME NEW t \in Turns, \E s : step' = [step EXCEPT ![t] = s],
             \E i : current' = [current EXCEPT ![t] = i],
             UNCHANGED blocks \/ \E n : blocks' = [blocks EXCEPT ![t] = n],
             t \in Messages /\ current'[t] # ErrorText => Reached(t)'
      PROVE  Forward'
  <2>1. ASSUME NEW u \in Messages, current'[u] # ErrorText, u # t PROVE Reached(u)'
    <3>1. current'[u] = current[u] /\ step'[u] = step[u] /\ blocks'[u] = blocks[u] /\ u \in Turns
      BY <1>0, <1>2, <2>1
    <3> QED BY <1>1, <2>1, <3>1
  <2> QED BY <1>2, <2>1 DEF Forward
<1>3. ASSUME NEW t \in Turns, UNCHANGED blocks, Raise(t) PROVE Forward'
  <2>1. t \in Messages => current'[t] = ErrorText
    BY <1>0, <1>3 DEF Raise, End, StartSend
  <2>2. /\ \E s : step' = [step EXCEPT ![t] = s]
        /\ \E i : current' = [current EXCEPT ![t] = i]
    BY <1>0, <1>3, Moves
  <2> QED BY <1>2, <1>3, <2>1, <2>2
<1>4. ASSUME NEW t \in Turns, NEW s \in {"thinking", "call", "waiting"}, step' = [step EXCEPT ![t] = s],
             step[t] # "done", UNCHANGED <<current, blocks>>
      PROVE  Forward'
  <2>1. current' = [current EXCEPT ![t] = current[t]]
    BY <1>0, <1>4
  <2>2. current'[t] = current[t] /\ step'[t] # "done"
    BY <1>0, <1>4
  <2>3. t \in Messages /\ current'[t] # ErrorText => Reached(t)'
    BY <1>1, <1>4, <2>2
  <2> QED BY <1>2, <1>4, <2>1, <2>3
<1>5. ASSUME NEW t \in Turns, Receive(t) \/ Fire(t) PROVE Forward'
  BY <1>4, <1>5 DEF Receive, Fire, GoTo
<1>6. ASSUME NEW t \in Turns, Answer(t) PROVE Forward'
  <2>1. PICK n \in 0..MaxBlocks :
          /\ blocks' = [blocks EXCEPT ![t] = n]
          /\ IF n = 0 THEN End(t) ELSE StartSend(t, 0)
    <3>1. PICK n \in IF t \in Messages THEN 0..MaxBlocks ELSE {0, 1} :
            /\ blocks' = [blocks EXCEPT ![t] = n]
            /\ IF n = 0 THEN End(t) ELSE StartSend(t, 0)
      BY <1>6, Zenon DEF Answer
    <3>2. n \in 0..MaxBlocks
      BY <3>1
    <3> QED BY <3>1, <3>2, Zenon
  <2>2. blocks'[t] = n
    BY <1>0, <2>1
  <2>3. CASE n = 0
    <3>1. step' = [step EXCEPT ![t] = "done"] /\ current' = [current EXCEPT ![t] = current[t]]
      BY <1>0, <2>1, <2>3 DEF End, GoTo
    <3>2. step'[t] = "done"
      BY <1>0, <3>1
    <3>3. Reached(t)'
      BY <2>2, <2>3, <3>2 DEF Reached
    <3> QED BY <1>2, <2>1, <3>1, <3>3
  <2>4. CASE n # 0
    <3>1. step' = [step EXCEPT ![t] = "token"] /\ current' = [current EXCEPT ![t] = 0]
      BY <2>1, <2>4 DEF StartSend, GoTo
    <3>2. step'[t] = "token" /\ current'[t] = 0
      BY <1>0, <3>1
    <3>3. Reached(t)'
      BY <3>2 DEF Reached
    <3> QED BY <1>2, <2>1, <3>1, <3>3
  <2> QED BY <2>3, <2>4
<1>7. ASSUME NEW t \in Turns, AnswerFails(t) \/ TimeOut(t) PROVE Forward'
  BY <1>3, <1>7 DEF AnswerFails, TimeOut
<1>8. ASSUME NEW t \in Turns, Token(t) \/ Call(t) PROVE Forward'
  <2>1. UNCHANGED blocks /\ step[t] # "done"
    BY <1>8 DEF Token, Call
  <2>2. CASE (GoTo(t, "call") \/ GoTo(t, "waiting")) /\ UNCHANGED current
    BY <1>4, <2>1, <2>2 DEF GoTo
  <2> QED BY <1>3, <1>8, <2>1, <2>2 DEF Token, Call
<1>9. ASSUME NEW t \in Turns, Return(t) PROVE Forward'
  <2>1. step[t] = "waiting" /\ UNCHANGED blocks
    BY <1>9 DEF Return
  <2>2. CASE adapter[<<t, current[t]>>] = "sent" /\ NextBlock(t)
    <3>1. current[t] \in Arrived(t)
      BY <1>0, <2>2, SentHasArrived
    <3>2. ASSUME t \in Messages, current[t] # ErrorText
          PROVE  /\ \A i \in 0..current[t] : i \in Arrived(t)'
                 /\ current[t] \in Nat
      <4>1. \A i \in 0..(current[t] - 1) : i \in Arrived(t)
        BY <2>1, <3>2 DEF Forward, Reached
      <4>2. current[t] \in Nat
        BY <1>0, <3>2 DEF Indices, ErrorText
      <4> QED BY <1>A, <3>1, <4>1, <4>2
    <3>3. CASE End(t)
      <4>1. step' = [step EXCEPT ![t] = "done"] /\ current' = [current EXCEPT ![t] = current[t]]
        BY <1>0, <3>3 DEF End, GoTo
      <4>2. step'[t] = "done" /\ current'[t] = current[t] /\ blocks'[t] = blocks[t]
        BY <1>0, <2>1, <4>1
      <4>3. ASSUME t \in Messages, current'[t] # ErrorText PROVE Reached(t)'
        <5>1. current[t] + 1 >= blocks[t]
          <6>1. ~StartSend(t, current[t] + 1)
            BY <1>0, <4>1 DEF StartSend, GoTo
          <6> QED BY <2>2, <4>2, <4>3, <6>1 DEF NextBlock, IsLast
        <5>2. blocks[t] \in Nat
          BY <1>0
        <5>3. 0..(blocks[t] - 1) \subseteq 0..current[t]
          BY <3>2, <4>2, <4>3, <5>1, <5>2
        <5> QED BY <3>2, <4>2, <4>3, <5>3 DEF Reached
      <4> QED BY <1>2, <2>1, <4>1, <4>3
    <3>4. CASE ~End(t)
      <4>1. /\ step' = [step EXCEPT ![t] = "token"]
            /\ current' = [current EXCEPT ![t] = current[t] + 1] /\ current[t] # ErrorText
        BY <2>2, <3>4 DEF NextBlock, StartSend, GoTo
      <4>2. step'[t] = "token" /\ current'[t] = current[t] + 1
        BY <1>0, <4>1
      <4>3. ASSUME t \in Messages PROVE Reached(t)'
        <5>1. 0..(current'[t] - 1) = 0..current[t]
          BY <3>2, <4>1, <4>2, <4>3
        <5> QED BY <3>2, <4>1, <4>2, <4>3, <5>1 DEF Reached
      <4> QED BY <1>2, <2>1, <4>1, <4>3
    <3> QED BY <3>3, <3>4
  <2> QED BY <1>3, <1>9, <2>1, <2>2 DEF Return
<1>10. CASE UNCHANGED <<step, current, blocks>>
  BY <1>0, <1>1, <1>10 DEF Forward
<1>11. CASE \E t \in Turns, i \in Indices : Connect(t, i) \/ Attempt(t, i)
  BY <1>10, <1>11 DEF Connect, Attempt
<1>12. CASE \E j \in Jobs : RunnerTimesOut(j)
  BY <1>10, <1>12 DEF RunnerTimesOut
<1>13. CASE UNCHANGED vars
  BY <1>10, <1>13 DEF vars
<1> QED BY <1>5, <1>6, <1>7, <1>8, <1>9, <1>11, <1>12, <1>13
     DEF Next, Step, Deliver, Terminated

\* server.py _run_turn: a turn that ends without the error text has sent every
\* block of its answer.
THEOREM SentWhole == Spec => []CompleteUnlessReported
<1>1. Init => OneAtWork /\ Sorted /\ Forward
  <2>1. Init => OneAtWork /\ Sorted
    BY DEF Init, OneAtWork, Busy, Sorted, InOrder
  <2>2. Messages \subseteq Turns
    BY DEF Turns
  <2>3. Init => Forward
    BY <2>2 DEF Init, Forward, Reached
  <2> QED BY <2>1, <2>3
<1>2. Forward => CompleteUnlessReported
  BY DEF Forward, Reached, CompleteUnlessReported
<1>3. IInv => Typed
  BY DEF IInv
<1>4. IInv /\ [Next]_vars => IInv'
  BY StepSends
<1> QED BY <1>1, <1>2, <1>3, <1>4, IInvInit, WorkNext, SortedNext, ForwardNext, PTL DEF Spec
=============================================================================
