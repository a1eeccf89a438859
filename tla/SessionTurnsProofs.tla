------------------------- MODULE SessionTurnsProofs -------------------------
(* Theorems about SessionTurns, for every set of sessions and tasks and     *)
(* every setting of the thresholds.                                         *)
EXTENDS SessionTurns, TLAPS

LEMMA CutPointRange ==
  ASSUME NEW h \in Seq(Message)
  PROVE  CutPoint(h) \in 0..Len(h)
  BY SizesAssumption DEF CutPoint

LEMMA CompactedType ==
  ASSUME NEW h \in Seq(Message), h # <<>>, NEW t \in Tasks, NEW ok \in BOOLEAN
  PROVE  Compacted(h, t, ok) \in Seq(Message)
<1>1. CutPoint(h) \in 0..Len(h)
  BY CutPointRange
<1>2. /\ RecentPart(h) \in Seq(Message)
      /\ OldPart(h) \in Seq(Message)
      /\ Len(OldPart(h)) = CutPoint(h)
  BY <1>1 DEF RecentPart, OldPart
<1>3. h[1] \in Message
  OBVIOUS
<1>4. Summary(h, t, ok) \in Message
  <2>1. CASE OldPart(h) = <<>>
    BY <1>3, <2>1 DEF Summary, Message
  <2>2. CASE OldPart(h) # <<>>
    <3>1. OldPart(h)[1] \in Message /\ OldPart(h)[Len(OldPart(h))] \in Message
      BY <1>2, <2>2
    <3>2. QED
      BY <3>1, <2>2 DEF Summary, Message
  <2>3. QED
    BY <2>1, <2>2
<1>5. QED
  BY <1>2, <1>4 DEF Compacted

LEMMA PrunedType ==
  ASSUME NEW h \in Seq(Message)
  PROVE  Pruned(h) \in Seq(Message)
  BY SizesAssumption DEF Pruned
-----------------------------------------------------------------------------
(* Type correctness.                                                       *)

\* A task that compacts has a snapshot to compact.
HasSnapshot == \A t \in Tasks : pc[t] = "compacting" => prompt[t] # <<>>

TypeInv == TypeOK /\ HasSnapshot

LEMMA TakeQuestionType ==
  ASSUME TypeInv, NEW t \in Tasks, TakeQuestion(t)
  PROVE  /\ pc' \in [Tasks -> Pc]
         /\ history' \in [Sessions -> Seq(Message)]
         /\ prompt' \in [Tasks -> Seq(Message)]
         /\ log' \in [Sessions -> Seq(Entry)]
         /\ events' \in [Tasks -> SUBSET Event]
         /\ HasSnapshot'
<1> DEFINE s == SessionOf[t]
           h == Append(history[s], Said(s, "user", t))
<1>1. s \in Sessions
  BY TasksAssumption
<1>2. Said(s, "user", t) \in Message
  BY <1>1 DEF Said, Message, TypeInv, TypeOK
<1>3. h \in Seq(Message) /\ h # <<>>
  <2>1. history[s] \in Seq(Message)
    BY <1>1 DEF TypeInv, TypeOK
  <2>2. QED
    BY <1>2, <2>1
<1>4. Pruned(h) \in Seq(Message)
  BY <1>3, PrunedType
<1>5. StartEvents(t) \in SUBSET Event
  BY DEF StartEvents, Event
<1>6. [role |-> "user", task |-> t] \in Entry
  BY DEF Entry
<1>7. log' \in [Sessions -> Seq(Entry)] /\ prompt' = [prompt EXCEPT ![t] = h]
  <2>1. /\ log' = [log EXCEPT ![s] = Append(@, [role |-> "user", task |-> t])]
        /\ prompt' = [prompt EXCEPT ![t] = h]
    BY DEF TakeQuestion
  <2>2. Append(log[s], [role |-> "user", task |-> t]) \in Seq(Entry)
    BY <1>1, <1>6 DEF TypeInv, TypeOK
  <2>3. QED
    BY <2>1, <2>2, <1>1 DEF TypeInv, TypeOK
<1>8. CASE NeedsCompaction(h)
  <2>1. /\ pc' = [pc EXCEPT ![t] = "compacting"]
        /\ history' = [history EXCEPT ![s] = h]
        /\ events' = events
    BY <1>8 DEF TakeQuestion
  <2>2. HasSnapshot'
    BY <2>1, <1>3, <1>7 DEF HasSnapshot, TypeInv, TypeOK
  <2>3. QED
    BY <2>1, <2>2, <1>1, <1>3, <1>7 DEF TypeInv, TypeOK, Pc
<1>9. CASE ~NeedsCompaction(h)
  <2>1. /\ pc' = [pc EXCEPT ![t] = "thinking"]
        /\ history' = [history EXCEPT ![s] = Pruned(h)]
        /\ events' = [events EXCEPT ![t] = StartEvents(t)]
    BY <1>9 DEF TakeQuestion
  <2>2. HasSnapshot'
    BY <2>1, <1>7 DEF HasSnapshot, TypeInv, TypeOK
  <2>3. history' \in [Sessions -> Seq(Message)]
    BY <2>1, <1>1, <1>4 DEF TypeInv, TypeOK
  <2>4. events' \in [Tasks -> SUBSET Event]
    BY <2>1, <1>5 DEF TypeInv, TypeOK
  <2>5. QED
    BY <2>1, <2>2, <2>3, <2>4, <1>3, <1>7 DEF TypeInv, TypeOK, Pc
<1>10. QED
  BY <1>8, <1>9
LEMMA ApproachType ==
  ASSUME TypeInv, NEW t \in Inbound, Approach(t), spawned' \in Seq(Inbound),
         arrivals' \in Seq(Inbound), UNCHANGED <<convVars, memVars, outVars, resets>>
  PROVE  TypeInv'
<1>s. t \in Tasks /\ \A u \in Tasks : SessionOf[u] \in Sessions
  BY TasksAssumption DEF Tasks
<1>1. taken' \in Seq(Inbound)
  BY DEF Approach, TypeInv, TypeOK
<1>2. CASE pc' = [pc EXCEPT ![t] = "dropped"] /\ UNCHANGED <<waiters, holder, fresh>>
  BY <1>s, <1>1, <1>2 DEF TypeInv, TypeOK, HasSnapshot, Pc, convVars, memVars, outVars
<1>3. CASE EnterTurn(t) /\ UNCHANGED waiters
  BY <1>s, <1>1, <1>3 DEF EnterTurn, IsNewSession, TypeInv, TypeOK, HasSnapshot, Pc, convVars, memVars, outVars
<1>4. CASE Queue(t) /\ UNCHANGED <<holder, fresh>>
  <2>1. waiters' \in [Sessions -> Seq(Tasks)]
    BY <1>s, <1>4 DEF Queue, TypeInv, TypeOK
  <2> QED BY <1>s, <1>1, <1>4, <2>1 DEF Queue, TypeInv, TypeOK, HasSnapshot, Pc, convVars, memVars, outVars
<1> QED BY <1>2, <1>3, <1>4 DEF Approach

LEMMA TypeInit == Init => TypeInv
  BY TasksAssumption DEF Init, TypeInv, TypeOK, HasSnapshot, Pc

LEMMA TypeStep == TypeInv /\ [Next]_vars => TypeInv'
<1>s. \A t \in Tasks : SessionOf[t] \in Sessions
  BY TasksAssumption
<1>1. ASSUME TypeInv, NEW t \in Tasks, Receive(t)
      PROVE  TypeInv'
  BY <1>1, <1>s DEF Receive, TypeInv, TypeOK, HasSnapshot, Pc,
     lockVars, convVars, memVars, outVars
<1>2. ASSUME TypeInv, NEW t \in Tasks, AskInner(t)
      PROVE  TypeInv'
  BY <1>2, <1>s DEF AskInner, TypeInv, TypeOK, HasSnapshot, Pc,
     lockVars, convVars, memVars, outVars
<1>3. ASSUME TypeInv, NEW t \in Tasks, HandleInbound(t)
      PROVE  TypeInv'
  <2>1. /\ t \in Inbound
        /\ spawned' \in Seq(Inbound)
        /\ UNCHANGED <<convVars, memVars, outVars, arrivals, resets>>
    BY <1>3 DEF HandleInbound, TypeInv, TypeOK
  <2> QED BY <1>3, <2>1, ApproachType DEF HandleInbound, TypeInv, TypeOK
<1>f. ASSUME TypeInv, NEW t \in Tasks, TakeFrame(t)
      PROVE  TypeInv'
  <2>1. /\ t \in Inbound
        /\ arrivals' \in Seq(Inbound)
        /\ UNCHANGED <<spawned, convVars, memVars, outVars, resets>>
    BY <1>f, TasksAssumption DEF TakeFrame, TypeInv, TypeOK
  <2> QED BY <1>f, <2>1, ApproachType DEF TakeFrame, TypeInv, TypeOK
<1>4. ASSUME TypeInv, NEW t \in Tasks, Recall(t)
      PROVE  TypeInv'
  BY <1>4, TakeQuestionType DEF Recall, TypeInv, TypeOK, lockVars
<1>5. ASSUME TypeInv, NEW t \in Tasks, RecallInner(t)
      PROVE  TypeInv'
  <2>1. CASE TakeQuestion(t) /\ holder' = [holder EXCEPT ![SessionOf[t]] = t] /\ UNCHANGED waiters
    BY <1>5, <2>1, <1>s, TakeQuestionType DEF RecallInner, TypeInv, TypeOK
  <2>2. CASE Queue(t) /\ UNCHANGED <<holder, convVars, events>>
    <3>1. UNCHANGED <<spawned, fresh, remembered, blocks, delivered, outbox, arrivals, taken, resets>>
      BY <1>5 DEF RecallInner
    <3>2. recalled' \in [Tasks -> SUBSET Tasks]
      BY <1>5 DEF RecallInner, TypeInv, TypeOK
    <3>3. waiters' \in [Sessions -> Seq(Tasks)] /\ pc' = [pc EXCEPT ![t] = "waiting"]
      BY <1>5, <2>2, <1>s DEF Queue, TypeInv, TypeOK
    <3> QED BY <1>5, <2>2, <3>1, <3>2, <3>3 DEF TypeInv, TypeOK, HasSnapshot, convVars, Pc
  <2>3. QED
    BY <1>5, <2>1, <2>2 DEF RecallInner
<1>6. ASSUME TypeInv, NEW t \in Tasks, Wake(t)
      PROVE  TypeInv'
  <2>w. waiters' \in [Sessions -> Seq(Tasks)]
    BY <1>6, <1>s DEF Wake, TypeInv, TypeOK
  <2>u. UNCHANGED <<spawned, memVars, blocks, delivered, outbox, arrivals, taken, resets>>
    BY <1>6 DEF Wake
  <2>1. CASE EnterTurn(t) /\ UNCHANGED <<convVars, events>>
    BY <1>6, <2>w, <2>u, <2>1, <1>s DEF EnterTurn, IsNewSession, TypeInv, TypeOK, HasSnapshot, memVars, convVars, Pc
  <2>2. CASE TakeQuestion(t) /\ holder' = [holder EXCEPT ![SessionOf[t]] = t] /\ UNCHANGED fresh
    BY <1>6, <2>w, <2>u, <2>2, <1>s, TakeQuestionType DEF TypeInv, TypeOK, memVars
  <2>3. QED
    BY <1>6, <2>1, <2>2 DEF Wake
<1>7. ASSUME TypeInv, NEW t \in Tasks, NEW ok \in BOOLEAN, Compact(t, ok)
      PROVE  TypeInv'
  <2> DEFINE h == Compacted(prompt[t], t, ok)
  <2>1. h \in Seq(Message)
    BY <1>7, CompactedType DEF Compact, TypeInv, TypeOK, HasSnapshot
  <2>2. Pruned(h) \in Seq(Message)
    BY <2>1, PrunedType
  <2>3. StartEvents(t) \in SUBSET Event
    BY DEF StartEvents, Event
  <2>4. /\ history' = [history EXCEPT ![SessionOf[t]] = Pruned(h)]
        /\ prompt' = [prompt EXCEPT ![t] = h]
        /\ events' = [events EXCEPT ![t] = StartEvents(t)]
        /\ pc' = [pc EXCEPT ![t] = "thinking"]
        /\ UNCHANGED <<lockVars, log, fresh, memVars, blocks, delivered, outbox, arrivals, taken, resets>>
    BY <1>7 DEF Compact
  <2> HIDE DEF h
  <2>5. HasSnapshot'
    BY <1>7, <2>4 DEF TypeInv, TypeOK, HasSnapshot
  <2>6. QED
    BY <1>7, <1>s, <2>1, <2>2, <2>3, <2>4, <2>5 DEF TypeInv, TypeOK, Pc, lockVars, memVars
<1>8. ASSUME TypeInv, NEW t \in Tasks, Remember(t)
      PROVE  TypeInv'
  BY <1>8, <1>s DEF Remember, TypeInv, TypeOK, HasSnapshot, Pc,
     lockVars, convVars, memVars, outVars
<1>9. ASSUME TypeInv, NEW t \in Tasks, NEW n \in 0..MaxBlocks, Answer(t, n)
      PROVE  TypeInv'
  <2>1. Said(SessionOf[t], "assistant", t) \in Message
    BY <1>9, <1>s DEF Said, Message, TypeInv, TypeOK
  <2>2. history' \in [Sessions -> Seq(Message)]
    <3>1. history' = [history EXCEPT ![SessionOf[t]] = Append(@, Said(SessionOf[t], "assistant", t))]
      BY <1>9 DEF Answer
    <3>2. QED
      BY <1>9, <1>s, <2>1, <3>1 DEF TypeInv, TypeOK
  <2>3. log' \in [Sessions -> Seq(Entry)]
    <3>1. log' = [log EXCEPT ![SessionOf[t]] = Append(@, [role |-> "assistant", task |-> t])]
      BY <1>9 DEF Answer
    <3>2. [role |-> "assistant", task |-> t] \in Entry
      BY DEF Entry
    <3>3. QED
      BY <1>9, <1>s, <3>1, <3>2 DEF TypeInv, TypeOK
  <2>4. CASE t \in Inner
    BY <1>9, <1>s, <2>2, <2>3, <2>4, TasksAssumption DEF Answer, Release, TypeInv, TypeOK, HasSnapshot, Pc, memVars
  <2>5. CASE t \in Inbound
    <3>1. /\ pc' = [pc EXCEPT ![t] = "delivering"]
          /\ events' = [events EXCEPT ![t] = @ \cup {"turn.complete"}]
          /\ blocks' = [blocks EXCEPT ![t] = n]
          /\ UNCHANGED <<holder, spawned, waiters, prompt, fresh, memVars, delivered,
                         outbox, arrivals, taken, resets>>
      BY <1>9, <2>5, TasksAssumption DEF Answer
    <3>2. events' \in [Tasks -> SUBSET Event]
      BY <1>9, <3>1 DEF Event, TypeInv, TypeOK
    <3>3. blocks' \in [Tasks -> Nat]
      BY <1>9, <3>1, SizesAssumption DEF TypeInv, TypeOK
    <3>4. pc' \in [Tasks -> Pc] /\ HasSnapshot'
      BY <1>9, <3>1 DEF TypeInv, TypeOK, HasSnapshot, Pc
    <3>5. QED
      BY <1>9, <2>2, <2>3, <3>1, <3>2, <3>3, <3>4 DEF TypeInv, TypeOK, memVars
  <2>6. QED
    BY <2>4, <2>5 DEF Tasks
<1>10. ASSUME TypeInv, NEW t \in Tasks, Fail(t)
      PROVE  TypeInv'
  <2>1. UNCHANGED <<spawned, waiters, convVars, fresh, memVars, blocks, delivered, outbox,
                    arrivals, taken, resets>>
    BY <1>10 DEF Fail
  <2>2. pc' \in [Tasks -> Pc] /\ \A u \in Tasks : pc'[u] = "compacting" => pc[u] = "compacting"
    BY <1>10 DEF Fail, TypeInv, TypeOK, Pc
  <2>3. holder' \in [Sessions -> Tasks \cup {NoTask}]
    BY <1>10, <1>s DEF Fail, Release, TypeInv, TypeOK
  <2>4. events' \in [Tasks -> SUBSET Event]
    <3>1. events[t] \cup {"turn.error"} \in SUBSET Event
      BY <1>10 DEF Event, TypeInv, TypeOK
    <3>2. events' = events \/ events' = [events EXCEPT ![t] = @ \cup {"turn.error"}]
      BY <1>10 DEF Fail
    <3>3. QED
      BY <1>10, <3>1, <3>2 DEF TypeInv, TypeOK
  <2>5. QED
    BY <1>10, <2>1, <2>2, <2>3, <2>4 DEF TypeInv, TypeOK, HasSnapshot, convVars, memVars
<1>11. ASSUME TypeInv, NEW t \in Tasks, DeliverBlock(t)
      PROVE  TypeInv'
  <2>1. [task |-> t, index |-> delivered[t]] \in Delivery
    BY <1>11 DEF TypeInv, TypeOK, Delivery
  <2>2. QED
    BY <1>11, <1>s, <2>1 DEF DeliverBlock, Post, TypeInv, TypeOK, HasSnapshot, lockVars, convVars, memVars
<1>12. ASSUME TypeInv, NEW t \in Tasks, DeliverFails(t)
      PROVE  TypeInv'
  <2>1. [task |-> t, index |-> delivered[t]] \in Delivery
    BY <1>12 DEF TypeInv, TypeOK, Delivery
  <2>2. outbox' \in [Sessions -> Seq(Delivery)]
    <3>1. CASE UNCHANGED outbox
      BY <1>12, <3>1 DEF TypeInv, TypeOK
    <3>2. CASE Post(t, delivered[t])
      BY <1>12, <1>s, <2>1, <3>2 DEF Post, TypeInv, TypeOK
    <3>3. QED
      BY <1>12, <3>1, <3>2 DEF DeliverFails
  <2>3. /\ pc' = [pc EXCEPT ![t] = "reporting"]
        /\ events' = [events EXCEPT ![t] = @ \cup {"turn.error"}]
        /\ UNCHANGED <<lockVars, convVars, fresh, memVars, blocks, delivered, arrivals, taken, resets>>
    BY <1>12 DEF DeliverFails
  <2>4. QED
    BY <1>12, <1>s, <2>2, <2>3 DEF TypeInv, TypeOK, HasSnapshot, Pc, Event, lockVars, convVars, memVars
<1>13. ASSUME TypeInv, NEW t \in Tasks, Finish(t)
      PROVE  TypeInv'
  BY <1>13, <1>s DEF Finish, Release, TypeInv, TypeOK, HasSnapshot, Pc, convVars, memVars, outVars
<1>14. ASSUME TypeInv, NEW t \in Tasks, ReportError(t)
      PROVE  TypeInv'
  <2>1. [task |-> t, index |-> -1] \in Delivery
    BY DEF Delivery
  <2>2. outbox' \in [Sessions -> Seq(Delivery)]
    <3>1. CASE UNCHANGED outbox
      BY <1>14, <3>1 DEF TypeInv, TypeOK
    <3>2. CASE Post(t, -1)
      BY <1>14, <1>s, <2>1, <3>2 DEF Post, TypeInv, TypeOK
    <3>3. QED
      BY <1>14, <3>1, <3>2 DEF ReportError
  <2>3. QED
    <3>1. /\ pc' = [pc EXCEPT ![t] = "done"]
          /\ holder' = [holder EXCEPT ![SessionOf[t]] = NoTask]
          /\ UNCHANGED <<spawned, waiters, convVars, fresh, memVars, blocks, delivered,
                         events, arrivals, taken, resets>>
      BY <1>14 DEF ReportError, Release
    <3>2. QED
      BY <1>14, <1>s, <2>2, <3>1 DEF TypeInv, TypeOK, HasSnapshot, Pc, convVars, memVars
<1>15. ASSUME TypeInv, NEW s \in Sessions, Reset(s)
       PROVE  TypeInv'
  BY <1>15 DEF Reset, TypeInv, TypeOK, HasSnapshot, lockVars, memVars, outVars
<1>16. CASE TypeInv /\ UNCHANGED vars
  BY <1>16 DEF vars, TypeInv, TypeOK, HasSnapshot, lockVars, convVars, memVars, outVars
<1>17. QED
  BY <1>1, <1>2, <1>3, <1>f, <1>4, <1>5, <1>6, <1>7, <1>8, <1>9, <1>10, <1>11, <1>12, <1>13,
     <1>14, <1>15, <1>16 DEF Next, Step, Terminated

\* Every reachable state is well typed.
THEOREM TypeCorrect == Spec => []TypeOK
<1>1. Spec => []TypeInv
  BY TypeInit, TypeStep, PTL DEF Spec
<1>2. TypeInv => TypeOK
  BY DEF TypeInv
<1>3. QED
  BY <1>1, <1>2, PTL
-----------------------------------------------------------------------------
(* Mutual exclusion: a task inside its turn is the one that holds the lock  *)
(* of its session.                                                         *)

LockInv == \A t \in Tasks : InTurn(t) => holder[SessionOf[t]] = t

\* How a step moves one task, if any, and the locks: enough for LockInv.
Moves(t) ==
  \E state \in Pc :
    /\ pc' = [pc EXCEPT ![t] = state]
    /\ \/ /\ holder[SessionOf[t]] = NoTask \/ InTurn(t)
          /\ holder' = [holder EXCEPT ![SessionOf[t]] = t]
       \/ /\ InTurn(t)
          /\ state = "done"
          /\ holder' = [holder EXCEPT ![SessionOf[t]] = NoTask]
       \/ /\ InTurn(t) \/ state \in {"spawned", "waiting", "dropped"}
                       \/ (state = "recalling" /\ t \in Inner)
          /\ UNCHANGED holder

LEMMA TakeQuestionMoves ==
  ASSUME NEW t \in Tasks, TakeQuestion(t)
  PROVE  \E state \in {"compacting", "thinking"} : pc' = [pc EXCEPT ![t] = state]
  BY DEF TakeQuestion

LEMMA StepMoves ==
  TypeInv /\ [Next]_vars => UNCHANGED <<pc, holder>> \/ \E t \in Tasks : Moves(t)
<1>1. ASSUME NEW t \in Tasks, Receive(t) PROVE Moves(t)
  BY <1>1 DEF Receive, Moves, Pc
<1>2. ASSUME NEW t \in Tasks, AskInner(t) PROVE Moves(t)
  BY <1>2 DEF AskInner, Moves, Pc, lockVars
<1>3. ASSUME NEW t \in Tasks, HandleInbound(t) PROVE Moves(t)
  BY <1>3 DEF HandleInbound, Approach, LockFree, EnterTurn, Queue, Moves, Pc
<1>f. ASSUME NEW t \in Tasks, TakeFrame(t) PROVE Moves(t)
  BY <1>f DEF TakeFrame, Approach, LockFree, EnterTurn, Queue, Moves, Pc
<1>4. ASSUME NEW t \in Tasks, Recall(t) PROVE Moves(t)
  BY <1>4, TakeQuestionMoves DEF Recall, Moves, InTurn, Pc, lockVars
<1>5. ASSUME NEW t \in Tasks, RecallInner(t) PROVE Moves(t)
  BY <1>5, TakeQuestionMoves DEF RecallInner, LockFree, Queue, Moves, Pc
<1>6. ASSUME NEW t \in Tasks, Wake(t) PROVE Moves(t)
  BY <1>6, TakeQuestionMoves DEF Wake, EnterTurn, Moves, Pc
<1>7. ASSUME NEW t \in Tasks, NEW ok \in BOOLEAN, Compact(t, ok) PROVE Moves(t)
  BY <1>7 DEF Compact, Moves, InTurn, Pc, lockVars
<1>8. ASSUME NEW t \in Tasks, Remember(t) PROVE UNCHANGED <<pc, holder>>
  BY <1>8 DEF Remember, lockVars
<1>9. ASSUME NEW t \in Tasks, NEW n \in 0..MaxBlocks, Answer(t, n) PROVE Moves(t)
  BY <1>9 DEF Answer, Release, Moves, InTurn, Pc
<1>10. ASSUME NEW t \in Tasks, Fail(t) PROVE Moves(t)
  BY <1>10 DEF Fail, Release, Moves, InTurn, Pc
<1>11. ASSUME NEW t \in Tasks, DeliverBlock(t) PROVE UNCHANGED <<pc, holder>>
  BY <1>11 DEF DeliverBlock, lockVars
<1>12. ASSUME NEW t \in Tasks, DeliverFails(t) PROVE Moves(t)
  BY <1>12 DEF DeliverFails, Moves, InTurn, Pc, lockVars
<1>13. ASSUME NEW t \in Tasks, Finish(t) PROVE Moves(t)
  BY <1>13 DEF Finish, Release, Moves, InTurn, Pc
<1>14. ASSUME NEW t \in Tasks, ReportError(t) PROVE Moves(t)
  BY <1>14 DEF ReportError, Release, Moves, InTurn, Pc
<1>15. ASSUME NEW s \in Sessions, Reset(s) PROVE UNCHANGED <<pc, holder>>
  BY <1>15 DEF Reset, lockVars
<1>16. QED
  BY <1>1, <1>2, <1>3, <1>f, <1>4, <1>5, <1>6, <1>7, <1>8, <1>9, <1>10, <1>11, <1>12, <1>13,
     <1>14, <1>15 DEF Next, Step, Terminated, vars, lockVars

LEMMA LockStep == TypeInv /\ LockInv /\ [Next]_vars => LockInv'
<1> SUFFICES ASSUME TypeInv, LockInv, [Next]_vars PROVE LockInv'
  OBVIOUS
<1>1. CASE UNCHANGED <<pc, holder>>
  BY <1>1 DEF LockInv, InTurn
<1>2. ASSUME NEW t \in Tasks, Moves(t) PROVE LockInv'
  <2> SUFFICES ASSUME NEW u \in Tasks, InTurn(u)' PROVE holder'[SessionOf[u]] = u
    BY DEF LockInv
  <2>1. /\ pc \in [Tasks -> Pc]
        /\ holder \in [Sessions -> Tasks \cup {NoTask}]
        /\ SessionOf[t] \in Sessions /\ SessionOf[u] \in Sessions
        /\ NoTask \notin Tasks
        /\ t \in Inner => t \notin Inbound
    BY TasksAssumption DEF TypeInv, TypeOK
  <2>2. CASE u = t
    BY <1>2, <2>1, <2>2 DEF Moves, LockInv, InTurn
  <2>3. CASE u # t
    <3>1. InTurn(u) /\ holder[SessionOf[u]] = u
      BY <1>2, <2>1, <2>3 DEF Moves, LockInv, InTurn
    <3>2. QED
      BY <1>2, <2>1, <2>3, <3>1 DEF Moves, LockInv
  <2>4. QED
    BY <2>2, <2>3
<1>3. QED
  BY <1>1, <1>2, StepMoves

\* The lock serializes the turns of a session, whatever the tasks, the
\* sessions and the thresholds.
THEOREM Serialized == Spec => []SerializedTurns
<1>1. Init => LockInv
  BY DEF Init, LockInv, InTurn
<1>2. Spec => [](TypeInv /\ LockInv)
  BY <1>1, TypeInit, TypeStep, LockStep, PTL DEF Spec
<1>3. LockInv => SerializedTurns
  BY DEF LockInv, SerializedTurns
<1>4. QED
  BY <1>2, <1>3, PTL
-----------------------------------------------------------------------------
(* Histories and prompts are faithful to what was said.                    *)

LEMMA FaithfulAppend ==
  ASSUME NEW h \in Seq(Message), NEW l \in Seq(Entry), Faithful(h, l),
         NEW t \in Tasks, NEW role \in {"user", "assistant"},
         NEW m, m = [role |-> role, task |-> t, from |-> Len(l) + 1, at |-> Len(l) + 1]
  PROVE  Faithful(Append(h, m), Append(l, [role |-> role, task |-> t]))
<1> DEFINE e == [role |-> role, task |-> t]
           g == Append(h, m)
           k == Append(l, e)
<1>1. /\ Len(g) = Len(h) + 1 /\ g[Len(h) + 1] = m
      /\ \A i \in 1..Len(h) : g[i] = h[i]
  OBVIOUS
<1>2. /\ Len(k) = Len(l) + 1 /\ k[Len(l) + 1] = e
      /\ \A i \in 1..Len(l) : k[i] = l[i]
  BY DEF Entry
<1>3. h # <<>> => Len(h) > 0 /\ h[Len(h)].at = Len(l)
  BY DEF Faithful
<1> HIDE DEF g, k
<1>4. ASSUME NEW i \in 1..(Len(g) - 1) PROVE g[i + 1].from = g[i].at + 1
  <2>1. CASE i = Len(h)
    BY <1>1, <1>3, <1>4, <2>1
  <2>2. CASE i < Len(h)
    BY <1>1, <1>4, <2>2 DEF Faithful
  <2>3. QED
    BY <1>1, <1>4, <2>1, <2>2
<1>5. g[Len(g)].at = Len(k)
  BY <1>1, <1>2
<1>6. ASSUME NEW i \in 1..Len(g), g[i].role # "summary"
      PROVE  /\ g[i].from = g[i].at
             /\ g[i].at \in 1..Len(k)
             /\ k[g[i].at] = [role |-> g[i].role, task |-> g[i].task]
  <2>1. CASE i = Len(h) + 1
    BY <1>1, <1>2, <2>1
  <2>2. CASE i # Len(h) + 1
    BY <1>1, <1>2, <1>6, <2>2 DEF Faithful
  <2>3. QED
    BY <2>1, <2>2
<1>7. QED
  BY <1>4, <1>5, <1>6 DEF Faithful, g, k

LEMMA FaithfulSuffix ==
  ASSUME NEW h \in Seq(Message), NEW l \in Seq(Entry), Faithful(h, l),
         NEW c \in 0..Len(h)
  PROVE  Faithful(SubSeq(h, c + 1, Len(h)), l)
<1> DEFINE g == SubSeq(h, c + 1, Len(h))
<1>1. Len(g) = Len(h) - c /\ \A i \in 1..Len(g) : g[i] = h[i + c]
  OBVIOUS
<1> HIDE DEF g
<1>2. ASSUME NEW i \in 1..(Len(g) - 1) PROVE g[i + 1].from = g[i].at + 1
  <2>1. /\ i + c \in 1..(Len(h) - 1) /\ i + 1 \in 1..Len(g) /\ i \in 1..Len(g)
        /\ g[i + 1] = h[(i + c) + 1]
    BY <1>1, <1>2
  <2>2. QED
    BY <1>1, <2>1 DEF Faithful
<1>3. ASSUME NEW i \in 1..Len(g), g[i].role # "summary"
      PROVE  /\ g[i].from = g[i].at
             /\ g[i].at \in 1..Len(l)
             /\ l[g[i].at] = [role |-> g[i].role, task |-> g[i].task]
  <2>1. i + c \in 1..Len(h) /\ g[i] = h[i + c]
    BY <1>1, <1>3
  <2>2. QED
    BY <1>3, <2>1 DEF Faithful
<1>4. ASSUME g # <<>> PROVE g[Len(g)].at = Len(l)
  <2>1. Len(g) \in 1..Len(g)
    <3>1. g \in Seq(Message)
      BY DEF g
    <3>2. Len(g) # 0
      BY <1>4, <3>1
    <3>3. QED
      BY <1>1, <3>2
  <2>2. g[Len(g)] = h[Len(h)] /\ h # <<>>
    BY <1>1, <2>1
  <2>3. QED
    BY <2>2 DEF Faithful
<1>5. QED
  BY <1>2, <1>3, <1>4 DEF Faithful, g

LEMMA FaithfulPruned ==
  ASSUME NEW h \in Seq(Message), NEW l \in Seq(Entry), Faithful(h, l)
  PROVE  Faithful(Pruned(h), l)
<1>1. CASE Len(h) > MaxMessages
  <2> DEFINE c == Len(h) - MaxMessages
  <2>1. c \in 0..Len(h) /\ Pruned(h) = SubSeq(h, c + 1, Len(h))
    BY <1>1, SizesAssumption DEF Pruned
  <2> HIDE DEF c
  <2>2. QED
    BY <2>1, FaithfulSuffix
<1>2. CASE ~(Len(h) > MaxMessages)
  BY <1>2 DEF Pruned
<1>3. QED
  BY <1>1, <1>2

\* Replacing the old part by its summary keeps the list connected, for every
\* setting of keep_recent and whether or not the summary could be written.
LEMMA FaithfulCompacted ==
  ASSUME NEW h \in Seq(Message), h # <<>>, NEW l \in Seq(Entry), Faithful(h, l),
         NEW t \in Tasks, NEW ok \in BOOLEAN
  PROVE  Faithful(Compacted(h, t, ok), l)
<1> DEFINE c == CutPoint(h)
           r == RecentPart(h)
           m == Summary(h, t, ok)
           g == Compacted(h, t, ok)
<1>1. c \in 0..Len(h)
  BY CutPointRange
<1>2. /\ r \in Seq(Message)
      /\ Len(r) = Len(h) - c
      /\ \A i \in 1..Len(r) : r[i] = h[i + c]
  <2>1. r = SubSeq(h, c + 1, Len(h))
    BY DEF RecentPart
  <2> HIDE DEF c, r
  <2>2. r \in Seq(Message) /\ Len(r) = Len(h) - c
    BY <1>1, <2>1
  <2>3. \A i \in 1..Len(r) : r[i] = h[i + c]
    BY <1>1, <2>1, <2>2
  <2>4. QED
    BY <2>2, <2>3
<1>3. Faithful(r, l)
  BY <1>1, FaithfulSuffix DEF RecentPart
<1>4. m.role = "summary" /\ m.at = IF c = 0 THEN h[1].from - 1 ELSE h[c].at
  <2>1. /\ OldPart(h) = <<>> <=> c = 0
        /\ c # 0 => OldPart(h)[Len(OldPart(h))] = h[c]
    BY <1>1 DEF OldPart
  <2>2. QED
    BY <2>1 DEF Summary
<1>5. c < Len(h) => h[c + 1].from = m.at + 1
  <2>1. CASE c = 0
    <3>1. h[1] \in Message
      OBVIOUS
    <3>2. QED
      BY <2>1, <3>1, <1>4 DEF Message
  <2>2. CASE c # 0
    BY <1>1, <1>4, <2>2 DEF Faithful
  <2>3. QED
    BY <2>1, <2>2
<1>6. c = Len(h) => m.at = Len(l)
  BY <1>4 DEF Faithful
<1>7. m \in Message
  <2>1. g \in Seq(Message)
    BY CompactedType
  <2>2. g = <<m>> \o r
    BY DEF Compacted
  <2> HIDE DEF g, m, r
  <2>3. Len(g) = Len(r) + 1 /\ g[1] = m
    BY <1>2, <2>2
  <2>4. 1 \in 1..Len(g)
    BY <1>2, <2>3
  <2>5. QED
    BY <2>1, <2>3, <2>4
<1>8. Len(g) = Len(r) + 1 /\ g[1] = m /\ \A i \in 1..Len(r) : g[i + 1] = r[i]
  <2>1. g = <<m>> \o r
    BY DEF Compacted
  <2> HIDE DEF g, m, r
  <2>2. QED
    BY <1>2, <1>7, <2>1
<1> HIDE DEF c, r, m, g
<1>9. ASSUME NEW i \in 1..(Len(g) - 1) PROVE g[i + 1].from = g[i].at + 1
  <2>1. CASE i = 1
    BY <1>1, <1>2, <1>5, <1>8, <1>9, <2>1
  <2>2. CASE i > 1
    <3>1. /\ i - 1 \in 1..(Len(r) - 1)
          /\ i - 1 \in 1..Len(r) /\ g[(i - 1) + 1] = r[i - 1]
          /\ i \in 1..Len(r) /\ g[i + 1] = r[(i - 1) + 1]
      BY <1>2, <1>8, <1>9, <2>2
    <3>2. QED
      BY <1>3, <3>1 DEF Faithful
  <2>3. QED
    BY <1>9, <2>1, <2>2
<1>10. g[Len(g)].at = Len(l)
  <2>1. CASE r = <<>>
    BY <1>1, <1>2, <1>6, <1>8, <2>1
  <2>2. CASE r # <<>>
    <3>1. Len(r) \in 1..Len(r) /\ g[Len(g)] = r[Len(r)]
      BY <1>2, <1>8, <2>2
    <3>2. QED
      BY <1>3, <2>2, <3>1 DEF Faithful
  <2>3. QED
    BY <2>1, <2>2
<1>11. ASSUME NEW i \in 1..Len(g), g[i].role # "summary"
      PROVE  /\ g[i].from = g[i].at
             /\ g[i].at \in 1..Len(l)
             /\ l[g[i].at] = [role |-> g[i].role, task |-> g[i].task]
  <2>1. i # 1
    BY <1>4, <1>8, <1>11
  <2>2. i - 1 \in 1..Len(r) /\ g[i] = r[i - 1]
    <3>1. i - 1 \in 1..Len(r) /\ (i - 1) + 1 = i
      BY <1>2, <1>8, <1>11, <2>1
    <3>2. QED
      BY <1>8, <3>1
  <2>3. QED
    BY <1>3, <1>11, <2>2 DEF Faithful
<1>12. QED
  BY <1>9, <1>10, <1>11 DEF Faithful, g
\* The cut leaves the last message alone unless nothing is kept verbatim.
LEMMA CutLeavesQuestion ==
  ASSUME NEW h \in Seq(Message), h # <<>>, NEW t \in Tasks, NEW ok \in BOOLEAN,
         EndsWithQuestion(h, t)
  PROVE  /\ Compacted(h, t, ok) # <<>>
         /\ EndsWithQuestion(Compacted(h, t, ok), t)
<1> DEFINE r == RecentPart(h)
           g == Compacted(h, t, ok)
           m == Summary(h, t, ok)
<1>1. CutPoint(h) \in 0..Len(h)
  BY CutPointRange
<1>2. /\ r \in Seq(Message)
      /\ Len(r) = Len(h) - CutPoint(h)
      /\ \A i \in 1..Len(r) : r[i] = h[i + CutPoint(h)]
  BY <1>1 DEF RecentPart
<1>3. Len(g) = Len(r) + 1 /\ \A i \in 1..Len(r) : g[i + 1] = r[i]
  BY <1>2 DEF Compacted
<1>4. KeepRecent > 0 => CutPoint(h) < Len(h)
  BY SizesAssumption DEF CutPoint
<1>5. KeepRecent > 0 => g[Len(g)] = h[Len(h)]
  <2> HIDE DEF g, r, m
  <2>1. KeepRecent > 0 => Len(r) \in 1..Len(r)
    BY <1>1, <1>2, <1>4
  <2>2. QED
    BY <1>1, <1>2, <1>3, <2>1
<1>6. g # <<>>
  BY <1>2, <1>3
<1>7. QED
  BY <1>5, <1>6 DEF EndsWithQuestion

FaithInv ==
  /\ HistoryIsFaithful
  /\ PromptIsFaithful

\* The conversation of a session changes only in the hands of the task that
\* holds its lock.
LEMMA FaithTakeQuestion ==
  ASSUME TypeInv, LockInv, FaithInv, NEW t \in Tasks, TakeQuestion(t),
         holder[SessionOf[t]] \in {t, NoTask}
  PROVE  FaithInv'
<1> DEFINE s == SessionOf[t]
           m == Said(s, "user", t)
           h == Append(history[s], m)
           l == Append(log[s], [role |-> "user", task |-> t])
<1>1. /\ s \in Sessions /\ \A u \in Tasks : SessionOf[u] \in Sessions
      /\ t # NoTask
  BY TasksAssumption
<1>2. /\ pc \in [Tasks -> Pc] /\ prompt \in [Tasks -> Seq(Message)]
      /\ history \in [Sessions -> Seq(Message)] /\ log \in [Sessions -> Seq(Entry)]
  BY DEF TypeInv, TypeOK
<1>3. m \in Message
  BY <1>1, <1>2 DEF Said, Message
<1>4. h \in Seq(Message) /\ h # <<>> /\ h[Len(h)] = m
  <2>1. history[s] \in Seq(Message)
    BY <1>1, <1>2
  <2>2. QED
    BY <1>3, <2>1
<1>5. l \in Seq(Entry)
  <2>1. [role |-> "user", task |-> t] \in Entry /\ log[s] \in Seq(Entry)
    BY <1>1, <1>2 DEF Entry
  <2>2. QED
    BY <2>1
<1>6. Faithful(h, l)
  <2>1. history[s] \in Seq(Message) /\ log[s] \in Seq(Entry) /\ Faithful(history[s], log[s])
    BY <1>1, <1>2 DEF FaithInv, HistoryIsFaithful
  <2>2. QED
    BY <2>1, FaithfulAppend DEF Said
<1>7. Faithful(Pruned(h), l)
  BY <1>4, <1>5, <1>6, FaithfulPruned
<1>8. EndsWithQuestion(h, t)
  BY <1>4 DEF EndsWithQuestion, Said
<1>9. /\ log' = [log EXCEPT ![s] = l]
      /\ prompt' = [prompt EXCEPT ![t] = h]
      /\ history' = [history EXCEPT ![s] = h] \/ history' = [history EXCEPT ![s] = Pruned(h)]
      /\ \E state \in Pc : pc' = [pc EXCEPT ![t] = state]
  BY DEF TakeQuestion, Pc
<1> HIDE DEF h, l, m
<1>10. HistoryIsFaithful'
  BY <1>1, <1>2, <1>6, <1>7, <1>9 DEF FaithInv, HistoryIsFaithful
<1>11. ASSUME NEW u \in Tasks, pc'[u] \in {"compacting", "thinking"}
       PROVE  Faithful(prompt'[u], log'[SessionOf[u]]) /\ EndsWithQuestion(prompt'[u], u)
  <2>1. CASE u = t
    BY <1>1, <1>2, <1>6, <1>8, <1>9, <2>1
  <2>2. CASE u # t
    <3>1. pc[u] \in {"compacting", "thinking"}
      BY <1>2, <1>9, <1>11, <2>2
    <3>2. holder[SessionOf[u]] = u
      BY <3>1 DEF LockInv, InTurn
    <3>3. SessionOf[u] # s
      BY <3>2, <1>1, <2>2, TasksAssumption
    <3>4. QED
      BY <1>1, <1>2, <1>9, <2>2, <3>1, <3>3 DEF FaithInv, PromptIsFaithful
  <2>3. QED
    BY <2>1, <2>2
<1>12. QED
  BY <1>10, <1>11 DEF FaithInv, PromptIsFaithful
LEMMA FaithCompact ==
  ASSUME TypeInv, FaithInv, NEW t \in Tasks, NEW ok \in BOOLEAN, Compact(t, ok)
  PROVE  FaithInv'
<1> DEFINE s == SessionOf[t]
           p == prompt[t]
           h == Compacted(p, t, ok)
<1>1. /\ s \in Sessions /\ \A u \in Tasks : SessionOf[u] \in Sessions
  BY TasksAssumption
<1>2. /\ pc \in [Tasks -> Pc] /\ prompt \in [Tasks -> Seq(Message)]
      /\ history \in [Sessions -> Seq(Message)] /\ log \in [Sessions -> Seq(Entry)]
  BY DEF TypeInv, TypeOK
<1>3. /\ pc[t] = "compacting"
      /\ history' = [history EXCEPT ![s] = Pruned(h)]
      /\ prompt' = [prompt EXCEPT ![t] = h]
      /\ pc' = [pc EXCEPT ![t] = "thinking"]
      /\ log' = log
  BY DEF Compact
<1>4. p \in Seq(Message) /\ p # <<>> /\ Faithful(p, log[s]) /\ EndsWithQuestion(p, t)
  BY <1>2, <1>3 DEF TypeInv, HasSnapshot, FaithInv, PromptIsFaithful
<1>5. log[s] \in Seq(Entry)
  BY <1>1, <1>2
<1>6. /\ h \in Seq(Message)
      /\ Faithful(h, log[s])
      /\ EndsWithQuestion(h, t)
  BY <1>4, <1>5, CompactedType, FaithfulCompacted, CutLeavesQuestion
<1>7. Faithful(Pruned(h), log[s])
  BY <1>5, <1>6, FaithfulPruned
<1> HIDE DEF h, p
<1>8. HistoryIsFaithful'
  BY <1>1, <1>2, <1>3, <1>7 DEF FaithInv, HistoryIsFaithful
<1>9. PromptIsFaithful'
  BY <1>1, <1>2, <1>3, <1>6 DEF FaithInv, PromptIsFaithful
<1>10. QED
  BY <1>8, <1>9 DEF FaithInv

LEMMA FaithAnswer ==
  ASSUME TypeInv, LockInv, FaithInv, NEW t \in Tasks, NEW n \in 0..MaxBlocks, Answer(t, n)
  PROVE  FaithInv'
<1> DEFINE s == SessionOf[t]
           m == Said(s, "assistant", t)
           h == Append(history[s], m)
           l == Append(log[s], [role |-> "assistant", task |-> t])
<1>1. /\ s \in Sessions /\ \A u \in Tasks : SessionOf[u] \in Sessions
  BY TasksAssumption
<1>2. /\ pc \in [Tasks -> Pc] /\ prompt \in [Tasks -> Seq(Message)]
      /\ history \in [Sessions -> Seq(Message)] /\ log \in [Sessions -> Seq(Entry)]
  BY DEF TypeInv, TypeOK
<1>3. /\ pc[t] = "thinking"
      /\ history' = [history EXCEPT ![s] = h]
      /\ log' = [log EXCEPT ![s] = l]
      /\ prompt' = prompt
      /\ \E state \in {"done", "delivering"} : pc' = [pc EXCEPT ![t] = state]
  BY DEF Answer
<1>4. Faithful(h, l)
  <2>1. history[s] \in Seq(Message) /\ log[s] \in Seq(Entry) /\ Faithful(history[s], log[s])
    BY <1>1, <1>2 DEF FaithInv, HistoryIsFaithful
  <2>2. QED
    BY <2>1, FaithfulAppend DEF Said
<1> HIDE DEF h, l, m
<1>5. HistoryIsFaithful'
  BY <1>1, <1>2, <1>3, <1>4 DEF FaithInv, HistoryIsFaithful
<1>6. ASSUME NEW u \in Tasks, pc'[u] \in {"compacting", "thinking"}
      PROVE  Faithful(prompt'[u], log'[SessionOf[u]]) /\ EndsWithQuestion(prompt'[u], u)
  <2>1. u # t /\ pc[u] \in {"compacting", "thinking"}
    BY <1>2, <1>3, <1>6
  <2>2. holder[SessionOf[u]] = u /\ holder[SessionOf[t]] = t
    BY <1>3, <2>1 DEF LockInv, InTurn
  <2>3. SessionOf[u] # s
    BY <2>1, <2>2
  <2>4. QED
    BY <1>1, <1>2, <1>3, <2>1, <2>3 DEF FaithInv, PromptIsFaithful
<1>7. QED
  BY <1>5, <1>6 DEF FaithInv, PromptIsFaithful

\* Steps that leave the conversations alone and put no task to work on one.
LEMMA FaithIdle ==
  ASSUME FaithInv, UNCHANGED convVars,
         \A u \in Tasks : pc'[u] \in {"compacting", "thinking"} => pc'[u] = pc[u]
  PROVE  FaithInv'
  BY DEF FaithInv, HistoryIsFaithful, PromptIsFaithful, convVars

LEMMA FaithStep == TypeInv /\ LockInv /\ FaithInv /\ [Next]_vars => FaithInv'
<1> SUFFICES ASSUME TypeInv, LockInv, FaithInv, [Next]_vars PROVE FaithInv'
  OBVIOUS
<1>p. pc \in [Tasks -> Pc]
  BY DEF TypeInv, TypeOK
<1>1. ASSUME NEW t \in Tasks, Receive(t) PROVE FaithInv'
  BY <1>1, <1>p, FaithIdle DEF Receive
<1>2. ASSUME NEW t \in Tasks, AskInner(t) PROVE FaithInv'
  BY <1>2, <1>p, FaithIdle DEF AskInner
<1>3. ASSUME NEW t \in Tasks, HandleInbound(t) PROVE FaithInv'
  BY <1>3, <1>p, FaithIdle DEF HandleInbound, Approach, EnterTurn, Queue
<1>f. ASSUME NEW t \in Tasks, TakeFrame(t) PROVE FaithInv'
  BY <1>f, <1>p, FaithIdle DEF TakeFrame, Approach, EnterTurn, Queue
<1>4. ASSUME NEW t \in Tasks, Recall(t) PROVE FaithInv'
  BY <1>4, FaithTakeQuestion DEF Recall, LockInv, InTurn
<1>5. ASSUME NEW t \in Tasks, RecallInner(t) PROVE FaithInv'
  <2>1. CASE TakeQuestion(t) /\ LockFree(SessionOf[t])
    BY <2>1, FaithTakeQuestion DEF LockFree
  <2>2. CASE Queue(t) /\ UNCHANGED convVars
    BY <2>2, <1>p, FaithIdle DEF Queue
  <2>3. QED
    BY <1>5, <2>1, <2>2 DEF RecallInner
<1>6. ASSUME NEW t \in Tasks, Wake(t) PROVE FaithInv'
  <2>1. CASE TakeQuestion(t)
    BY <1>6, <2>1, FaithTakeQuestion DEF Wake
  <2>2. CASE EnterTurn(t) /\ UNCHANGED convVars
    BY <2>2, <1>p, FaithIdle DEF EnterTurn
  <2>3. QED
    BY <1>6, <2>1, <2>2 DEF Wake
<1>7. ASSUME NEW t \in Tasks, NEW ok \in BOOLEAN, Compact(t, ok) PROVE FaithInv'
  BY <1>7, FaithCompact
<1>8. ASSUME NEW t \in Tasks, Remember(t) PROVE FaithInv'
  BY <1>8, FaithIdle DEF Remember
<1>9. ASSUME NEW t \in Tasks, NEW n \in 0..MaxBlocks, Answer(t, n) PROVE FaithInv'
  BY <1>9, FaithAnswer
<1>10. ASSUME NEW t \in Tasks, Fail(t) PROVE FaithInv'
  BY <1>10, <1>p, FaithIdle DEF Fail
<1>11. ASSUME NEW t \in Tasks, DeliverBlock(t) PROVE FaithInv'
  BY <1>11, FaithIdle DEF DeliverBlock
<1>12. ASSUME NEW t \in Tasks, DeliverFails(t) PROVE FaithInv'
  BY <1>12, <1>p, FaithIdle DEF DeliverFails
<1>13. ASSUME NEW t \in Tasks, Finish(t) PROVE FaithInv'
  BY <1>13, <1>p, FaithIdle DEF Finish
<1>14. ASSUME NEW t \in Tasks, ReportError(t) PROVE FaithInv'
  BY <1>14, <1>p, FaithIdle DEF ReportError
<1>15. ASSUME NEW s \in Sessions, Reset(s) PROVE FaithInv'
  <2>1. /\ history' = [history EXCEPT ![s] = <<>>]
        /\ UNCHANGED <<pc, prompt, log>>
    BY <1>15 DEF Reset
  <2>2. \A l : Faithful(<<>>, l)
    BY DEF Faithful
  <2>3. HistoryIsFaithful'
    BY <1>15, <2>1, <2>2 DEF FaithInv, HistoryIsFaithful, TypeInv, TypeOK
  <2>4. QED
    BY <2>1, <2>3 DEF FaithInv, PromptIsFaithful
<1>16. CASE UNCHANGED vars
  BY <1>16, FaithIdle DEF vars
<1>17. QED
  BY <1>1, <1>2, <1>3, <1>f, <1>4, <1>5, <1>6, <1>7, <1>8, <1>9, <1>10, <1>11, <1>12, <1>13,
     <1>14, <1>15, <1>16 DEF Next, Step, Terminated

LEMMA ConversationInv == Spec => [](TypeInv /\ LockInv /\ FaithInv)
<1>1. Init => LockInv
  BY DEF Init, LockInv, InTurn
<1>2. Init => FaithInv
  <2>1. \A l : Faithful(<<>>, l)
    BY DEF Faithful
  <2>2. QED
    BY <2>1 DEF Init, FaithInv, HistoryIsFaithful, PromptIsFaithful
<1>3. QED
  BY <1>1, <1>2, TypeInit, TypeStep, LockStep, FaithStep, PTL DEF Spec

\* No interleaving of turns, compactions, prunings and resets loses, repeats or
\* reorders a message inside a history, for every threshold.
THEOREM HistoriesAreFaithful == Spec => []HistoryIsFaithful
  BY ConversationInv, PTL DEF FaithInv

\* The LLM always works on a faithful stretch that ends with its own question.
THEOREM PromptsAreFaithful == Spec => []PromptIsFaithful
  BY ConversationInv, PTL DEF FaithInv
-----------------------------------------------------------------------------
(* The size of a prompt.                                                   *)

LEMMA CompactedLength ==
  ASSUME NEW h \in Seq(Message), NEW t \in Tasks, NEW ok \in BOOLEAN
  PROVE  Len(Compacted(h, t, ok)) <= KeepRecent + 1
<1>1. CutPoint(h) \in 0..Len(h) /\ Len(h) - CutPoint(h) <= KeepRecent
  BY SizesAssumption, CutPointRange DEF CutPoint
<1>2. /\ RecentPart(h) \in Seq(Message)
      /\ Len(RecentPart(h)) = Len(h) - CutPoint(h)
  BY <1>1 DEF RecentPart
<1>3. Len(Compacted(h, t, ok)) = Len(RecentPart(h)) + 1
  BY <1>2 DEF Compacted
<1>4. QED
  BY <1>1, <1>2, <1>3, SizesAssumption

Fits(h) == Len(h) < Threshold \/ Len(h) <= KeepRecent + 1

LEMMA BoundStep == TypeInv /\ PromptIsBounded /\ [Next]_vars => PromptIsBounded'
<1> SUFFICES ASSUME TypeInv, PromptIsBounded, [Next]_vars,
                    NEW u \in Tasks, pc'[u] = "thinking"
             PROVE  Fits(prompt'[u])
  BY DEF PromptIsBounded, Fits
<1>1. /\ pc \in [Tasks -> Pc] /\ prompt \in [Tasks -> Seq(Message)]
      /\ history \in [Sessions -> Seq(Message)]
      /\ \A v \in Tasks : SessionOf[v] \in Sessions
  BY TasksAssumption DEF TypeInv, TypeOK
<1>2. pc[u] = "thinking" => Fits(prompt[u])
  BY DEF PromptIsBounded, Fits
<1>3. ASSUME NEW t \in Tasks, TakeQuestion(t) PROVE Fits(prompt'[u])
  <2> DEFINE h == Append(history[SessionOf[t]], Said(SessionOf[t], "user", t))
  <2>1. Len(h) \in Nat
    <3>1. Said(SessionOf[t], "user", t) \in Message
      BY <1>1 DEF Said, Message, TypeInv, TypeOK
    <3>2. QED
      BY <1>1, <3>1
  <2>2. /\ prompt' = [prompt EXCEPT ![t] = h]
        /\ pc' = [pc EXCEPT ![t] = IF NeedsCompaction(h) THEN "compacting" ELSE "thinking"]
    BY <1>3 DEF TakeQuestion
  <2> HIDE DEF h
  <2>3. CASE u = t
    BY <1>1, <2>1, <2>2, <2>3, SizesAssumption DEF NeedsCompaction, Fits
  <2>4. CASE u # t
    BY <1>1, <1>2, <2>2, <2>4
  <2>5. QED
    BY <2>3, <2>4
<1>4. ASSUME NEW t \in Tasks, NEW ok \in BOOLEAN, Compact(t, ok) PROVE Fits(prompt'[u])
  <2>1. /\ prompt' = [prompt EXCEPT ![t] = Compacted(prompt[t], t, ok)]
        /\ pc' = [pc EXCEPT ![t] = "thinking"]
    BY <1>4 DEF Compact
  <2>2. Len(Compacted(prompt[t], t, ok)) <= KeepRecent + 1
    BY <1>1, CompactedLength
  <2>3. QED
    BY <1>1, <1>2, <2>1, <2>2 DEF Fits
<1>5. CASE prompt' = prompt /\ (pc'[u] = "thinking" => pc[u] = "thinking")
  BY <1>2, <1>5
<1>6. ASSUME NEW t \in Tasks, Step(t) PROVE Fits(prompt'[u])
  <2>1. ASSUME HandleInbound(t) PROVE Fits(prompt'[u])
    BY <2>1, <1>1, <1>5 DEF HandleInbound, Approach, EnterTurn, Queue, convVars
  <2>2. ASSUME Recall(t) PROVE Fits(prompt'[u])
    BY <2>2, <1>3 DEF Recall
  <2>3. ASSUME RecallInner(t) PROVE Fits(prompt'[u])
    BY <2>3, <1>1, <1>3, <1>5 DEF RecallInner, Queue, convVars
  <2>4. ASSUME Wake(t) PROVE Fits(prompt'[u])
    BY <2>4, <1>1, <1>3, <1>5 DEF Wake, EnterTurn, convVars
  <2>5. ASSUME Remember(t) PROVE Fits(prompt'[u])
    BY <2>5, <1>5 DEF Remember, convVars
  <2>6. ASSUME NEW n \in 0..MaxBlocks, Answer(t, n) PROVE Fits(prompt'[u])
    BY <2>6, <1>1, <1>5 DEF Answer
  <2>7. ASSUME Fail(t) PROVE Fits(prompt'[u])
    BY <2>7, <1>1, <1>5 DEF Fail, convVars
  <2>8. ASSUME DeliverBlock(t) PROVE Fits(prompt'[u])
    BY <2>8, <1>5 DEF DeliverBlock, convVars
  <2>9. ASSUME DeliverFails(t) PROVE Fits(prompt'[u])
    BY <2>9, <1>1, <1>5 DEF DeliverFails, convVars
  <2>10. ASSUME Finish(t) PROVE Fits(prompt'[u])
    BY <2>10, <1>1, <1>5 DEF Finish, convVars
  <2>11. ASSUME ReportError(t) PROVE Fits(prompt'[u])
    BY <2>11, <1>1, <1>5 DEF ReportError, convVars
  <2>12. QED
    BY <1>6, <1>4, <2>1, <2>2, <2>3, <2>4, <2>5, <2>6, <2>7, <2>8, <2>9, <2>10, <2>11 DEF Step
<1>7. ASSUME NEW t \in Tasks, Receive(t) \/ AskInner(t) PROVE Fits(prompt'[u])
  BY <1>7, <1>1, <1>5 DEF Receive, AskInner, convVars
<1>f. ASSUME NEW t \in Tasks, TakeFrame(t) PROVE Fits(prompt'[u])
  BY <1>f, <1>1, <1>5 DEF TakeFrame, Approach, EnterTurn, Queue, convVars
<1>8. ASSUME NEW s \in Sessions, Reset(s) PROVE Fits(prompt'[u])
  BY <1>8, <1>5 DEF Reset
<1>9. CASE UNCHANGED vars
  BY <1>9, <1>5 DEF vars, convVars
<1>10. QED
  BY <1>6, <1>7, <1>f, <1>8, <1>9 DEF Next, Terminated

\* No LLM call of a turn is given more than the thresholds allow, even when
\* keep_recent exceeds the length of the history (a negative slice).
THEOREM PromptsAreBounded == Spec => []PromptIsBounded
<1>1. Init => PromptIsBounded
  BY DEF Init, PromptIsBounded
<1>2. QED
  BY <1>1, TypeInit, TypeStep, BoundStep, PTL DEF Spec
-----------------------------------------------------------------------------
(* The order in which the messages of a session are served.                *)

\* u was received before v
Before(u, v, a) == \E i, j \in 1..Len(a) : i < j /\ a[i] = u /\ a[j] = v

\* q lists the tasks of S, each once, none ahead of one that was received earlier.
Lined(q, a, S) ==
  /\ \A k \in 1..Len(q) : q[k] \in S
  /\ \A u \in S : \E k \in 1..Len(q) : q[k] = u
  /\ \A k, l \in 1..Len(q) : q[k] = q[l] => k = l
  /\ \A k, l \in 1..Len(q) : k < l => ~Before(q[l], q[k], a)

LEMMA LinedTail ==
  ASSUME NEW T, NEW q \in Seq(T), q # <<>>, NEW a, NEW S, Lined(q, a, S)
  PROVE  /\ Head(q) \in S
         /\ \A u \in S : u # Head(q) => ~Before(u, Head(q), a)
         /\ Lined(Tail(q), a, S \ {Head(q)})
<1>1. /\ Len(q) \in Nat /\ Len(q) >= 1 /\ Head(q) = q[1] /\ Len(Tail(q)) = Len(q) - 1
      /\ \A k \in 1..Len(Tail(q)) : Tail(q)[k] = q[k + 1] /\ k + 1 \in 1..Len(q)
  OBVIOUS
<1> DEFINE h == Head(q)
           r == Tail(q)
<1> HIDE DEF h, r
<1>2. /\ Len(q) \in Nat /\ Len(q) >= 1 /\ h = q[1] /\ Len(r) = Len(q) - 1
      /\ \A k \in 1..Len(r) : r[k] = q[k + 1] /\ k + 1 \in 1..Len(q)
  BY <1>1 DEF h, r
<1>3. h \in S
  BY <1>2 DEF Lined
<1>4. ASSUME NEW u \in S, u # h PROVE ~Before(u, h, a) /\ \E k \in 1..Len(r) : r[k] = u
  <2>1. PICK k \in 1..Len(q) : q[k] = u
    BY DEF Lined
  <2>2. k # 1
    BY <2>1, <1>2, <1>4
  <2>3. 1 < k /\ k - 1 \in 1..Len(r) /\ (k - 1) + 1 = k
    BY <2>2, <1>2
  <2>4. r[k - 1] = u
    BY <2>1, <2>3, <1>2
  <2>5. ~Before(u, h, a)
    BY <2>1, <2>3, <1>2 DEF Lined
  <2> QED BY <2>3, <2>4, <2>5
<1>5. \A k \in 1..Len(r) : r[k] \in S \ {h}
  BY <1>2 DEF Lined
<1>6. \A k, l \in 1..Len(r) : r[k] = r[l] => k = l
  <2> SUFFICES ASSUME NEW k \in 1..Len(r), NEW l \in 1..Len(r), r[k] = r[l] PROVE k = l
    OBVIOUS
  <2>1. k + 1 = l + 1
    BY <1>2 DEF Lined
  <2> QED BY <2>1
<1>7. \A k, l \in 1..Len(r) : k < l => ~Before(r[l], r[k], a)
  <2> SUFFICES ASSUME NEW k \in 1..Len(r), NEW l \in 1..Len(r), k < l PROVE ~Before(r[l], r[k], a)
    OBVIOUS
  <2>1. k + 1 < l + 1
    OBVIOUS
  <2> QED BY <2>1, <1>2 DEF Lined
<1>8. Lined(r, a, S \ {h})
  BY <1>4, <1>5, <1>6, <1>7 DEF Lined
<1> QED BY <1>3, <1>4, <1>8 DEF h, r

LEMMA LinedAppend ==
  ASSUME NEW T, NEW q \in Seq(T), NEW a, NEW S, Lined(q, a, S), NEW t \in T, t \notin S,
         \A v \in S : ~Before(t, v, a)
  PROVE  Lined(Append(q, t), a, S \cup {t})
<1> DEFINE r == Append(q, t)
<1>1. /\ Len(q) \in Nat /\ Len(r) = Len(q) + 1 /\ r[Len(q) + 1] = t
      /\ \A k \in 1..Len(q) : r[k] = q[k]
  OBVIOUS
<1> HIDE DEF r
<1>2. \A k \in 1..Len(r) : k \in 1..Len(q) \/ k = Len(q) + 1
  BY <1>1
<1>3. \A k \in 1..Len(q) : k \in 1..Len(r) /\ r[k] \in S
  BY <1>1 DEF Lined
<1>4. \A k \in 1..Len(r) : r[k] \in S \cup {t}
  BY <1>1, <1>2, <1>3
<1>5. \A u \in S \cup {t} : \E k \in 1..Len(r) : r[k] = u
  <2>1. Len(q) + 1 \in 1..Len(r)
    BY <1>1
  <2> QED BY <2>1, <1>1, <1>3 DEF Lined
<1>6. \A k, l \in 1..Len(r) : r[k] = r[l] => k = l
  BY <1>1, <1>2, <1>3 DEF Lined
<1>7. ASSUME NEW k \in 1..Len(r), NEW l \in 1..Len(r), k < l PROVE ~Before(r[l], r[k], a)
  <2>1. k \in 1..Len(q)
    BY <1>1, <1>2, <1>7
  <2>2. CASE l \in 1..Len(q)
    BY <2>1, <2>2, <1>1, <1>7 DEF Lined
  <2>3. CASE l = Len(q) + 1
    BY <2>1, <2>3, <1>1, <1>3
  <2> QED BY <2>2, <2>3, <1>2
<1> QED BY <1>4, <1>5, <1>6, <1>7 DEF Lined, r

\* One more message at the end changes the order of no two others.
LEMMA BeforeAppend ==
  ASSUME NEW T, NEW a \in Seq(T), NEW t \in T, NEW u, NEW v, Before(u, v, Append(a, t))
  PROVE  Before(u, v, a) \/ (v = t /\ \E i \in 1..Len(a) : a[i] = u)
<1> DEFINE b == Append(a, t)
<1>1. /\ Len(a) \in Nat /\ Len(b) = Len(a) + 1 /\ b[Len(a) + 1] = t
      /\ \A k \in 1..Len(a) : b[k] = a[k]
  OBVIOUS
<1>2. PICK i, j \in 1..Len(b) : i < j /\ b[i] = u /\ b[j] = v
  BY DEF Before
<1> HIDE DEF b
<1>3. i \in 1..Len(a)
  BY <1>1, <1>2
<1>4. CASE j \in 1..Len(a)
  BY <1>1, <1>2, <1>3, <1>4 DEF Before
<1>5. CASE j = Len(a) + 1
  BY <1>1, <1>2, <1>3, <1>5
<1> QED BY <1>1, <1>2, <1>4, <1>5

In(state, s) == {t \in Tasks : pc[t] = state /\ SessionOf[t] = s}
Spawned == {t \in Tasks : pc[t] = "spawned"}

\* The listeners' messages are taken up in the order received, whoever comes between.
ArrivalOrder ==
  /\ \A i \in 1..Len(arrivals) :
       /\ pc[arrivals[i]] # "idle"
       /\ pc[arrivals[i]] # "spawned" => \E k \in 1..Len(taken) : taken[k] = arrivals[i]
  /\ \A t \in Inbound : ~Before(t, t, arrivals)
  /\ Spawned \subseteq Inbound \ WebChat
  /\ Lined(spawned, arrivals, Spawned)
  /\ \A t, u \in Inbound :
       Before(t, u, arrivals) /\ u \notin WebChat /\ pc[u] # "spawned" => Before(t, u, taken)

\* Messages of a session wait in the order taken up, and the later one waits for the
\* earlier one to be over.
LineOrder ==
  /\ \A i \in 1..Len(taken) : pc[taken[i]] \notin {"idle", "spawned"}
  /\ \A s \in Sessions : Lined(waiters[s], taken, In("waiting", s))
  /\ \A t, u \in Inbound : Before(t, u, taken) =>
       /\ t # u
       /\ SessionOf[t] = SessionOf[u] /\ pc[t] \notin {"done", "dropped"}
          => pc[u] \in {"waiting", "dropped"}

OrderInv == ArrivalOrder /\ LineOrder

LEMMA BeforeInbound ==
  ASSUME TypeOK, NEW u, NEW v
  PROVE  /\ Before(u, v, arrivals) => u \in Inbound /\ v \in Inbound
         /\ Before(u, v, taken) => u \in Inbound /\ v \in Inbound
<1>1. \A i \in 1..Len(arrivals) : arrivals[i] \in Inbound
  BY DEF TypeOK
<1>2. \A i \in 1..Len(taken) : taken[i] \in Inbound
  BY DEF TypeOK
<1> QED BY <1>1, <1>2 DEF Before

\* A step of a task that leaves the orders alone.
LEMMA ArrivalBeside ==
  ASSUME TypeInv, ArrivalOrder, NEW t \in Tasks, NEW state, UNCHANGED <<spawned, arrivals, taken>>,
         pc' = [pc EXCEPT ![t] = state], pc[t] # "spawned", state \notin {"idle", "spawned"}
  PROVE  ArrivalOrder'
<1>1. pc \in [Tasks -> Pc] /\ \A i \in 1..Len(arrivals) : arrivals[i] \in Tasks
  BY DEF TypeInv, TypeOK, Tasks
<1>2. Spawned' = Spawned
  BY <1>1 DEF Spawned
<1>3. \A u \in Inbound : pc'[u] # "spawned" => pc[u] # "spawned"
  BY <1>1 DEF Tasks
<1>4. ASSUME NEW i \in 1..Len(arrivals)
      PROVE  /\ pc'[arrivals[i]] # "idle"
             /\ pc'[arrivals[i]] # "spawned" => \E k \in 1..Len(taken) : taken[k] = arrivals[i]
  BY <1>1, <1>4 DEF ArrivalOrder
<1> QED BY <1>2, <1>3, <1>4 DEF ArrivalOrder

\* A task that is neither at the head of a line nor at the end of one.
LEMMA OrderBeside ==
  ASSUME TypeInv, OrderInv, NEW t \in Tasks, NEW state,
         UNCHANGED <<spawned, waiters, arrivals, taken>>,
         pc' = [pc EXCEPT ![t] = state],
         \/ InTurn(t) /\ state \in {"recalling", "compacting", "thinking", "delivering", "reporting", "done"}
         \/ t \in Inner /\ pc[t] \in {"idle", "recalling"} /\ state \notin {"idle", "spawned", "waiting"}
  PROVE  OrderInv'
<1>1. /\ pc \in [Tasks -> Pc]
      /\ Inner \cap Inbound = {}
      /\ Inbound \subseteq Tasks
      /\ \A i \in 1..Len(taken) : taken[i] \in Inbound
  BY TasksAssumption DEF TypeInv, TypeOK, Tasks
<1>2. pc[t] \notin {"spawned", "waiting"} /\ state \notin {"idle", "spawned", "waiting"}
  BY DEF InTurn
<1>3. ArrivalOrder'
  BY <1>2, ArrivalBeside DEF OrderInv
<1>4. \A s \in Sessions : In("waiting", s)' = In("waiting", s)
  BY <1>1, <1>2 DEF In
<1>5. \A i \in 1..Len(taken) : pc'[taken[i]] \notin {"idle", "spawned"}
  BY <1>1, <1>2 DEF OrderInv, LineOrder
<1>6. ASSUME NEW u \in Inbound, NEW v \in Inbound, Before(u, v, taken)
      PROVE  /\ u # v
             /\ SessionOf[u] = SessionOf[v] /\ pc'[u] \notin {"done", "dropped"}
                => pc'[v] \in {"waiting", "dropped"}
  <2>1. /\ u # v
        /\ SessionOf[u] = SessionOf[v] /\ pc[u] \notin {"done", "dropped"}
           => pc[v] \in {"waiting", "dropped"}
    BY <1>6 DEF OrderInv, LineOrder
  <2>2. CASE u # t /\ v # t
    BY <2>1, <2>2, <1>1
  <2>3. CASE t \in Inner
    BY <2>2, <2>3, <1>1
  <2>4. CASE InTurn(t)
    BY <2>1, <2>4, <1>1, <1>2 DEF InTurn
  <2> QED BY <2>3, <2>4
<1> QED BY <1>3, <1>4, <1>5, <1>6 DEF OrderInv, LineOrder

LEMMA OrderReceive ==
  ASSUME TypeInv, OrderInv, NEW t \in Tasks, Receive(t)
  PROVE  OrderInv'
<1> DEFINE a == Append(arrivals, t)
<1>1. /\ t \in Inbound \ WebChat /\ pc[t] = "idle" /\ pc \in [Tasks -> Pc]
      /\ arrivals \in Seq(Inbound) /\ spawned \in Seq(Inbound)
      /\ pc' = [pc EXCEPT ![t] = "spawned"]
      /\ spawned' = Append(spawned, t) /\ arrivals' = a /\ waiters' = waiters /\ taken' = taken
      /\ Inbound \subseteq Tasks
      /\ \A i \in 1..Len(taken) : taken[i] \in Inbound
  BY DEF Receive, TypeInv, TypeOK, Tasks
<1>2. /\ Len(a) = Len(arrivals) + 1 /\ Len(arrivals) \in Nat /\ a[Len(arrivals) + 1] = t
      /\ \A i \in 1..Len(arrivals) : a[i] = arrivals[i] /\ arrivals[i] \in Tasks
  BY <1>1
<1>3. \A u, v : Before(u, v, a) =>
        u # t /\ (Before(u, v, arrivals) \/ (v = t /\ \E i \in 1..Len(arrivals) : arrivals[i] = u))
  <2>1. \A i \in 1..Len(arrivals) : arrivals[i] # t
    BY <1>1 DEF OrderInv, ArrivalOrder
  <2> SUFFICES ASSUME NEW u, NEW v, Before(u, v, a)
               PROVE  u # t /\ (Before(u, v, arrivals) \/ (v = t /\ \E i \in 1..Len(arrivals) : arrivals[i] = u))
    OBVIOUS
  <2>2. Before(u, v, arrivals) \/ (v = t /\ \E i \in 1..Len(arrivals) : arrivals[i] = u)
    BY <1>1, BeforeAppend
  <2> QED BY <2>1, <2>2 DEF Before
<1> HIDE DEF a
<1>4. \A i \in 1..Len(a) :
        /\ pc'[a[i]] # "idle"
        /\ pc'[a[i]] # "spawned" => \E k \in 1..Len(taken) : taken[k] = a[i]
  <2>1. \A i \in 1..Len(a) : i \in 1..Len(arrivals) \/ a[i] = t
    BY <1>2
  <2>2. \A i \in 1..Len(arrivals) :
          /\ pc'[arrivals[i]] # "idle"
          /\ pc'[arrivals[i]] # "spawned" => \E k \in 1..Len(taken) : taken[k] = arrivals[i]
    BY <1>1, <1>2 DEF OrderInv, ArrivalOrder
  <2>3. pc'[t] = "spawned"
    BY <1>1
  <2> QED BY <1>2, <2>1, <2>2, <2>3
<1>5. /\ Spawned' = Spawned \cup {t} /\ t \notin Spawned
      /\ \A s \in Sessions : In("waiting", s)' = In("waiting", s)
  BY <1>1 DEF Spawned, In
<1>6. Lined(spawned', a, Spawned')
  <2>1. Lined(spawned, a, Spawned)
    BY <1>3, <1>5 DEF OrderInv, ArrivalOrder, Lined
  <2>2. \A v \in Spawned : ~Before(t, v, a)
    BY <1>3
  <2> QED BY <2>1, <2>2, <1>1, <1>5, LinedAppend
<1>7. ASSUME NEW u \in Inbound, NEW v \in Inbound, Before(u, v, a), v \notin WebChat, pc'[v] # "spawned"
      PROVE  Before(u, v, taken)
  <2>1. v # t /\ pc[v] # "spawned" /\ Before(u, v, arrivals)
    BY <1>1, <1>3, <1>7
  <2> QED BY <2>1, <1>7 DEF OrderInv, ArrivalOrder
<1>8. ArrivalOrder'
  <2>1. Spawned' \subseteq Inbound \ WebChat
    BY <1>1, <1>5 DEF OrderInv, ArrivalOrder
  <2>2. \A u \in Inbound : ~Before(u, u, a)
    BY <1>3 DEF OrderInv, ArrivalOrder
  <2> QED BY <1>1, <1>4, <1>6, <1>7, <2>1, <2>2 DEF ArrivalOrder
<1>9. \A i \in 1..Len(taken) : taken[i] # t
  BY <1>1 DEF OrderInv, LineOrder
<1>10. \A u, v : Before(u, v, taken) => u # t /\ v # t
  BY <1>9 DEF Before
<1>11. \A i \in 1..Len(taken) : pc'[taken[i]] \notin {"idle", "spawned"}
  BY <1>1, <1>9 DEF OrderInv, LineOrder
<1>12. \A u, v \in Inbound : Before(u, v, taken) => pc'[u] = pc[u] /\ pc'[v] = pc[v]
  BY <1>1, <1>10
<1>13. LineOrder'
  BY <1>1, <1>5, <1>11, <1>12 DEF OrderInv, LineOrder
<1> QED BY <1>8, <1>13 DEF OrderInv

\* When nobody holds the lock of a session, who is not new, waiting or over is not one
\* of its messages.
LEMMA LockFreeRest ==
  ASSUME TypeInv, LockInv, NEW u \in Inbound, holder[SessionOf[u]] = NoTask
  PROVE  pc[u] \in {"idle", "spawned", "waiting", "done", "dropped"}
<1>1. ~InTurn(u)
  BY TasksAssumption DEF LockInv, Tasks
<1>2. pc[u] \in Pc
  BY DEF TypeInv, TypeOK, Tasks
<1> QED BY <1>1, <1>2 DEF InTurn, Pc

\* Where a session's lock is free, whatever was taken up before is over.
LEMMA AllOverWhenFree ==
  ASSUME TypeInv, LockInv, LineOrder, NEW s \in Sessions, LockFree(s),
         NEW i \in 1..Len(taken), SessionOf[taken[i]] = s
  PROVE  pc[taken[i]] \in {"done", "dropped"}
<1>1. taken[i] \in Inbound /\ taken[i] \in Tasks
  BY DEF TypeInv, TypeOK, Tasks
<1>2. pc[taken[i]] \in {"idle", "spawned", "waiting", "done", "dropped"}
  BY <1>1, LockFreeRest DEF LockFree
<1>3. pc[taken[i]] \notin {"idle", "spawned"}
  BY DEF LineOrder
<1>4. pc[taken[i]] # "waiting"
  <2>1. Len(waiters[s]) = 0
    BY DEF LockFree
  <2>2. Lined(waiters[s], taken, In("waiting", s))
    BY DEF LineOrder
  <2> QED BY <1>1, <2>1, <2>2 DEF Lined, In
<1> QED BY <1>2, <1>3, <1>4

\* handle_inbound puts its message at the end of the line of its session.
LEMMA LineApproach ==
  ASSUME TypeInv, LockInv, LineOrder, NEW t \in Inbound, pc[t] \in {"idle", "spawned"}, Approach(t)
  PROVE  LineOrder'
<1> DEFINE b == Append(taken, t)
<1>1. /\ pc \in [Tasks -> Pc] /\ waiters \in [Sessions -> Seq(Tasks)]
      /\ taken \in Seq(Inbound) /\ taken' = b
      /\ \A u \in Tasks : SessionOf[u] \in Sessions
      /\ Inbound \subseteq Tasks
  BY TasksAssumption DEF Approach, TypeInv, TypeOK, Tasks
<1>2. /\ Len(b) = Len(taken) + 1 /\ Len(taken) \in Nat /\ b[Len(taken) + 1] = t
      /\ \A i \in 1..Len(taken) : b[i] = taken[i] /\ taken[i] \in Inbound
  BY <1>1
<1>3. \A i \in 1..Len(taken) : taken[i] # t
  BY DEF LineOrder
<1>4. \A u, v : Before(u, v, b) =>
        u # t /\ (Before(u, v, taken) \/ (v = t /\ \E i \in 1..Len(taken) : taken[i] = u))
  <2> SUFFICES ASSUME NEW u, NEW v, Before(u, v, b)
               PROVE  u # t /\ (Before(u, v, taken) \/ (v = t /\ \E i \in 1..Len(taken) : taken[i] = u))
    OBVIOUS
  <2>1. Before(u, v, taken) \/ (v = t /\ \E i \in 1..Len(taken) : taken[i] = u)
    BY <1>1, BeforeAppend
  <2> QED BY <2>1, <1>3 DEF Before
<1>5. \A u, v : Before(u, v, taken) => u # t /\ v # t
  BY <1>3 DEF Before
<1> HIDE DEF b
<1>6. PICK state \in {"dropped", "recalling", "waiting"} : pc' = [pc EXCEPT ![t] = state]
  BY DEF Approach, EnterTurn, Queue
<1>7. /\ state = "recalling" => LockFree(SessionOf[t])
      /\ state # "waiting" => waiters' = waiters
      /\ state = "waiting" => waiters' = [waiters EXCEPT ![SessionOf[t]] = Append(@, t)]
  <2>1. pc'[t] = state
    BY <1>1, <1>6
  <2>2. CASE pc' = [pc EXCEPT ![t] = "dropped"] /\ UNCHANGED waiters
    BY <2>1, <2>2, <1>1
  <2>3. CASE LockFree(SessionOf[t]) /\ EnterTurn(t) /\ UNCHANGED waiters
    BY <2>1, <2>3, <1>1 DEF EnterTurn
  <2>4. CASE Queue(t)
    BY <2>1, <2>4, <1>1 DEF Queue
  <2> QED BY <2>2, <2>3, <2>4 DEF Approach
<1>8. \A i \in 1..Len(b) : pc'[b[i]] \notin {"idle", "spawned"}
  <2>1. \A i \in 1..Len(b) : i \in 1..Len(taken) \/ b[i] = t
    BY <1>2
  <2> QED BY <2>1, <1>1, <1>2, <1>6 DEF LineOrder
<1>9. ASSUME NEW s \in Sessions PROVE Lined(waiters'[s], b, In("waiting", s)')
  <2>1. Lined(waiters[s], taken, In("waiting", s)) /\ waiters[s] \in Seq(Tasks)
    BY <1>1 DEF LineOrder
  <2>2. t \notin In("waiting", s)
    BY DEF In
  <2>3. Lined(waiters[s], b, In("waiting", s))
    BY <2>1, <2>2, <1>4 DEF Lined
  <2>4. CASE state # "waiting" \/ s # SessionOf[t]
    <3>1. In("waiting", s)' = In("waiting", s)
      BY <2>4, <1>1, <1>6 DEF In
    <3>2. waiters'[s] = waiters[s]
      BY <2>4, <1>1, <1>7
    <3> QED BY <2>3, <3>1, <3>2
  <2>5. CASE state = "waiting" /\ s = SessionOf[t]
    <3>1. In("waiting", s)' = In("waiting", s) \cup {t}
      BY <2>5, <1>1, <1>6 DEF In
    <3>2. waiters'[s] = Append(waiters[s], t)
      BY <2>5, <1>1, <1>7
    <3>3. \A v \in In("waiting", s) : ~Before(t, v, b)
      BY <1>4
    <3> QED BY <2>1, <2>2, <2>3, <3>1, <3>2, <3>3, <1>1, LinedAppend
  <2> QED BY <2>4, <2>5
<1>10. ASSUME NEW u \in Inbound, NEW v \in Inbound, Before(u, v, b)
      PROVE  /\ u # v
             /\ SessionOf[u] = SessionOf[v] /\ pc'[u] \notin {"done", "dropped"}
                => pc'[v] \in {"waiting", "dropped"}
  <2>1. u # t /\ pc'[u] = pc[u]
    BY <1>1, <1>4, <1>6, <1>10
  <2>2. CASE v # t
    <3>1. Before(u, v, taken) /\ pc'[v] = pc[v]
      BY <1>1, <1>4, <1>6, <1>10, <2>2
    <3> QED BY <2>1, <3>1 DEF LineOrder
  <2>3. CASE v = t
    <3>1. pc'[v] = state
      BY <1>1, <1>6, <2>3
    <3>2. PICK i \in 1..Len(taken) : taken[i] = u
      BY <1>4, <1>5, <1>10, <2>3
    <3>3. ASSUME state = "recalling", SessionOf[u] = SessionOf[t] PROVE pc[u] \in {"done", "dropped"}
      BY <1>1, <1>7, <3>2, <3>3, AllOverWhenFree
    <3> QED BY <2>1, <2>3, <3>1, <3>3
  <2> QED BY <2>2, <2>3
<1> QED BY <1>1, <1>8, <1>9, <1>10 DEF LineOrder

\* handle_inbound runs for the first of the spawned tasks, or for a new WebChat frame.
Taking(t) == HandleInbound(t) \/ TakeFrame(t)

LEMMA TakingFrom ==
  ASSUME TypeInv, OrderInv, NEW t \in Tasks, Taking(t)
  PROVE  /\ t \in Inbound /\ pc[t] \in {"idle", "spawned"}
         /\ Approach(t)
         /\ UNCHANGED <<convVars, memVars, outVars, resets>>
         /\ HandleInbound(t) => /\ pc[t] = "spawned"
                                /\ \A u \in Spawned : u # t => ~Before(u, t, arrivals)
                                /\ Lined(Tail(spawned), arrivals, Spawned \ {t})
<1>1. CASE HandleInbound(t)
  <2>1. /\ spawned \in Seq(Inbound) /\ spawned # <<>> /\ t = Head(spawned)
        /\ Lined(spawned, arrivals, Spawned)
    BY <1>1 DEF HandleInbound, TypeInv, TypeOK, OrderInv, ArrivalOrder
  <2>2. /\ t \in Spawned
        /\ \A u \in Spawned : u # t => ~Before(u, t, arrivals)
        /\ Lined(Tail(spawned), arrivals, Spawned \ {t})
    BY <2>1, LinedTail
  <2> QED BY <1>1, <2>1, <2>2 DEF HandleInbound, Spawned
<1>2. CASE TakeFrame(t) /\ ~HandleInbound(t)
  BY <1>2, TasksAssumption DEF TakeFrame
<1> QED BY <1>1, <1>2 DEF Taking

LEMMA ApproachMoves ==
  ASSUME NEW t \in Inbound, Approach(t)
  PROVE  /\ taken' = Append(taken, t)
         /\ \E state \in {"dropped", "recalling", "waiting"} : pc' = [pc EXCEPT ![t] = state]
  BY DEF Approach, EnterTurn, Queue

LEMMA OrderHandle ==
  ASSUME TypeInv, LockInv, OrderInv, NEW t \in Tasks, HandleInbound(t)
  PROVE  OrderInv'
<1>0. Taking(t)
  BY DEF Taking
<1>1. /\ t \in Inbound /\ pc[t] = "spawned" /\ Approach(t)
      /\ \A u \in Spawned : u # t => ~Before(u, t, arrivals)
      /\ Lined(Tail(spawned), arrivals, Spawned \ {t})
  BY <1>0, TakingFrom
<1>2. PICK state \in {"dropped", "recalling", "waiting"} : pc' = [pc EXCEPT ![t] = state]
  BY <1>1, ApproachMoves
<1>3. /\ pc \in [Tasks -> Pc] /\ arrivals' = arrivals /\ spawned' = Tail(spawned)
      /\ taken \in Seq(Inbound) /\ taken' = Append(taken, t) /\ Inbound \subseteq Tasks
      /\ \A i \in 1..Len(arrivals) : arrivals[i] \in Inbound
  BY <1>1, ApproachMoves DEF HandleInbound, TypeInv, TypeOK, Tasks
<1> DEFINE b == Append(taken, t)
<1>4. /\ Len(b) = Len(taken) + 1 /\ Len(taken) \in Nat /\ b[Len(taken) + 1] = t
      /\ \A i \in 1..Len(taken) : b[i] = taken[i]
  BY <1>3
<1>5. taken' = b
  BY <1>3
<1> HIDE DEF b
<1>6. Spawned' = Spawned \ {t}
  BY <1>2, <1>3 DEF Spawned
<1>7. \A i \in 1..Len(taken) : i \in 1..Len(b)
  BY <1>4
<1>8. ASSUME NEW i \in 1..Len(arrivals)
      PROVE  /\ pc'[arrivals[i]] # "idle"
             /\ pc'[arrivals[i]] # "spawned" => \E k \in 1..Len(b) : b[k] = arrivals[i]
  <2>1. /\ pc[arrivals[i]] # "idle"
        /\ pc[arrivals[i]] # "spawned" => \E k \in 1..Len(taken) : taken[k] = arrivals[i]
    BY DEF OrderInv, ArrivalOrder
  <2>2. CASE arrivals[i] = t
    <3>1. Len(taken) + 1 \in 1..Len(b)
      BY <1>4
    <3> QED BY <2>2, <3>1, <1>2, <1>3, <1>4
  <2>3. CASE arrivals[i] # t
    BY <2>1, <2>3, <1>2, <1>3, <1>4, <1>7
  <2> QED BY <2>2, <2>3
<1>9. ASSUME NEW u \in Inbound, NEW v \in Inbound, Before(u, v, arrivals), v \notin WebChat, pc'[v] # "spawned"
      PROVE  Before(u, v, b)
  <2>1. CASE v # t
    <3>1. Before(u, v, taken)
      BY <2>1, <1>2, <1>3, <1>9 DEF OrderInv, ArrivalOrder
    <3>2. PICK i, j \in 1..Len(taken) : i < j /\ taken[i] = u /\ taken[j] = v
      BY <3>1 DEF Before
    <3> QED BY <3>2, <1>4, <1>7 DEF Before
  <2>2. CASE v = t
    <3>1. PICK i, j \in 1..Len(arrivals) : i < j /\ arrivals[i] = u /\ arrivals[j] = v
      BY <1>9 DEF Before
    <3>2. CASE u # t
      <4>1. pc[u] # "spawned"
        BY <3>2, <2>2, <1>1, <1>3, <1>9 DEF Spawned
      <4>2. PICK k \in 1..Len(taken) : taken[k] = u
        BY <3>1, <4>1 DEF OrderInv, ArrivalOrder
      <4>3. /\ k \in 1..Len(b) /\ Len(taken) + 1 \in 1..Len(b) /\ k < Len(taken) + 1
            /\ b[k] = u /\ b[Len(taken) + 1] = v
        BY <4>2, <2>2, <1>4
      <4> QED BY <4>3 DEF Before
    <3>3. CASE u = t
      <4>1. ~Before(t, t, arrivals)
        BY <1>1 DEF OrderInv, ArrivalOrder
      <4> QED BY <4>1, <3>3, <2>2, <1>9
    <3> QED BY <3>2, <3>3
  <2> QED BY <2>1, <2>2
<1>10. ArrivalOrder'
  <2>1. Spawned' \subseteq Inbound \ WebChat
    BY <1>6 DEF OrderInv, ArrivalOrder
  <2>2. \A u \in Inbound : ~Before(u, u, arrivals)
    BY DEF OrderInv, ArrivalOrder
  <2> QED BY <1>1, <1>3, <1>5, <1>6, <1>8, <1>9, <2>1, <2>2 DEF ArrivalOrder
<1>11. LineOrder'
  BY <1>1, LineApproach DEF OrderInv
<1> QED BY <1>10, <1>11 DEF OrderInv

LEMMA OrderFrame ==
  ASSUME TypeInv, LockInv, OrderInv, NEW t \in Tasks, TakeFrame(t)
  PROVE  OrderInv'
<1> DEFINE a == Append(arrivals, t)
           b == Append(taken, t)
<1>1. /\ t \in WebChat /\ t \in Inbound /\ pc[t] = "idle" /\ Approach(t)
      /\ arrivals' = a /\ taken' = b /\ spawned' = spawned
      /\ pc \in [Tasks -> Pc] /\ arrivals \in Seq(Inbound) /\ taken \in Seq(Inbound)
      /\ Inbound \subseteq Tasks
  BY TasksAssumption, ApproachMoves DEF TakeFrame, TypeInv, TypeOK, Tasks
<1>2. PICK state \in {"dropped", "recalling", "waiting"} : pc' = [pc EXCEPT ![t] = state]
  BY <1>1, ApproachMoves
<1>3. /\ Len(a) = Len(arrivals) + 1 /\ Len(arrivals) \in Nat /\ a[Len(arrivals) + 1] = t
      /\ \A i \in 1..Len(arrivals) : a[i] = arrivals[i] /\ arrivals[i] \in Tasks
  BY <1>1
<1>4. /\ Len(b) = Len(taken) + 1 /\ Len(taken) \in Nat /\ b[Len(taken) + 1] = t
      /\ \A i \in 1..Len(taken) : b[i] = taken[i] /\ i \in 1..Len(b)
  BY <1>1
<1>5. \A u, v : Before(u, v, a) =>
        u # t /\ (Before(u, v, arrivals) \/ (v = t /\ \E i \in 1..Len(arrivals) : arrivals[i] = u))
  <2>1. \A i \in 1..Len(arrivals) : arrivals[i] # t
    BY <1>1 DEF OrderInv, ArrivalOrder
  <2> SUFFICES ASSUME NEW u, NEW v, Before(u, v, a)
               PROVE  u # t /\ (Before(u, v, arrivals) \/ (v = t /\ \E i \in 1..Len(arrivals) : arrivals[i] = u))
    OBVIOUS
  <2>2. Before(u, v, arrivals) \/ (v = t /\ \E i \in 1..Len(arrivals) : arrivals[i] = u)
    BY <1>1, BeforeAppend
  <2> QED BY <2>1, <2>2 DEF Before
<1> HIDE DEF a, b
<1>6. Spawned' = Spawned /\ t \notin Spawned
  BY <1>1, <1>2 DEF Spawned
<1>7. ASSUME NEW i \in 1..Len(a)
      PROVE  /\ pc'[a[i]] # "idle"
             /\ pc'[a[i]] # "spawned" => \E k \in 1..Len(b) : b[k] = a[i]
  <2>1. CASE i \in 1..Len(arrivals)
    <3>1. /\ pc[arrivals[i]] # "idle"
          /\ pc[arrivals[i]] # "spawned" => \E k \in 1..Len(taken) : taken[k] = arrivals[i]
      BY <2>1 DEF OrderInv, ArrivalOrder
    <3>2. a[i] = arrivals[i] /\ arrivals[i] # t
      BY <2>1, <3>1, <1>1, <1>3
    <3>3. pc'[a[i]] = pc[arrivals[i]]
      BY <2>1, <3>2, <1>1, <1>2, <1>3
    <3> QED BY <3>1, <3>2, <3>3, <1>4
  <2>2. CASE i = Len(arrivals) + 1
    <3>1. a[i] = t /\ pc'[t] = state /\ Len(taken) + 1 \in 1..Len(b)
      BY <2>2, <1>1, <1>2, <1>3, <1>4
    <3> QED BY <3>1, <1>2, <1>4
  <2> QED BY <2>1, <2>2, <1>3
<1>8. Lined(spawned, a, Spawned)
  <2>1. Lined(spawned, arrivals, Spawned)
    BY DEF OrderInv, ArrivalOrder
  <2>2. \A u, v \in Spawned : Before(u, v, a) => Before(u, v, arrivals)
    BY <1>5, <1>6
  <2> QED BY <2>1, <2>2 DEF Lined
<1>9. ASSUME NEW u \in Inbound, NEW v \in Inbound, Before(u, v, a), v \notin WebChat, pc'[v] # "spawned"
      PROVE  Before(u, v, b)
  <2>1. v # t
    BY <1>1, <1>9
  <2>2. Before(u, v, arrivals) /\ pc[v] # "spawned"
    BY <2>1, <1>1, <1>2, <1>5, <1>9
  <2>3. Before(u, v, taken)
    BY <2>2, <1>9 DEF OrderInv, ArrivalOrder
  <2>4. PICK i, j \in 1..Len(taken) : i < j /\ taken[i] = u /\ taken[j] = v
    BY <2>3 DEF Before
  <2> QED BY <2>4, <1>4 DEF Before
<1>10. ArrivalOrder'
  <2>1. \A u \in Inbound : ~Before(u, u, a)
    BY <1>5 DEF OrderInv, ArrivalOrder
  <2>2. Spawned \subseteq Inbound \ WebChat
    BY DEF OrderInv, ArrivalOrder
  <2> QED BY <1>1, <1>6, <1>7, <1>8, <1>9, <2>1, <2>2 DEF ArrivalOrder
<1>11. LineOrder'
  BY <1>1, LineApproach DEF OrderInv
<1> QED BY <1>10, <1>11 DEF OrderInv

\* A delegation joins the line of its session.
LEMMA OrderQueue ==
  ASSUME TypeInv, OrderInv, NEW t \in Inner, pc[t] = "recalling", Queue(t),
         UNCHANGED <<spawned, arrivals, taken>>
  PROVE  OrderInv'
<1>1. /\ t \in Tasks /\ t \notin Inbound
      /\ pc \in [Tasks -> Pc] /\ waiters \in [Sessions -> Seq(Tasks)] /\ SessionOf[t] \in Sessions
      /\ waiters' = [waiters EXCEPT ![SessionOf[t]] = Append(@, t)]
      /\ pc' = [pc EXCEPT ![t] = "waiting"]
      /\ \A i \in 1..Len(taken) : taken[i] \in Inbound
      /\ Inbound \subseteq Tasks
  BY TasksAssumption DEF Queue, TypeInv, TypeOK, Tasks
<1>2. \A u, v : Before(u, v, taken) => u # t /\ v # t
  BY <1>1, BeforeInbound DEF TypeInv
<1>3. ArrivalOrder'
  <2>1. pc[t] # "spawned" /\ "waiting" \notin {"idle", "spawned"}
    OBVIOUS
  <2>2. ArrivalOrder /\ pc' = [pc EXCEPT ![t] = "waiting"]
    BY <1>1 DEF OrderInv
  <2> QED BY <1>1, <2>1, <2>2, ArrivalBeside
<1>4. \A i \in 1..Len(taken) : pc'[taken[i]] \notin {"idle", "spawned"}
  BY <1>1 DEF OrderInv, LineOrder
<1>5. ASSUME NEW s \in Sessions PROVE Lined(waiters'[s], taken, In("waiting", s)')
  <2>1. Lined(waiters[s], taken, In("waiting", s)) /\ waiters[s] \in Seq(Tasks)
    BY <1>1 DEF OrderInv, LineOrder
  <2>2. CASE s # SessionOf[t]
    <3>1. In("waiting", s)' = In("waiting", s) /\ waiters'[s] = waiters[s]
      BY <2>2, <1>1 DEF In
    <3> QED BY <2>1, <3>1
  <2>3. CASE s = SessionOf[t]
    <3>1. In("waiting", s)' = In("waiting", s) \cup {t} /\ waiters'[s] = Append(waiters[s], t)
      BY <2>3, <1>1 DEF In
    <3>2. t \notin In("waiting", s)
      BY DEF In
    <3> QED BY <2>1, <3>1, <3>2, <1>1, <1>2, LinedAppend
  <2> QED BY <2>2, <2>3
<1>6. \A u \in Inbound : pc'[u] = pc[u]
  BY <1>1
<1>7. LineOrder'
  BY <1>4, <1>5, <1>6 DEF OrderInv, LineOrder
<1> QED BY <1>3, <1>7 DEF OrderInv

LEMMA OrderWake ==
  ASSUME TypeInv, LockInv, OrderInv, NEW t \in Tasks, Wake(t)
  PROVE  OrderInv'
<1> DEFINE s == SessionOf[t]
<1>1. /\ pc[t] = "waiting" /\ holder[s] = NoTask /\ waiters[s] # <<>> /\ t = Head(waiters[s])
      /\ waiters' = [waiters EXCEPT ![s] = Tail(@)]
      /\ UNCHANGED <<spawned, arrivals, taken>>
  BY DEF Wake
<1>2. /\ pc \in [Tasks -> Pc] /\ waiters \in [Sessions -> Seq(Tasks)] /\ s \in Sessions
      /\ \A i \in 1..Len(taken) : taken[i] \in Tasks
      /\ Inbound \subseteq Tasks
  BY TasksAssumption DEF TypeInv, TypeOK, Tasks
<1>3. /\ \A u \in In("waiting", s) : u # t => ~Before(u, t, taken)
      /\ Lined(Tail(waiters[s]), taken, In("waiting", s) \ {t})
  <2>1. Lined(waiters[s], taken, In("waiting", s)) /\ waiters[s] \in Seq(Tasks)
    BY <1>2 DEF OrderInv, LineOrder
  <2> QED BY <2>1, <1>1, LinedTail
<1>4. PICK state \in {"recalling", "compacting", "thinking"} : pc' = [pc EXCEPT ![t] = state]
  BY TakeQuestionMoves DEF Wake, EnterTurn
<1>5. ArrivalOrder'
  BY <1>1, <1>4, ArrivalBeside DEF OrderInv
<1>6. \A i \in 1..Len(taken) : pc'[taken[i]] \notin {"idle", "spawned"}
  BY <1>1, <1>2, <1>4 DEF OrderInv, LineOrder
<1>7. ASSUME NEW r \in Sessions PROVE Lined(waiters'[r], taken, In("waiting", r)')
  <2>1. CASE r # s
    <3>1. In("waiting", r)' = In("waiting", r) /\ waiters'[r] = waiters[r]
      BY <2>1, <1>1, <1>2, <1>4 DEF In
    <3> QED BY <3>1 DEF OrderInv, LineOrder
  <2>2. CASE r = s
    <3>1. In("waiting", r)' = In("waiting", r) \ {t} /\ waiters'[r] = Tail(waiters[r])
      BY <2>2, <1>1, <1>2, <1>4 DEF In
    <3> QED BY <2>2, <3>1, <1>3
  <2> QED BY <2>1, <2>2
<1>8. ASSUME NEW u \in Inbound, NEW v \in Inbound, Before(u, v, taken)
      PROVE  /\ u # v
             /\ SessionOf[u] = SessionOf[v] /\ pc'[u] \notin {"done", "dropped"}
                => pc'[v] \in {"waiting", "dropped"}
  <2>1. /\ u # v
        /\ SessionOf[u] = SessionOf[v] /\ pc[u] \notin {"done", "dropped"}
           => pc[v] \in {"waiting", "dropped"}
    BY <1>8 DEF OrderInv, LineOrder
  <2>2. CASE u # t /\ v # t
    BY <2>1, <2>2, <1>2, <1>4
  <2>3. CASE u = t
    BY <2>1, <2>3, <1>1, <1>2, <1>4
  <2>4. CASE v = t
    <3>1. u # t /\ pc'[u] = pc[u] /\ pc[u] \notin {"idle", "spawned"}
      <4>1. pc[u] \notin {"idle", "spawned"}
        BY <1>8 DEF OrderInv, LineOrder, Before
      <4> QED BY <4>1, <2>1, <2>4, <1>2, <1>4
    <3>2. ASSUME SessionOf[u] = s PROVE pc[u] \in {"done", "dropped"}
      <4>1. pc[u] \in {"idle", "spawned", "waiting", "done", "dropped"}
        BY <3>2, <1>1, LockFreeRest
      <4>2. pc[u] # "waiting"
        BY <3>1, <3>2, <2>4, <1>2, <1>3, <1>8 DEF In
      <4> QED BY <4>1, <4>2, <3>1
    <3> QED BY <3>1, <3>2, <2>1, <2>4
  <2> QED BY <2>2, <2>3, <2>4
<1>9. LineOrder'
  BY <1>1, <1>6, <1>7, <1>8 DEF LineOrder
<1> QED BY <1>5, <1>9 DEF OrderInv

LEMMA OrderIdle ==
  ASSUME OrderInv, UNCHANGED <<pc, spawned, waiters, arrivals, taken>>
  PROVE  OrderInv'
  BY DEF OrderInv, ArrivalOrder, LineOrder, Spawned, In

LEMMA OrderStep == TypeInv /\ LockInv /\ OrderInv /\ [Next]_vars => OrderInv'
<1> SUFFICES ASSUME TypeInv, LockInv, OrderInv, [Next]_vars PROVE OrderInv'
  OBVIOUS
<1>1. ASSUME NEW t \in Tasks, Receive(t) PROVE OrderInv'
  BY <1>1, OrderReceive
<1>2. ASSUME NEW t \in Tasks, AskInner(t) PROVE OrderInv'
  BY <1>2, OrderBeside DEF AskInner, lockVars
<1>3. ASSUME NEW t \in Tasks, HandleInbound(t) PROVE OrderInv'
  BY <1>3, OrderHandle
<1>f. ASSUME NEW t \in Tasks, TakeFrame(t) PROVE OrderInv'
  BY <1>f, OrderFrame
<1>4. ASSUME NEW t \in Tasks, Recall(t) PROVE OrderInv'
  BY <1>4, TakeQuestionMoves, OrderBeside DEF Recall, InTurn, lockVars
<1>5. ASSUME NEW t \in Tasks, RecallInner(t) PROVE OrderInv'
  <2>1. CASE TakeQuestion(t) /\ UNCHANGED waiters
    BY <1>5, <2>1, TakeQuestionMoves, OrderBeside DEF RecallInner
  <2>2. CASE Queue(t)
    BY <1>5, <2>2, OrderQueue DEF RecallInner
  <2> QED BY <1>5, <2>1, <2>2 DEF RecallInner
<1>6. ASSUME NEW t \in Tasks, Wake(t) PROVE OrderInv'
  BY <1>6, OrderWake
<1>7. ASSUME NEW t \in Tasks, NEW ok \in BOOLEAN, Compact(t, ok) PROVE OrderInv'
  BY <1>7, OrderBeside DEF Compact, InTurn, lockVars
<1>8. ASSUME NEW t \in Tasks, Remember(t) PROVE OrderInv'
  BY <1>8, OrderIdle DEF Remember, lockVars
<1>9. ASSUME NEW t \in Tasks, NEW n \in 0..MaxBlocks, Answer(t, n) PROVE OrderInv'
  BY <1>9, OrderBeside DEF Answer, InTurn
<1>10. ASSUME NEW t \in Tasks, Fail(t) PROVE OrderInv'
  BY <1>10, OrderBeside DEF Fail, InTurn
<1>11. ASSUME NEW t \in Tasks, DeliverBlock(t) PROVE OrderInv'
  BY <1>11, OrderIdle DEF DeliverBlock, lockVars
<1>12. ASSUME NEW t \in Tasks, DeliverFails(t) PROVE OrderInv'
  BY <1>12, OrderBeside DEF DeliverFails, InTurn, lockVars
<1>13. ASSUME NEW t \in Tasks, Finish(t) PROVE OrderInv'
  BY <1>13, OrderBeside DEF Finish, InTurn
<1>14. ASSUME NEW t \in Tasks, ReportError(t) PROVE OrderInv'
  BY <1>14, OrderBeside DEF ReportError, InTurn
<1>15. ASSUME NEW s \in Sessions, Reset(s) PROVE OrderInv'
  BY <1>15, OrderIdle DEF Reset, lockVars
<1>16. CASE UNCHANGED vars
  BY <1>16, OrderIdle DEF vars, lockVars
<1>17. QED
  BY <1>1, <1>2, <1>3, <1>f, <1>4, <1>5, <1>6, <1>7, <1>8, <1>9, <1>10, <1>11, <1>12, <1>13,
     <1>14, <1>15, <1>16 DEF Next, Step, Terminated

\* manager.py: "FIFO order".  For any number of messages, sessions and delegations
\* the messages of a session are served in the order taken up, and one that came
\* through a listener after every message of its session received before.
THEOREM ServedAsReceived == Spec => []ServedInOrder
<1>1. Init => LockInv
  BY DEF Init, LockInv, InTurn
<1>2. Init => OrderInv
  BY DEF Init, OrderInv, ArrivalOrder, LineOrder, Lined, Spawned, In, Before
<1>3. TypeInv /\ OrderInv => ServedInOrder
  <2> SUFFICES ASSUME TypeInv, OrderInv PROVE ServedInOrder
    OBVIOUS
  <2>1. ASSUME NEW t \in Inbound, NEW u \in Inbound, Before(t, u, taken),
               SessionOf[t] = SessionOf[u], Begun(u)
        PROVE  pc[t] \in {"done", "dropped"}
    BY <2>1 DEF Begun, InTurn, OrderInv, LineOrder
  <2>2. ASSUME NEW i \in DOMAIN taken, NEW j \in DOMAIN taken,
               i < j, SessionOf[taken[i]] = SessionOf[taken[j]], Begun(taken[j])
        PROVE  pc[taken[i]] \in {"done", "dropped"}
    <3>1. i \in 1..Len(taken) /\ j \in 1..Len(taken) /\ taken[i] \in Inbound /\ taken[j] \in Inbound
      BY DEF TypeInv, TypeOK
    <3>2. Before(taken[i], taken[j], taken)
      BY <2>2, <3>1 DEF Before
    <3> QED BY <2>1, <2>2, <3>1, <3>2
  <2>3. ASSUME NEW i \in DOMAIN arrivals, NEW j \in DOMAIN arrivals, i < j,
               arrivals[j] \in Inbound \ WebChat,
               SessionOf[arrivals[i]] = SessionOf[arrivals[j]], Begun(arrivals[j])
        PROVE  pc[arrivals[i]] \in {"done", "dropped"}
    <3>1. /\ i \in 1..Len(arrivals) /\ j \in 1..Len(arrivals)
          /\ arrivals[i] \in Inbound /\ arrivals[j] \in Inbound
      BY DEF TypeInv, TypeOK
    <3>b. Before(arrivals[i], arrivals[j], arrivals)
      BY <2>3, <3>1 DEF Before
    <3>2. pc[arrivals[j]] # "spawned"
      BY <2>3 DEF Begun, InTurn
    <3>3. Before(arrivals[i], arrivals[j], taken)
      BY <2>3, <3>1, <3>b, <3>2 DEF OrderInv, ArrivalOrder
    <3> QED BY <2>1, <2>3, <3>1, <3>3
  <2> QED BY <2>2, <2>3 DEF ServedInOrder
<1> QED BY <1>1, <1>2, <1>3, TypeInit, TypeStep, LockStep, OrderStep, PTL DEF Spec
-----------------------------------------------------------------------------
(* What a session's peers receive, and what its turns could remember.      *)

BeforeQuestion == {"idle", "spawned", "recalling", "waiting", "dropped"}
AtWork == {"compacting", "thinking", "delivering", "reporting"}

\* The questions of a session are its own tasks', each asked once.
Questions ==
  \A s \in Sessions : \A k, l \in Asked(s) :
    /\ SessionOf[log[s][k].task] = s
    /\ pc[log[s][k].task] \notin BeforeQuestion
    /\ log[s][k].task = log[s][l].task => k = l

\* The question a task works on is the latest of its session.
Latest ==
  \A t \in Tasks : pc[t] \in AtWork =>
    \E k \in Asked(SessionOf[t]) :
      log[SessionOf[t]][k].task = t /\ \A l \in Asked(SessionOf[t]) : l <= k

\* What was sent was asked for, and of a task that is still sending it is
\* the blocks before the next one.
Posted ==
  \A s \in Sessions : \A i \in DOMAIN outbox[s] :
    LET a == outbox[s][i]
    IN  /\ \E k \in Asked(s) : log[s][k].task = a.task
        /\ pc[a.task] \notin {"compacting", "thinking"}
        /\ pc[a.task] = "delivering" => a.index \in 0..(delivered[a.task] - 1)
        /\ pc[a.task] = "reporting" => a.index >= 0

TalkInv == Questions /\ Latest /\ Posted /\ DeliveredInOrder

AskedIn(l) == {k \in DOMAIN l : l[k].role = "user"}

\* m is l and one more question, of t
Asks(l, m, t) ==
  /\ \A k \in AskedIn(l) : k \in AskedIn(m) /\ m[k] = l[k] /\ k < Len(l) + 1
  /\ Len(l) + 1 \in AskedIn(m) /\ m[Len(l) + 1].task = t
  /\ \A k \in AskedIn(m) : k \in AskedIn(l) \/ k = Len(l) + 1

LEMMA AskedAppend ==
  ASSUME NEW l \in Seq(Entry), NEW t \in Tasks,
         NEW m \in Seq(Entry), m = Append(l, [role |-> "user", task |-> t])
  PROVE  Asks(l, m, t)
<1> DEFINE e == [role |-> "user", task |-> t]
<1>1. /\ Len(l) \in Nat /\ DOMAIN l = 1..Len(l) /\ DOMAIN m = 1..(Len(l) + 1)
      /\ m[Len(l) + 1] = e /\ \A k \in 1..Len(l) : m[k] = l[k]
  BY DEF Entry
<1>2. e.role = "user" /\ e.task = t
  OBVIOUS
<1> HIDE DEF e
<1>3. \A k \in AskedIn(l) : k \in AskedIn(m) /\ m[k] = l[k] /\ k < Len(l) + 1
  BY <1>1 DEF AskedIn
<1>4. Len(l) + 1 \in AskedIn(m) /\ m[Len(l) + 1].task = t
  BY <1>1, <1>2 DEF AskedIn
<1>5. \A k \in AskedIn(m) : k \in AskedIn(l) \/ k = Len(l) + 1
  BY <1>1 DEF AskedIn
<1> QED BY <1>3, <1>4, <1>5 DEF Asks

LEMMA AnsweredAppend ==
  ASSUME NEW l \in Seq(Entry), NEW t \in Tasks
  PROVE  /\ AskedIn(Append(l, [role |-> "assistant", task |-> t])) = AskedIn(l)
         /\ \A k \in AskedIn(l) : Append(l, [role |-> "assistant", task |-> t])[k] = l[k]
<1> DEFINE e == [role |-> "assistant", task |-> t]
           m == Append(l, e)
<1>1. /\ Len(l) \in Nat /\ DOMAIN l = 1..Len(l) /\ DOMAIN m = 1..(Len(l) + 1)
      /\ m[Len(l) + 1] = e /\ \A k \in 1..Len(l) : m[k] = l[k]
  BY DEF Entry
<1>2. e.role # "user"
  OBVIOUS
<1> HIDE DEF m, e
<1>3. \A k : k \in AskedIn(m) <=> k \in AskedIn(l)
  BY <1>1, <1>2 DEF AskedIn
<1>4. \A k \in AskedIn(l) : m[k] = l[k]
  BY <1>1 DEF AskedIn
<1> QED BY <1>3, <1>4 DEF m, e

LEMMA Reads ==
  ASSUME TypeOK, NEW s \in Sessions
  PROVE  /\ Asked(s) = AskedIn(log[s]) /\ log[s] \in Seq(Entry)
         /\ \A k \in Asked(s) : k \in Int /\ log[s][k].task \in Tasks
         /\ outbox[s] \in Seq(Delivery) /\ DOMAIN outbox[s] = 1..Len(outbox[s]) /\ Len(outbox[s]) \in Nat
         /\ \A i \in DOMAIN outbox[s] : outbox[s][i].task \in Tasks /\ outbox[s][i].index \in Int
<1>1. log[s] \in Seq(Entry) /\ outbox[s] \in Seq(Delivery)
  BY DEF TypeOK
<1>2. \A k \in DOMAIN log[s] : k \in Int /\ log[s][k] \in Entry
  BY <1>1
<1>3. /\ DOMAIN outbox[s] = 1..Len(outbox[s]) /\ Len(outbox[s]) \in Nat
      /\ \A i \in DOMAIN outbox[s] : outbox[s][i] \in Delivery
  BY <1>1
<1> QED BY <1>1, <1>2, <1>3 DEF Asked, AskedIn, Entry, Delivery

\* A task that works on a question holds the lock, so no other of its session does.
LEMMA AloneAtWork ==
  ASSUME LockInv, NEW t \in Tasks, NEW u \in Tasks, holder[SessionOf[t]] \in {t, NoTask},
         pc[u] \in AtWork, u # t
  PROVE  SessionOf[u] # SessionOf[t]
  BY TasksAssumption DEF LockInv, InTurn, AtWork

LEMMA TalkTakeQuestion ==
  ASSUME TypeInv, LockInv, TalkInv, NEW t \in Tasks, TakeQuestion(t),
         holder[SessionOf[t]] \in {t, NoTask}, pc[t] \in BeforeQuestion,
         UNCHANGED <<delivered, outbox>>
  PROVE  TalkInv'
<1> DEFINE s == SessionOf[t]
<1>1. /\ s \in Sessions /\ \A u \in Tasks : SessionOf[u] \in Sessions
      /\ pc \in [Tasks -> Pc] /\ log \in [Sessions -> Seq(Entry)]
  BY TasksAssumption DEF TypeInv, TypeOK
<1>2. PICK state \in {"compacting", "thinking"} : pc' = [pc EXCEPT ![t] = state]
  BY TakeQuestionMoves
<1>3. log' = [log EXCEPT ![s] = Append(@, [role |-> "user", task |-> t])]
  BY DEF TakeQuestion
<1>4. \A r \in Sessions : /\ Asked(r) = AskedIn(log[r]) /\ Asked(r)' = AskedIn(log'[r])
                          /\ \A k \in Asked(r) : k \in Int /\ log[r][k].task \in Tasks
  BY Reads DEF Asked, AskedIn, TypeInv
<1>5. /\ \A k \in Asked(s) : k \in Asked(s)' /\ log'[s][k] = log[s][k] /\ k < Len(log[s]) + 1
      /\ Len(log[s]) + 1 \in Asked(s)'
      /\ log'[s][Len(log[s]) + 1].task = t
      /\ \A k \in Asked(s)' : k \in Asked(s) \/ k = Len(log[s]) + 1
  <2>1. log[s] \in Seq(Entry) /\ log'[s] = Append(log[s], [role |-> "user", task |-> t])
    BY <1>1, <1>3
  <2>2. Asked(s) = AskedIn(log[s]) /\ Asked(s)' = AskedIn(log'[s])
    BY <1>1, <1>4
  <2> DEFINE l == log[s]
             m == log'[s]
  <2>3. l \in Seq(Entry) /\ m \in Seq(Entry) /\ m = Append(l, [role |-> "user", task |-> t])
    <3>1. [role |-> "user", task |-> t] \in Entry
      BY DEF Entry
    <3> QED BY <2>1, <3>1
  <2> HIDE DEF l, m
  <2>4. Asks(l, m, t)
    BY <2>3, AskedAppend
  <2> QED BY <2>2, <2>4 DEF l, m, Asks
<1>6. \A r \in Sessions : r # s => log'[r] = log[r] /\ Asked(r)' = Asked(r)
  BY <1>1, <1>3, <1>4
<1>7. \A r \in Sessions : \A k \in Asked(r) :
        /\ k \in Asked(r)' /\ log'[r][k] = log[r][k]
        /\ log[r][k].task # t /\ pc'[log[r][k].task] = pc[log[r][k].task]
        /\ SessionOf[log[r][k].task] = r
  BY <1>1, <1>2, <1>4, <1>5, <1>6 DEF TalkInv, Questions
<1>8. \A r \in Sessions : \A k \in Asked(r)' :
        k \in Asked(r) \/ (r = s /\ k = Len(log[s]) + 1 /\ log'[r][k].task = t)
  BY <1>5, <1>6
<1>9. Questions'
  <2> SUFFICES ASSUME NEW r \in Sessions, NEW k \in Asked(r)', NEW l \in Asked(r)'
               PROVE  /\ SessionOf[log'[r][k].task] = r
                      /\ pc'[log'[r][k].task] \notin BeforeQuestion
                      /\ log'[r][k].task = log'[r][l].task => k = l
    BY DEF Questions
  <2>1. pc'[t] \notin BeforeQuestion
    BY <1>1, <1>2 DEF BeforeQuestion
  <2>2. SessionOf[log'[r][k].task] = r /\ pc'[log'[r][k].task] \notin BeforeQuestion
    <3>1. CASE k \in Asked(r)
      BY <3>1, <1>7 DEF TalkInv, Questions
    <3> QED BY <3>1, <2>1, <1>8
  <2>3. log'[r][k].task = log'[r][l].task => k = l
    <3>1. CASE k \in Asked(r) /\ l \in Asked(r)
      BY <3>1, <1>7 DEF TalkInv, Questions
    <3> QED BY <3>1, <1>7, <1>8
  <2> QED BY <2>2, <2>3
<1>10. ASSUME NEW u \in Tasks, pc'[u] \in AtWork
       PROVE  \E k \in Asked(SessionOf[u])' :
                log'[SessionOf[u]][k].task = u /\ \A l \in Asked(SessionOf[u])' : l <= k
  <2>1. CASE u = t
    <3>1. Len(log[s]) + 1 \in Int
      BY <1>1
    <3>2. ASSUME NEW l \in Asked(s)' PROVE l <= Len(log[s]) + 1
      <4>1. CASE l \in Asked(s)
        <5>1. l \in Int /\ l < Len(log[s]) + 1
          BY <4>1, <1>1, <1>4, <1>5
        <5> QED BY <5>1, <3>1
      <4>2. CASE l = Len(log[s]) + 1
        BY <4>2, <3>1
      <4> QED BY <4>1, <4>2, <1>5
    <3> QED BY <2>1, <3>2, <1>5
  <2>2. CASE u # t
    <3>1. pc[u] \in AtWork
      BY <2>2, <1>1, <1>2, <1>10
    <3>2. SessionOf[u] # s
      BY <3>1, <2>2, AloneAtWork
    <3> QED BY <3>1, <3>2, <1>1, <1>6 DEF TalkInv, Latest
  <2> QED BY <2>1, <2>2
<1>11. ASSUME NEW r \in Sessions, NEW i \in DOMAIN outbox[r]
       PROVE  \E k \in Asked(r) : log[r][k].task = outbox[r][i].task
  BY <1>11 DEF TalkInv, Posted
<1>12. Posted'
  <2>1. \A r \in Sessions : \A i \in DOMAIN outbox[r] :
          /\ \E k \in Asked(r)' : log'[r][k].task = outbox[r][i].task
          /\ pc'[outbox[r][i].task] = pc[outbox[r][i].task]
    BY <1>7, <1>11
  <2> QED BY <2>1 DEF TalkInv, Posted
<1>13. DeliveredInOrder'
  <2>1. \A r \in Sessions : \A i, j \in DOMAIN outbox[r] :
         (\E k, l \in Asked(r) :
            k < l /\ log[r][k].task = outbox[r][i].task /\ log[r][l].task = outbox[r][j].task)
         => \E k, l \in Asked(r)' :
              k < l /\ log'[r][k].task = outbox[r][i].task /\ log'[r][l].task = outbox[r][j].task
    BY <1>7
  <2> QED BY <2>1 DEF TalkInv, DeliveredInOrder
<1> QED BY <1>9, <1>10, <1>12, <1>13 DEF TalkInv, Latest

\* A task that neither asks, nor answers, nor sends.
LEMMA TalkMove ==
  ASSUME TypeInv, TalkInv, NEW t \in Tasks, NEW state, UNCHANGED <<log, outbox, delivered>>,
         pc' = [pc EXCEPT ![t] = state],
         \/ pc[t] \in BeforeQuestion /\ state \in BeforeQuestion
         \/ pc[t] = "compacting" /\ state = "thinking"
         \/ pc[t] \in {"thinking", "delivering"} /\ state = "reporting"
         \/ pc[t] \in AtWork /\ state = "done"
  PROVE  TalkInv'
<1>1. pc \in [Tasks -> Pc] /\ \A u \in Tasks : SessionOf[u] \in Sessions
  BY TasksAssumption DEF TypeInv, TypeOK
<1>2. \A s \in Sessions : Asked(s)' = Asked(s)
  BY DEF Asked
<1>3. \A u \in Tasks : /\ pc'[u] \in BeforeQuestion => pc[u] \in BeforeQuestion
                       /\ pc'[u] \in AtWork => pc[u] \in AtWork
  BY <1>1 DEF BeforeQuestion, AtWork
<1>4. \A s \in Sessions : \A k \in Asked(s) : log[s][k].task \in Tasks
  BY Reads DEF TypeInv
<1>5. Questions'
  BY <1>2, <1>3, <1>4 DEF TalkInv, Questions
<1>6. Latest'
  BY <1>1, <1>2, <1>3 DEF TalkInv, Latest
<1>7. ASSUME NEW s \in Sessions, NEW i \in DOMAIN outbox[s]
      PROVE  LET a == outbox[s][i]
             IN  /\ \E k \in Asked(s) : log[s][k].task = a.task
                 /\ pc'[a.task] \notin {"compacting", "thinking"}
                 /\ pc'[a.task] = "delivering" => a.index \in 0..(delivered[a.task] - 1)
                 /\ pc'[a.task] = "reporting" => a.index >= 0
  <2> DEFINE a == outbox[s][i]
  <2>1. /\ \E k \in Asked(s) : log[s][k].task = a.task
        /\ pc[a.task] \notin {"compacting", "thinking"}
        /\ pc[a.task] = "delivering" => a.index \in 0..(delivered[a.task] - 1)
        /\ pc[a.task] = "reporting" => a.index >= 0
    BY <1>7 DEF TalkInv, Posted
  <2>2. a.task \in Tasks
    BY <1>7, Reads DEF TypeInv
  <2>3. pc[a.task] \notin BeforeQuestion
    BY <2>1 DEF TalkInv, Questions
  <2> HIDE DEF a
  <2>4. CASE a.task # t
    <3>1. pc'[a.task] = pc[a.task]
      BY <2>2, <2>4, <1>1
    <3> QED BY <3>1, <2>1 DEF a
  <2>5. CASE a.task = t
    <3>1. pc'[a.task] = "done" \/ (pc'[a.task] = "reporting" /\ pc[a.task] = "delivering")
      BY <2>1, <2>3, <2>5, <1>1
    <3>2. delivered[a.task] \in Nat
      BY <2>2 DEF TypeInv, TypeOK
    <3>3. pc[a.task] = "delivering" => a.index >= 0
      BY <2>1, <3>2 DEF a
    <3> QED BY <3>1, <3>3, <2>1 DEF a
  <2> QED BY <2>4, <2>5
<1>8. Posted'
  BY <1>2, <1>7 DEF Posted
<1>9. DeliveredInOrder'
  BY <1>2 DEF TalkInv, DeliveredInOrder
<1> QED BY <1>5, <1>6, <1>8, <1>9 DEF TalkInv

LEMMA TalkAnswer ==
  ASSUME TypeInv, TalkInv, NEW t \in Tasks, NEW n \in 0..MaxBlocks, Answer(t, n)
  PROVE  TalkInv'
<1> DEFINE s == SessionOf[t]
<1>1. /\ s \in Sessions /\ \A u \in Tasks : SessionOf[u] \in Sessions
      /\ pc \in [Tasks -> Pc] /\ log \in [Sessions -> Seq(Entry)]
  BY TasksAssumption DEF TypeInv, TypeOK
<1>2. /\ pc[t] = "thinking" /\ UNCHANGED <<delivered, outbox>>
      /\ log' = [log EXCEPT ![s] = Append(@, [role |-> "assistant", task |-> t])]
      /\ \E state \in {"done", "delivering"} : pc' = [pc EXCEPT ![t] = state]
  BY DEF Answer
<1>3. \A r \in Sessions : /\ Asked(r) = AskedIn(log[r]) /\ Asked(r)' = AskedIn(log'[r])
                          /\ \A k \in Asked(r) : k \in Int /\ log[r][k].task \in Tasks
  BY Reads DEF Asked, AskedIn, TypeInv
<1>4. \A r \in Sessions : Asked(r)' = Asked(r) /\ \A k \in Asked(r) : log'[r][k] = log[r][k]
  <2>1. AskedIn(log'[s]) = AskedIn(log[s]) /\ \A k \in AskedIn(log[s]) : log'[s][k] = log[s][k]
    <3>1. log'[s] = Append(log[s], [role |-> "assistant", task |-> t]) /\ log[s] \in Seq(Entry)
      BY <1>1, <1>2
    <3> QED BY <3>1, AnsweredAppend
  <2>2. \A r \in Sessions : r # s => log'[r] = log[r]
    BY <1>1, <1>2
  <2> QED BY <2>1, <2>2, <1>3
<1>5. Questions'
  <2>1. \A u \in Tasks : pc'[u] \in BeforeQuestion => pc[u] \in BeforeQuestion
    BY <1>1, <1>2 DEF BeforeQuestion
  <2> QED BY <2>1, <1>3, <1>4 DEF TalkInv, Questions
<1>6. Latest'
  <2>1. \A u \in Tasks : pc'[u] \in AtWork => pc[u] \in AtWork
    BY <1>1, <1>2 DEF AtWork
  <2>2. \A u \in Tasks : pc[u] \in AtWork =>
          \E k \in Asked(SessionOf[u])' :
            log'[SessionOf[u]][k].task = u /\ \A l \in Asked(SessionOf[u])' : l <= k
    BY <1>1, <1>4 DEF TalkInv, Latest
  <2> QED BY <2>1, <2>2 DEF Latest
<1>7. Posted'
  <2>1. \A r \in Sessions : \A i \in DOMAIN outbox[r] :
          /\ \E k \in Asked(r)' : log'[r][k].task = outbox[r][i].task
          /\ pc'[outbox[r][i].task] = pc[outbox[r][i].task]
    <3> SUFFICES ASSUME NEW r \in Sessions, NEW i \in DOMAIN outbox[r]
                 PROVE  /\ \E k \in Asked(r)' : log'[r][k].task = outbox[r][i].task
                        /\ pc'[outbox[r][i].task] = pc[outbox[r][i].task]
      OBVIOUS
    <3>1. /\ \E k \in Asked(r) : log[r][k].task = outbox[r][i].task
          /\ outbox[r][i].task # t
      BY <1>2 DEF TalkInv, Posted
    <3>2. pc'[outbox[r][i].task] = pc[outbox[r][i].task]
      BY <3>1, <1>1, <1>2
    <3> QED BY <3>1, <3>2, <1>4
  <2>2. UNCHANGED <<delivered, outbox>>
    BY <1>2
  <2> QED BY <2>1, <2>2 DEF TalkInv, Posted
<1>8. DeliveredInOrder'
  <2>1. \A r \in Sessions : \A i, j \in DOMAIN outbox[r] :
         (\E k, l \in Asked(r) :
            k < l /\ log[r][k].task = outbox[r][i].task /\ log[r][l].task = outbox[r][j].task)
         => \E k, l \in Asked(r)' :
              k < l /\ log'[r][k].task = outbox[r][i].task /\ log'[r][l].task = outbox[r][j].task
    BY <1>4
  <2>2. outbox' = outbox
    BY <1>2
  <2> QED BY <2>1, <2>2 DEF TalkInv, DeliveredInOrder
<1> QED BY <1>5, <1>6, <1>7, <1>8 DEF TalkInv

LEMMA TalkPost ==
  ASSUME TypeInv, TalkInv, NEW t \in Tasks, NEW index \in Int, Post(t, index), log' = log,
         \/ /\ pc[t] = "delivering" /\ index = delivered[t]
            /\ pc' = pc /\ delivered' = [delivered EXCEPT ![t] = @ + 1]
         \/ /\ pc[t] = "delivering" /\ index = delivered[t]
            /\ pc' = [pc EXCEPT ![t] = "reporting"] /\ delivered' = delivered
         \/ /\ pc[t] = "reporting" /\ index = -1
            /\ pc' = [pc EXCEPT ![t] = "done"] /\ delivered' = delivered
  PROVE  TalkInv'
<1> DEFINE s == SessionOf[t]
           d == [task |-> t, index |-> index]
<1>1. /\ s \in Sessions /\ \A u \in Tasks : SessionOf[u] \in Sessions
      /\ pc \in [Tasks -> Pc] /\ delivered \in [Tasks -> Nat]
      /\ outbox \in [Sessions -> Seq(Delivery)]
  BY TasksAssumption DEF TypeInv, TypeOK
<1>2. d \in Delivery /\ d.task = t /\ d.index = index
  BY DEF Delivery
<1>3. outbox' = [outbox EXCEPT ![s] = Append(@, d)]
  BY DEF Post
<1> HIDE DEF d
<1>4. \A r \in Sessions : /\ Asked(r)' = Asked(r)
                          /\ \A k \in Asked(r) : k \in Int /\ log[r][k].task \in Tasks
  BY Reads DEF Asked, TypeInv
<1>5. \A r \in Sessions :
        /\ DOMAIN outbox[r] = 1..Len(outbox[r]) /\ Len(outbox[r]) \in Nat
        /\ \A i \in DOMAIN outbox[r] : outbox[r][i].task \in Tasks /\ outbox[r][i].index \in Int
  BY Reads DEF TypeInv
<1>6. \A r \in Sessions : \A i \in DOMAIN outbox'[r] :
        \/ i \in DOMAIN outbox[r] /\ outbox'[r][i] = outbox[r][i]
        \/ r = s /\ i = Len(outbox[s]) + 1 /\ outbox'[r][i] = d
  <2>1. \A r \in Sessions : r # s => outbox'[r] = outbox[r]
    BY <1>1, <1>3
  <2>2. outbox'[s] = Append(outbox[s], d) /\ outbox[s] \in Seq(Delivery)
    BY <1>1, <1>3
  <2>3. \A i \in DOMAIN outbox'[s] :
          \/ i \in DOMAIN outbox[s] /\ outbox'[s][i] = outbox[s][i]
          \/ i = Len(outbox[s]) + 1 /\ outbox'[s][i] = d
    BY <2>2, <1>2
  <2> QED BY <2>1, <2>3
<1>7. PICK last \in Asked(s) : log[s][last].task = t /\ \A l \in Asked(s) : l <= last
  BY DEF TalkInv, Latest, AtWork
<1>8. Questions' /\ Latest'
  <2>1. \A u \in Tasks : /\ pc'[u] \in BeforeQuestion => pc[u] \in BeforeQuestion
                         /\ pc'[u] \in AtWork => pc[u] \in AtWork
    BY <1>1 DEF BeforeQuestion, AtWork
  <2>2. Questions'
    BY <2>1, <1>4 DEF TalkInv, Questions
  <2>3. Latest'
    BY <2>1, <1>1, <1>4 DEF TalkInv, Latest
  <2> QED BY <2>2, <2>3
<1>9. ASSUME NEW r \in Sessions, NEW i \in DOMAIN outbox[r]
      PROVE  LET a == outbox[r][i]
             IN  /\ \E k \in Asked(r) : log[r][k].task = a.task
                 /\ pc[a.task] \notin {"compacting", "thinking"}
                 /\ a.task = t => a.index >= 0 /\ (index = -1 \/ a.index < index)
                 /\ pc'[a.task] \notin {"compacting", "thinking"}
                 /\ pc'[a.task] = "delivering" => a.index \in 0..(delivered'[a.task] - 1)
                 /\ pc'[a.task] = "reporting" => a.index >= 0
  <2> DEFINE a == outbox[r][i]
  <2>1. /\ \E k \in Asked(r) : log[r][k].task = a.task
        /\ pc[a.task] \notin {"compacting", "thinking"}
        /\ pc[a.task] = "delivering" => a.index \in 0..(delivered[a.task] - 1)
        /\ pc[a.task] = "reporting" => a.index >= 0
    BY <1>9 DEF TalkInv, Posted
  <2>2. a.task \in Tasks /\ a.index \in Int /\ delivered[a.task] \in Nat
    BY <1>9, <1>1, <1>5
  <2> DEFINE u == a.task
             x == a.index
  <2>3. /\ u \in Tasks /\ x \in Int /\ delivered[u] \in Nat
        /\ pc[u] \notin {"compacting", "thinking"}
        /\ pc[u] = "delivering" => x \in 0..(delivered[u] - 1)
        /\ pc[u] = "reporting" => x >= 0
    BY <2>1, <2>2
  <2> HIDE DEF u, x
  <2>4. u = t => x >= 0 /\ (index = -1 \/ x < index)
    BY <2>3
  <2>5. /\ pc'[u] \notin {"compacting", "thinking"}
        /\ pc'[u] = "delivering" => x \in 0..(delivered'[u] - 1)
        /\ pc'[u] = "reporting" => x >= 0
    <3>1. CASE u # t
      BY <3>1, <2>3, <1>1
    <3>2. CASE u = t
      BY <3>2, <2>3, <1>1
    <3> QED BY <3>1, <3>2
  <2> QED BY <2>1, <2>4, <2>5 DEF u, x
<1>10. Posted'
  <2> SUFFICES ASSUME NEW r \in Sessions, NEW i \in DOMAIN outbox'[r]
               PROVE  LET a == outbox'[r][i]
                      IN  /\ \E k \in Asked(r)' : log'[r][k].task = a.task
                          /\ pc'[a.task] \notin {"compacting", "thinking"}
                          /\ pc'[a.task] = "delivering" => a.index \in 0..(delivered'[a.task] - 1)
                          /\ pc'[a.task] = "reporting" => a.index >= 0
    BY DEF Posted
  <2>1. CASE i \in DOMAIN outbox[r] /\ outbox'[r][i] = outbox[r][i]
    BY <2>1, <1>4, <1>9
  <2>2. CASE r = s /\ outbox'[r][i] = d
    <3>1. \E k \in Asked(r)' : log'[r][k].task = d.task
      BY <2>2, <1>2, <1>4, <1>7
    <3>2. /\ pc'[t] \notin {"compacting", "thinking"}
          /\ pc'[t] = "delivering" => index \in 0..(delivered'[t] - 1)
          /\ pc'[t] = "reporting" => index >= 0
      BY <1>1
    <3> QED BY <2>2, <3>1, <3>2, <1>2
  <2> QED BY <2>1, <2>2, <1>6
<1>11. DeliveredInOrder'
  <2> SUFFICES ASSUME NEW r \in Sessions, NEW i \in DOMAIN outbox'[r], NEW j \in DOMAIN outbox'[r], i < j
               PROVE  LET a == outbox'[r][i]
                          b == outbox'[r][j]
                      IN  IF a.task = b.task
                          THEN a.index >= 0 /\ (b.index = -1 \/ a.index < b.index)
                          ELSE \E k, l \in Asked(r)' :
                                 k < l /\ log'[r][k].task = a.task /\ log'[r][l].task = b.task
    BY DEF DeliveredInOrder
  <2>1. CASE j \in DOMAIN outbox[r] /\ outbox'[r][j] = outbox[r][j]
    <3>1. i \in DOMAIN outbox[r] /\ outbox'[r][i] = outbox[r][i]
      BY <2>1, <1>5, <1>6
    <3>2. LET a == outbox[r][i]
              b == outbox[r][j]
          IN  IF a.task = b.task
              THEN a.index >= 0 /\ (b.index = -1 \/ a.index < b.index)
              ELSE \E k, l \in Asked(r) :
                     k < l /\ log[r][k].task = a.task /\ log[r][l].task = b.task
      BY <2>1, <3>1 DEF TalkInv, DeliveredInOrder
    <3> QED BY <2>1, <3>1, <3>2, <1>4
  <2>2. CASE r = s /\ j = Len(outbox[s]) + 1 /\ outbox'[r][j] = d
    <3>1. i \in DOMAIN outbox[r] /\ outbox'[r][i] = outbox[r][i]
      BY <2>2, <1>5, <1>6
    <3> DEFINE a == outbox[r][i]
    <3>2. a.task = t => a.index >= 0 /\ (index = -1 \/ a.index < index)
      BY <3>1, <1>9
    <3>3. PICK k \in Asked(r) : log[r][k].task = a.task
      BY <3>1, <1>9
    <3>4. a.task # t => k < last
      <4>1. k <= last /\ k \in Int /\ last \in Int
        BY <2>2, <3>3, <1>4, <1>7
      <4>2. a.task # t => k # last
        BY <2>2, <3>3, <1>7
      <4> QED BY <4>1, <4>2
    <3>5. a.task # t => \E k1, l \in Asked(r)' :
            k1 < l /\ log'[r][k1].task = a.task /\ log'[r][l].task = t
      BY <2>2, <3>3, <3>4, <1>4, <1>7
    <3> HIDE DEF a
    <3>6. IF a.task = d.task
          THEN a.index >= 0 /\ (d.index = -1 \/ a.index < d.index)
          ELSE \E k1, l \in Asked(r)' :
                 k1 < l /\ log'[r][k1].task = a.task /\ log'[r][l].task = d.task
      BY <3>2, <3>5, <1>2
    <3> QED BY <2>2, <3>1, <3>6 DEF a
  <2> QED BY <2>1, <2>2, <1>6
<1> QED BY <1>8, <1>10, <1>11 DEF TalkInv

LEMMA TalkIdle ==
  ASSUME TalkInv, UNCHANGED <<pc, log, outbox, delivered>>
  PROVE  TalkInv'
  BY DEF TalkInv, Questions, Latest, Posted, DeliveredInOrder, Asked

LEMMA TalkStep == TypeInv /\ LockInv /\ OrderInv /\ TalkInv /\ [Next]_vars => TalkInv'
<1> SUFFICES ASSUME TypeInv, LockInv, OrderInv, TalkInv, [Next]_vars PROVE TalkInv'
  OBVIOUS
<1>t. \A t \in Tasks : delivered[t] \in Int
  BY DEF TypeInv, TypeOK
<1>1. ASSUME NEW t \in Tasks, Receive(t) PROVE TalkInv'
  BY <1>1, TalkMove DEF Receive, convVars, outVars, BeforeQuestion
<1>2. ASSUME NEW t \in Tasks, AskInner(t) PROVE TalkInv'
  BY <1>2, TalkMove DEF AskInner, convVars, outVars, BeforeQuestion
<1>3. ASSUME NEW t \in Tasks, Taking(t) PROVE TalkInv'
  <2>1. /\ pc[t] \in {"idle", "spawned"}
        /\ \E state \in {"dropped", "recalling", "waiting"} : pc' = [pc EXCEPT ![t] = state]
        /\ UNCHANGED <<log, outbox, delivered>>
    BY <1>3, TakingFrom, ApproachMoves DEF convVars, outVars
  <2> QED BY <2>1, TalkMove DEF BeforeQuestion
<1>4. ASSUME NEW t \in Tasks, Recall(t) PROVE TalkInv'
  BY <1>4, TalkTakeQuestion DEF Recall, LockInv, InTurn, BeforeQuestion
<1>5. ASSUME NEW t \in Tasks, RecallInner(t) PROVE TalkInv'
  <2>1. CASE TakeQuestion(t) /\ LockFree(SessionOf[t])
    BY <1>5, <2>1, TalkTakeQuestion DEF RecallInner, LockFree, BeforeQuestion
  <2>2. CASE Queue(t) /\ UNCHANGED convVars
    BY <1>5, <2>2, TalkMove DEF RecallInner, Queue, convVars, BeforeQuestion
  <2> QED BY <1>5, <2>1, <2>2 DEF RecallInner
<1>6. ASSUME NEW t \in Tasks, Wake(t) PROVE TalkInv'
  <2>1. CASE TakeQuestion(t)
    BY <1>6, <2>1, TalkTakeQuestion DEF Wake, BeforeQuestion
  <2>2. CASE EnterTurn(t) /\ UNCHANGED convVars
    BY <1>6, <2>2, TalkMove DEF Wake, EnterTurn, convVars, BeforeQuestion
  <2> QED BY <1>6, <2>1, <2>2 DEF Wake
<1>7. ASSUME NEW t \in Tasks, NEW ok \in BOOLEAN, Compact(t, ok) PROVE TalkInv'
  BY <1>7, TalkMove DEF Compact
<1>8. ASSUME NEW t \in Tasks, Remember(t) PROVE TalkInv'
  BY <1>8, TalkIdle DEF Remember, convVars, outVars
<1>9. ASSUME NEW t \in Tasks, NEW n \in 0..MaxBlocks, Answer(t, n) PROVE TalkInv'
  BY <1>9, TalkAnswer
<1>10. ASSUME NEW t \in Tasks, Fail(t) PROVE TalkInv'
  <2>1. pc[t] = "thinking" /\ UNCHANGED <<log, outbox, delivered>>
    BY <1>10 DEF Fail, convVars
  <2>2. \E state \in {"done", "reporting"} : pc' = [pc EXCEPT ![t] = state]
    BY <1>10 DEF Fail
  <2> QED BY <2>1, <2>2, TalkMove DEF AtWork
<1>11. ASSUME NEW t \in Tasks, DeliverBlock(t) PROVE TalkInv'
  BY <1>11, <1>t, TalkPost DEF DeliverBlock, convVars
<1>12. ASSUME NEW t \in Tasks, DeliverFails(t) PROVE TalkInv'
  <2>1. /\ pc[t] = "delivering" /\ pc' = [pc EXCEPT ![t] = "reporting"]
        /\ log' = log /\ delivered' = delivered
        /\ Post(t, delivered[t]) \/ UNCHANGED outbox
    BY <1>12 DEF DeliverFails, convVars
  <2>2. CASE Post(t, delivered[t])
    BY <2>1, <2>2, <1>t, TalkPost
  <2>3. CASE UNCHANGED outbox
    BY <2>1, <2>3, TalkMove
  <2> QED BY <2>1, <2>2, <2>3
<1>13. ASSUME NEW t \in Tasks, Finish(t) PROVE TalkInv'
  BY <1>13, TalkMove DEF Finish, convVars, outVars, AtWork
<1>14. ASSUME NEW t \in Tasks, ReportError(t) PROVE TalkInv'
  <2>1. /\ pc[t] = "reporting" /\ pc' = [pc EXCEPT ![t] = "done"]
        /\ log' = log /\ delivered' = delivered
        /\ Post(t, -1) \/ UNCHANGED outbox
    BY <1>14 DEF ReportError, convVars
  <2>2. CASE Post(t, -1)
    <3>1. -1 \in Int
      OBVIOUS
    <3> QED BY <2>1, <2>2, <3>1, TalkPost
  <2>3. CASE UNCHANGED outbox
    BY <2>1, <2>3, TalkMove DEF AtWork
  <2> QED BY <2>1, <2>2, <2>3
<1>15. ASSUME NEW s \in Sessions, Reset(s) PROVE TalkInv'
  BY <1>15, TalkIdle DEF Reset, outVars
<1>16. CASE UNCHANGED vars
  BY <1>16, TalkIdle DEF vars, convVars, outVars
<1>17. QED
  BY <1>1, <1>2, <1>3, <1>4, <1>5, <1>6, <1>7, <1>8, <1>9, <1>10, <1>11, <1>12, <1>13,
     <1>14, <1>15, <1>16 DEF Next, Step, Terminated, Taking

LEMMA OrderInit == Init => LockInv /\ OrderInv
  BY DEF Init, LockInv, InTurn, OrderInv, ArrivalOrder, LineOrder, Lined, Spawned, In, Before

LEMMA TalkInit == Init => TalkInv
  BY DEF Init, TalkInv, Questions, Latest, Posted, DeliveredInOrder, Asked, AtWork

\* What a session's peers receive is ordered like the conversation, for any number
\* of turns, blocks, failed sends and resets.
THEOREM DeliveredAsAsked == Spec => []DeliveredInOrder
<1>1. TalkInv => DeliveredInOrder
  BY DEF TalkInv
<1> QED BY <1>1, OrderInit, TalkInit, TypeInit, TypeStep, LockStep, OrderStep, TalkStep, PTL DEF Spec

\* A step that takes a question adds one at the end of one session, and, of a
\* message, with all memories there are; a step that stores a memory asks nothing.
LEMMA MemoryTakeQuestion ==
  ASSUME TypeInv, TalkInv, InboundSeesEarlierMemories, NEW t \in Tasks, TakeQuestion(t),
         pc[t] \in BeforeQuestion, remembered' = remembered,
         \/ recalled' = [recalled EXCEPT ![t] = remembered]
         \/ t \notin Inbound /\ recalled' = recalled
  PROVE  InboundSeesEarlierMemories'
<1> DEFINE s == SessionOf[t]
<1>1. /\ s \in Sessions /\ \A u \in Tasks : SessionOf[u] \in Sessions
      /\ log \in [Sessions -> Seq(Entry)] /\ recalled \in [Tasks -> SUBSET Tasks]
      /\ Inbound \subseteq Tasks
  BY TasksAssumption DEF TypeInv, TypeOK, Tasks
<1>2. log' = [log EXCEPT ![s] = Append(@, [role |-> "user", task |-> t])]
  BY DEF TakeQuestion
<1>3. \A r \in Sessions : /\ Asked(r) = AskedIn(log[r]) /\ Asked(r)' = AskedIn(log'[r])
                          /\ \A k \in Asked(r) : k \in Int /\ log[r][k].task \in Tasks
  BY Reads DEF Asked, AskedIn, TypeInv
<1>4. Asks(log[s], log'[s], t) /\ \A r \in Sessions : r # s => log'[r] = log[r]
  <2>1. [role |-> "user", task |-> t] \in Entry
    BY DEF Entry
  <2>2. log[s] \in Seq(Entry) /\ log'[s] = Append(log[s], [role |-> "user", task |-> t])
    BY <1>1, <1>2
  <2>3. log'[s] \in Seq(Entry)
    BY <2>1, <2>2
  <2>4. Asks(log[s], log'[s], t)
    BY <2>2, <2>3, AskedAppend
  <2> QED BY <2>4, <1>1, <1>2
<1>5. \A r \in Sessions : \A k \in Asked(r)' :
        \/ k \in Asked(r) /\ log'[r][k] = log[r][k] /\ log[r][k].task # t
        \/ r = s /\ k = Len(log[s]) + 1 /\ log'[r][k].task = t
  <2>1. \A r \in Sessions : \A k \in Asked(r) : log[r][k].task # t
    BY DEF TalkInv, Questions
  <2> QED BY <2>1, <1>3, <1>4 DEF Asks
<1>6. \A k \in Asked(s) : k < Len(log[s]) + 1 /\ k \in Int
  BY <1>1, <1>3, <1>4 DEF Asks
<1> SUFFICES ASSUME NEW u \in Inbound, NEW k \in Asked(SessionOf[u])', NEW l \in Asked(SessionOf[u])',
                    k < l, log'[SessionOf[u]][l].task = u, log'[SessionOf[u]][k].task \in remembered
             PROVE  log'[SessionOf[u]][k].task \in recalled'[u]
  BY DEF InboundSeesEarlierMemories
<1>7. CASE u = t
  BY <1>1, <1>7
<1>8. CASE u # t
  <2>1. l \in Asked(SessionOf[u]) /\ log'[SessionOf[u]][l] = log[SessionOf[u]][l]
    BY <1>1, <1>5, <1>8
  <2>2. k \in Asked(SessionOf[u]) /\ log'[SessionOf[u]][k] = log[SessionOf[u]][k]
    <3>1. ~(SessionOf[u] = s /\ k = Len(log[s]) + 1)
      <4>1. ASSUME SessionOf[u] = s, k = Len(log[s]) + 1 PROVE FALSE
        <5>1. l < Len(log[s]) + 1 /\ l \in Int
          BY <4>1, <2>1, <1>6
        <5>2. Len(log[s]) + 1 \in Int
          BY <1>1
        <5> QED BY <4>1, <5>1, <5>2
      <4> QED BY <4>1
    <3> QED BY <3>1, <1>1, <1>5
  <2>3. recalled'[u] = recalled[u]
    BY <1>1, <1>8
  <2> QED BY <2>1, <2>2, <2>3 DEF InboundSeesEarlierMemories
<1> QED BY <1>7, <1>8

LEMMA MemoryRemember ==
  ASSUME TypeInv, TalkInv, InboundSeesEarlierMemories, NEW t \in Tasks, Remember(t)
  PROVE  InboundSeesEarlierMemories'
<1>1. /\ pc[t] \in AtWork /\ remembered' = remembered \cup {t}
      /\ UNCHANGED <<log, recalled>>
  BY DEF Remember, convVars, AtWork
<1>2. \A s \in Sessions : Asked(s)' = Asked(s)
  BY <1>1 DEF Asked
<1> SUFFICES ASSUME NEW u \in Inbound, NEW k \in Asked(SessionOf[u]), NEW l \in Asked(SessionOf[u]),
                    k < l, log[SessionOf[u]][l].task = u, log[SessionOf[u]][k].task \in remembered'
             PROVE  log[SessionOf[u]][k].task \in recalled[u]
  BY <1>1, <1>2, TasksAssumption DEF InboundSeesEarlierMemories, Tasks
<1>3. SessionOf[u] \in Sessions
  BY TasksAssumption DEF Tasks
<1>4. log[SessionOf[u]][k].task # t
  <2>1. ASSUME log[SessionOf[u]][k].task = t PROVE FALSE
    <3>1. SessionOf[t] = SessionOf[u]
      BY <2>1, <1>3 DEF TalkInv, Questions
    <3>2. PICK last \in Asked(SessionOf[t]) :
            log[SessionOf[t]][last].task = t /\ \A m \in Asked(SessionOf[t]) : m <= last
      BY <1>1 DEF TalkInv, Latest
    <3>3. last = k
      BY <2>1, <3>1, <3>2, <1>3 DEF TalkInv, Questions
    <3>4. l <= k /\ k \in Int /\ l \in Int
      BY <3>1, <3>2, <3>3, <1>3, Reads DEF TypeInv
    <3> QED BY <3>4
  <2> QED BY <2>1
<1> QED BY <1>1, <1>4 DEF InboundSeesEarlierMemories

\* Steps that ask nothing, store nothing, and recall nothing for a message.
LEMMA MemoryIdle ==
  ASSUME TypeInv, InboundSeesEarlierMemories, UNCHANGED <<log, remembered>>,
         \A u \in Inbound : recalled'[u] = recalled[u]
  PROVE  InboundSeesEarlierMemories'
  BY DEF InboundSeesEarlierMemories, Asked

LEMMA MemoryAnswer ==
  ASSUME TypeInv, InboundSeesEarlierMemories,
         NEW t \in Tasks, NEW n \in 0..MaxBlocks, Answer(t, n)
  PROVE  InboundSeesEarlierMemories'
<1> DEFINE s == SessionOf[t]
<1>1. /\ s \in Sessions /\ \A u \in Inbound : SessionOf[u] \in Sessions
      /\ log \in [Sessions -> Seq(Entry)]
  BY TasksAssumption DEF TypeInv, TypeOK, Tasks
<1>2. log' = [log EXCEPT ![s] = Append(@, [role |-> "assistant", task |-> t])]
  BY DEF Answer
<1>3. UNCHANGED <<recalled, remembered>>
  BY DEF Answer, memVars
<1>4. AskedIn(log'[s]) = AskedIn(log[s]) /\ \A k \in AskedIn(log[s]) : log'[s][k] = log[s][k]
  <2>1. log'[s] = Append(log[s], [role |-> "assistant", task |-> t]) /\ log[s] \in Seq(Entry)
    BY <1>1, <1>2
  <2> QED BY <2>1, AnsweredAppend
<1>5. \A r \in Sessions : r # s => log'[r] = log[r]
  BY <1>1, <1>2
<1>6. \A r \in Sessions : Asked(r)' = Asked(r) /\ \A k \in Asked(r) : log'[r][k] = log[r][k]
  BY <1>4, <1>5 DEF Asked, AskedIn
<1> QED BY <1>1, <1>3, <1>6 DEF InboundSeesEarlierMemories

LEMMA MemoryStep ==
  /\ TypeInv /\ TalkInv /\ InboundSeesEarlierMemories /\ [Next]_vars
  => InboundSeesEarlierMemories'
<1> SUFFICES ASSUME TypeInv, TalkInv, InboundSeesEarlierMemories, [Next]_vars
             PROVE  InboundSeesEarlierMemories'
  OBVIOUS
<1>i. \A t \in Inner : t \notin Inbound
  BY TasksAssumption
<1>1. ASSUME NEW t \in Tasks, Recall(t) PROVE InboundSeesEarlierMemories'
  BY <1>1, MemoryTakeQuestion DEF Recall, BeforeQuestion
<1>2. ASSUME NEW t \in Tasks, RecallInner(t) PROVE InboundSeesEarlierMemories'
  <2>1. CASE TakeQuestion(t)
    BY <1>2, <2>1, MemoryTakeQuestion DEF RecallInner, BeforeQuestion
  <2>2. CASE UNCHANGED convVars
    <3>1. \A u \in Inbound : recalled'[u] = recalled[u]
      BY <1>2, <1>i DEF RecallInner, TypeInv, TypeOK, Tasks
    <3> QED BY <1>2, <2>2, <3>1, MemoryIdle DEF RecallInner, convVars
  <2> QED BY <1>2, <2>1, <2>2 DEF RecallInner
<1>3. ASSUME NEW t \in Tasks, Wake(t) PROVE InboundSeesEarlierMemories'
  <2>1. CASE t \in Inner /\ TakeQuestion(t)
    BY <1>3, <1>i, <2>1, MemoryTakeQuestion DEF Wake, memVars, BeforeQuestion
  <2>2. CASE UNCHANGED convVars
    BY <1>3, <2>2, MemoryIdle DEF Wake, convVars, memVars
  <2> QED BY <1>3, <2>1, <2>2 DEF Wake
<1>4. ASSUME NEW t \in Tasks, Remember(t) PROVE InboundSeesEarlierMemories'
  BY <1>4, MemoryRemember
<1>5. ASSUME NEW t \in Tasks, NEW n \in 0..MaxBlocks, Answer(t, n) PROVE InboundSeesEarlierMemories'
  BY <1>5, MemoryAnswer
<1>6. CASE UNCHANGED <<log, memVars>>
  BY <1>6, MemoryIdle DEF memVars
<1>7. ASSUME NEW t \in Tasks, Receive(t) \/ AskInner(t) PROVE UNCHANGED <<log, memVars>>
  BY <1>7 DEF Receive, AskInner, convVars
<1>8. ASSUME NEW t \in Tasks, HandleInbound(t) \/ TakeFrame(t) PROVE UNCHANGED <<log, memVars>>
  BY <1>8 DEF HandleInbound, TakeFrame, convVars
<1>9. ASSUME NEW t \in Tasks, NEW ok \in BOOLEAN, Compact(t, ok) PROVE UNCHANGED <<log, memVars>>
  BY <1>9 DEF Compact
<1>10. ASSUME NEW t \in Tasks, Fail(t) PROVE UNCHANGED <<log, memVars>>
  BY <1>10 DEF Fail, convVars
<1>11. ASSUME NEW t \in Tasks, DeliverBlock(t) \/ DeliverFails(t) PROVE UNCHANGED <<log, memVars>>
  BY <1>11 DEF DeliverBlock, DeliverFails, convVars
<1>12. ASSUME NEW t \in Tasks, Finish(t) \/ ReportError(t) PROVE UNCHANGED <<log, memVars>>
  BY <1>12 DEF Finish, ReportError, convVars
<1>13. ASSUME NEW s \in Sessions, Reset(s) PROVE UNCHANGED <<log, memVars>>
  BY <1>13 DEF Reset
<1>14. CASE UNCHANGED vars
  BY <1>6, <1>14 DEF vars, convVars
<1>15. QED
  BY <1>1, <1>2, <1>3, <1>4, <1>5, <1>6, <1>7, <1>8, <1>9, <1>10, <1>11, <1>12, <1>13, <1>14
     DEF Next, Step, Terminated

\* The turn of a message could recall every memory the earlier turns of its session
\* stored, for any number of messages, memories and delegations.
THEOREM EarlierMemoriesSeen == Spec => []InboundSeesEarlierMemories
<1>1. Init => InboundSeesEarlierMemories
  <2>1. Init => remembered = {}
    BY DEF Init
  <2> QED BY <2>1 DEF InboundSeesEarlierMemories
<1> QED BY <1>1, OrderInit, TalkInit, TypeInit, TypeStep, LockStep, OrderStep, TalkStep,
           MemoryStep, PTL DEF Spec
-----------------------------------------------------------------------------
(* The turns of the gateway implement Conversation.                        *)

\* What a person who asked can tell of a step: nothing (a delegation, a tool call,
\* a reset), or one of the steps of a message below.
Unnoticed ==
  /\ \A u \in Inbound : pc'[u] = pc[u]
  /\ \A u \in Inner : pc'[u] \in {"delivering", "reporting"} => pc'[u] = pc[u]
  /\ UNCHANGED <<blocks, delivered, outbox, arrivals, taken>>

Goes(t) ==
  /\ UNCHANGED <<blocks, delivered, outbox, arrivals, taken>>
  /\ \E to \in Pc :
       /\ pc' = [pc EXCEPT ![t] = to]
       /\ \/ pc[t] = "waiting" /\ to = "recalling"
          \/ pc[t] \in {"recalling", "compacting"} /\ to \in {"compacting", "thinking"}
          \/ pc[t] = "thinking" /\ to = "reporting"
          \/ pc[t] = "delivering" /\ to = "done" /\ delivered[t] = blocks[t]

Answers(t, n) ==
  /\ pc[t] = "thinking"
  /\ pc' = [pc EXCEPT ![t] = "delivering"]
  /\ blocks' = [blocks EXCEPT ![t] = n]
  /\ UNCHANGED <<delivered, outbox, arrivals, taken>>

\* A delegation delivers nothing: its answer goes to the agent that called.
Silent == \A t \in Inner : pc[t] \notin {"delivering", "reporting"}

LEMMA StepNoticed ==
  ASSUME TypeInv, OrderInv, Silent, [Next]_vars
  PROVE  \/ Unnoticed
         \/ \E t \in Inbound :
              \/ Receive(t) \/ Taking(t) \/ Goes(t) \/ \E n \in 0..MaxBlocks : Answers(t, n)
              \/ DeliverBlock(t) \/ DeliverFails(t) \/ ReportError(t)
<1>T. /\ pc \in [Tasks -> Pc] /\ spawned \in Seq(Inbound)
      /\ \A t \in Tasks : t \in Inner => t \notin Inbound
      /\ \A t \in Tasks : t \notin Inner => t \in Inbound
      /\ Inbound \subseteq Tasks
  BY TasksAssumption DEF TypeInv, TypeOK, Tasks
<1>1. ASSUME NEW t \in Inner, NEW to \in Pc, pc' = [pc EXCEPT ![t] = to],
             to # "delivering", to # "reporting",
             UNCHANGED <<blocks, delivered, outbox, arrivals, taken>>
      PROVE  Unnoticed
  BY <1>T, <1>1 DEF Unnoticed, Tasks
<1>g. ASSUME NEW t \in Inbound, NEW to \in Pc, pc' = [pc EXCEPT ![t] = to],
             UNCHANGED <<blocks, delivered, outbox, arrivals, taken>>,
             \/ pc[t] = "waiting" /\ to = "recalling"
             \/ pc[t] \in {"recalling", "compacting"} /\ to \in {"compacting", "thinking"}
             \/ pc[t] = "thinking" /\ to = "reporting"
             \/ pc[t] = "delivering" /\ to = "done" /\ delivered[t] = blocks[t]
      PROVE  Goes(t)
  BY <1>g DEF Goes
<1>p. {"dropped", "waiting", "recalling", "compacting", "thinking", "reporting", "done"} \subseteq Pc
  BY DEF Pc
<1>2. ASSUME NEW t \in Tasks, AskInner(t) PROVE Unnoticed
  BY <1>1, <1>2 DEF AskInner, outVars, Pc
<1>3. ASSUME NEW t \in Tasks, Taking(t) PROVE t \in Inbound
  BY <1>3, TakingFrom
<1>4. ASSUME NEW t \in Tasks, Recall(t) PROVE t \in Inbound /\ Goes(t)
  BY <1>4, TakeQuestionMoves DEF Recall, Goes, Pc
<1>5. ASSUME NEW t \in Tasks, RecallInner(t) PROVE Unnoticed
  <2>1. t \in Inner /\ UNCHANGED <<blocks, delivered, outbox, arrivals, taken>>
    BY <1>5 DEF RecallInner
  <2>2. \E to \in {"waiting", "compacting", "thinking"} : pc' = [pc EXCEPT ![t] = to]
    BY <1>5, TakeQuestionMoves DEF RecallInner, Queue
  <2> QED BY <2>1, <2>2, <1>1 DEF Pc
<1>6. ASSUME NEW t \in Tasks, Wake(t) PROVE Unnoticed \/ (t \in Inbound /\ Goes(t))
  <2>1. UNCHANGED <<blocks, delivered, outbox, arrivals, taken>> /\ pc[t] = "waiting"
    BY <1>6 DEF Wake
  <2>2. CASE t \in Inbound /\ EnterTurn(t)
    BY <2>1, <2>2 DEF EnterTurn, Goes, Pc
  <2>3. CASE t \in Inner /\ TakeQuestion(t)
    <3>1. PICK to \in {"compacting", "thinking"} : pc' = [pc EXCEPT ![t] = to]
      BY <2>3, TakeQuestionMoves
    <3>2. to \in Pc /\ to # "delivering" /\ to # "reporting"
      BY <3>1, <1>p
    <3> QED BY <2>1, <2>3, <3>1, <3>2, <1>1
  <2>4. (t \in Inbound /\ EnterTurn(t)) \/ (t \in Inner /\ TakeQuestion(t))
    BY <1>6, ZenonT(30) DEF Wake
  <2> QED BY <2>2, <2>3, <2>4
<1>7. ASSUME NEW t \in Tasks, NEW ok \in BOOLEAN, Compact(t, ok)
      PROVE  Unnoticed \/ (t \in Inbound /\ Goes(t))
  <2>1. /\ UNCHANGED <<blocks, delivered, outbox, arrivals, taken>>
        /\ pc[t] = "compacting" /\ pc' = [pc EXCEPT ![t] = "thinking"]
    BY <1>7 DEF Compact
  <2>2. CASE t \in Inner
    BY <2>1, <2>2, <1>1, <1>p
  <2>3. CASE t \in Inbound
    BY <2>1, <2>3, <1>g, <1>p
  <2> QED BY <2>2, <2>3, <1>T
<1>8. ASSUME NEW t \in Tasks, Remember(t) PROVE Unnoticed
  BY <1>8 DEF Remember, Unnoticed, outVars
<1>9. ASSUME NEW t \in Tasks, NEW n \in 0..MaxBlocks, Answer(t, n)
      PROVE  Unnoticed \/ (t \in Inbound /\ Answers(t, n))
  <2>1. UNCHANGED <<delivered, outbox, arrivals, taken>> /\ pc[t] = "thinking"
    BY <1>9 DEF Answer
  <2>2. \/ t \in Inner /\ pc' = [pc EXCEPT ![t] = "done"] /\ UNCHANGED blocks
        \/ /\ t \in Inbound /\ pc' = [pc EXCEPT ![t] = "delivering"]
           /\ blocks' = [blocks EXCEPT ![t] = n]
    BY <1>9 DEF Answer
  <2>3. CASE t \in Inner /\ pc' = [pc EXCEPT ![t] = "done"] /\ UNCHANGED blocks
    BY <2>1, <2>3, <1>1, <1>p
  <2> QED BY <2>1, <2>2, <2>3 DEF Answers
<1>10. ASSUME NEW t \in Tasks, Fail(t) PROVE Unnoticed \/ (t \in Inbound /\ Goes(t))
  <2>1. UNCHANGED <<blocks, delivered, outbox, arrivals, taken>> /\ pc[t] = "thinking"
    BY <1>10 DEF Fail
  <2>2. \/ t \in Inner /\ pc' = [pc EXCEPT ![t] = "done"]
        \/ t \in Inbound /\ pc' = [pc EXCEPT ![t] = "reporting"]
    BY <1>10 DEF Fail
  <2>3. CASE t \in Inner /\ pc' = [pc EXCEPT ![t] = "done"]
    BY <2>1, <2>3, <1>1, <1>p
  <2>4. CASE t \in Inbound /\ pc' = [pc EXCEPT ![t] = "reporting"]
    BY <2>1, <2>4, <1>g, <1>p
  <2> QED BY <2>2, <2>3, <2>4
<1>11. ASSUME NEW t \in Tasks, Finish(t) PROVE Unnoticed \/ (t \in Inbound /\ Goes(t))
  <2>1. /\ UNCHANGED <<blocks, delivered, outbox, arrivals, taken>>
        /\ pc[t] = "delivering" /\ delivered[t] = blocks[t]
        /\ pc' = [pc EXCEPT ![t] = "done"]
    BY <1>11 DEF Finish, outVars
  <2>2. CASE t \in Inner
    BY <2>1, <2>2, <1>1, <1>p
  <2>3. CASE t \in Inbound
    BY <2>1, <2>3, <1>g, <1>p
  <2> QED BY <2>2, <2>3, <1>T
<1>12. ASSUME NEW t \in Tasks, DeliverBlock(t) \/ DeliverFails(t) \/ ReportError(t) \/ Receive(t)
      PROVE  t \in Inbound
  BY <1>12, <1>T DEF DeliverBlock, DeliverFails, ReportError, Receive, Silent
<1>13. ASSUME NEW s \in Sessions, Reset(s) PROVE Unnoticed
  BY <1>13 DEF Reset, Unnoticed, outVars
<1>14. CASE UNCHANGED vars
  BY <1>14 DEF vars, Unnoticed, outVars
<1> QED
  BY <1>T, <1>2, <1>3, <1>4, <1>5, <1>6, <1>7, <1>8, <1>9, <1>10, <1>11, <1>12, <1>13, <1>14
     DEF Next, Step, Terminated, Taking

\* The indices told of t in o, and what t's session was told of it.
IndicesOf(o, t) == {o[k].index : k \in {k \in DOMAIN o : o[k].task = t}}
Heard(t) == IndicesOf(outbox[SessionOf[t]], t)

\* A delivery adds to what is heard of its own task only.
LEMMA HeardPost ==
  ASSUME TypeInv, NEW t \in Tasks, NEW i \in Int, Post(t, i), NEW u \in Tasks
  PROVE  Heard(u)' = IF u = t THEN Heard(u) \cup {i} ELSE Heard(u)
<1> DEFINE d == [task |-> t, index |-> i]
           o == outbox[SessionOf[t]]
           q == Append(o, d)
<1>1. /\ SessionOf[t] \in Sessions /\ SessionOf[u] \in Sessions
      /\ outbox \in [Sessions -> Seq(Delivery)]
  BY TasksAssumption DEF TypeInv, TypeOK
<1>2. outbox' = [outbox EXCEPT ![SessionOf[t]] = q]
  BY DEF Post
<1>3. o \in Seq(Delivery) /\ d \in Delivery /\ d.task = t /\ d.index = i
  BY <1>1 DEF Delivery
<1>4. q = Append(o, d)
  OBVIOUS
<1> HIDE DEF d, q, o
<1>5. /\ u = t => IndicesOf(q, u) = IndicesOf(o, u) \cup {i}
      /\ u # t => IndicesOf(q, u) = IndicesOf(o, u)
  <2>1. /\ Len(o) \in Nat /\ DOMAIN o = 1..Len(o) /\ DOMAIN q = 1..(Len(o) + 1)
        /\ q[Len(o) + 1] = d /\ \A k \in 1..Len(o) : q[k] = o[k]
    BY <1>3, <1>4
  <2>2. ASSUME NEW x
        PROVE  x \in IndicesOf(q, u) <=> x \in IndicesOf(o, u) \/ (u = t /\ x = i)
    <3>1. x \in IndicesOf(q, u) <=> \E k \in 1..(Len(o) + 1) : q[k].task = u /\ x = q[k].index
      BY <2>1 DEF IndicesOf
    <3>2. x \in IndicesOf(o, u) <=> \E k \in 1..Len(o) : o[k].task = u /\ x = o[k].index
      BY <2>1 DEF IndicesOf
    <3>3. 1..(Len(o) + 1) = 1..Len(o) \cup {Len(o) + 1}
      BY <2>1
    <3> QED BY <1>3, <2>1, <3>1, <3>2, <3>3
  <2> QED BY <2>2
<1>6. CASE SessionOf[u] = SessionOf[t]
  BY <1>1, <1>2, <1>3, <1>5, <1>6 DEF Heard, o
<1>7. CASE SessionOf[u] # SessionOf[t]
  BY <1>1, <1>2, <1>7 DEF Heard
<1> QED BY <1>6, <1>7

Unanswered == {"idle", "spawned", "waiting", "recalling", "compacting", "thinking"}

\* Of a message nothing is told before its answer is there, and while the answer is
\* delivered exactly the blocks before the next one were.
HeardInv ==
  /\ Silent
  /\ \A t \in Inbound :
       /\ pc[t] \in Unanswered => delivered[t] = 0 /\ Heard(t) = {}
       /\ pc[t] = "delivering" =>
            /\ delivered[t] <= blocks[t] /\ blocks[t] <= MaxBlocks
            /\ Heard(t) = 0..(delivered[t] - 1)

LEMMA HeardInit == Init => HeardInv
<1> SUFFICES ASSUME Init PROVE HeardInv
  OBVIOUS
<1>1. \A t \in Tasks : pc[t] = "idle" /\ delivered[t] = 0
  BY DEF Init
<1>2. \A t \in Tasks : outbox[SessionOf[t]] = <<>>
  BY TasksAssumption DEF Init
<1>3. \A t \in Tasks : IndicesOf(<<>>, t) = {}
  BY DEF IndicesOf
<1> QED BY <1>1, <1>2, <1>3 DEF HeardInv, Silent, Heard, Tasks, Unanswered

LEMMA HeardStep == TypeInv /\ OrderInv /\ HeardInv /\ [Next]_vars => HeardInv'
<1> SUFFICES ASSUME TypeInv, OrderInv, HeardInv, [Next]_vars PROVE HeardInv'
  OBVIOUS
<1>T. /\ pc \in [Tasks -> Pc] /\ blocks \in [Tasks -> Nat] /\ delivered \in [Tasks -> Nat]
      /\ \A t \in Inner : t \notin Inbound /\ t \in Tasks
      /\ Inbound \subseteq Tasks
  BY TasksAssumption DEF TypeInv, TypeOK, Tasks
<1>0. Silent /\ \A t \in Inbound :
        /\ pc[t] \in Unanswered => delivered[t] = 0 /\ Heard(t) = {}
        /\ pc[t] = "delivering" =>
             /\ delivered[t] <= blocks[t] /\ blocks[t] <= MaxBlocks
             /\ Heard(t) = 0..(delivered[t] - 1)
  BY DEF HeardInv
<1> DEFINE Kept(u) ==
             /\ pc'[u] \in Unanswered => delivered'[u] = 0 /\ Heard(u)' = {}
             /\ pc'[u] = "delivering" => /\ delivered'[u] <= blocks'[u] /\ blocks'[u] <= MaxBlocks
                                         /\ Heard(u)' = 0..(delivered'[u] - 1)
<1>1. ASSUME Unnoticed PROVE HeardInv'
  <2>1. \A u \in Tasks : Heard(u)' = Heard(u)
    BY <1>1 DEF Unnoticed, Heard
  <2>2. Silent'
    BY <1>0, <1>1 DEF Unnoticed, Silent
  <2> QED BY <1>0, <1>1, <1>T, <2>1, <2>2 DEF Unnoticed, HeardInv
<1>2. ASSUME NEW t \in Inbound, \E to : pc' = [pc EXCEPT ![t] = to] PROVE Silent'
  BY <1>0, <1>2, <1>T DEF Silent
<1>3. ASSUME NEW t \in Inbound, Silent', \A u \in Inbound : Kept(u) PROVE HeardInv'
  BY <1>3 DEF HeardInv
<1>a. ASSUME NEW t \in Inbound, Taking(t)
      PROVE  /\ \E to \in {"dropped", "recalling", "waiting"} : pc' = [pc EXCEPT ![t] = to]
             /\ pc[t] \in {"idle", "spawned"} /\ UNCHANGED outVars
  BY <1>T, <1>a, TakingFrom, ApproachMoves
<1>4. ASSUME NEW t \in Inbound,
             Receive(t) \/ Taking(t) \/ Goes(t) \/ \E n \in 0..MaxBlocks : Answers(t, n)
      PROVE  HeardInv'
  <2>1. \A u \in Tasks : Heard(u)' = Heard(u)
    BY <1>4, <1>a DEF Receive, Goes, Answers, Heard, outVars
  <2>2. delivered' = delivered
    BY <1>4, <1>a DEF Receive, Goes, Answers, outVars
  <2>3. \E to : pc' = [pc EXCEPT ![t] = to]
    BY <1>4, <1>a DEF Receive, Goes, Answers
  <2>4. pc'[t] \in Unanswered => pc[t] \in Unanswered
    BY <1>4, <1>a, <1>T DEF Receive, Goes, Answers, Unanswered
  <2>5. pc'[t] = "delivering" => pc[t] = "thinking" /\ blocks'[t] \in 0..MaxBlocks
    BY <1>4, <1>a, <1>T, SizesAssumption DEF Receive, Goes, Answers, Pc
  <2>6. \A u \in Inbound : u # t => pc'[u] = pc[u] /\ blocks'[u] = blocks[u]
    BY <1>4, <1>a, <1>T DEF Receive, Goes, Answers, outVars
  <2>7. Kept(t)
    <3>1. pc'[t] = "delivering" => delivered[t] = 0 /\ Heard(t) = {}
      BY <1>0, <2>5 DEF Unanswered
    <3>2. 0..(0 - 1) = {}
      OBVIOUS
    <3>3. Heard(t)' = Heard(t) /\ delivered'[t] = delivered[t]
      BY <1>T, <2>1, <2>2
    <3>4. pc'[t] \in Unanswered => delivered'[t] = 0 /\ Heard(t)' = {}
      BY <1>0, <2>4, <3>3
    <3>5. ASSUME pc'[t] = "delivering"
          PROVE  delivered'[t] <= blocks'[t] /\ blocks'[t] <= MaxBlocks /\ Heard(t)' = 0..(delivered'[t] - 1)
      <4>1. delivered'[t] = 0 /\ Heard(t)' = {} /\ blocks'[t] \in 0..MaxBlocks
        BY <3>1, <3>3, <3>5, <2>5
      <4> QED BY <4>1, <3>2, SizesAssumption
    <3> QED BY <3>4, <3>5
  <2>8. \A u \in Inbound : u # t => Kept(u)
    BY <1>0, <1>T, <2>1, <2>2, <2>6
  <2> QED BY <1>2, <1>3, <2>3, <2>7, <2>8
<1>5. ASSUME NEW t \in Inbound, DeliverBlock(t) PROVE HeardInv'
  <2>1. /\ pc' = pc /\ blocks' = blocks /\ pc[t] = "delivering" /\ delivered[t] < blocks[t]
        /\ Post(t, delivered[t]) /\ delivered' = [delivered EXCEPT ![t] = @ + 1]
    BY <1>5 DEF DeliverBlock
  <2>2. delivered[t] \in Nat /\ delivered[t] \in Int /\ blocks[t] \in Nat
    BY <1>T
  <2>3. \A u \in Tasks : Heard(u)' = IF u = t THEN Heard(u) \cup {delivered[t]} ELSE Heard(u)
    BY <1>T, <2>1, <2>2, HeardPost
  <2>4. Silent'
    BY <1>0, <2>1 DEF Silent
  <2>5. Kept(t)
    <3>1. /\ delivered'[t] = delivered[t] + 1 /\ Heard(t) = 0..(delivered[t] - 1)
          /\ blocks[t] <= MaxBlocks
      BY <1>0, <1>T, <2>1
    <3>2. 0..(delivered[t] - 1) \cup {delivered[t]} = 0..((delivered[t] + 1) - 1)
      BY <2>2
    <3>3. delivered[t] + 1 <= blocks[t]
      BY <2>1, <2>2
    <3>4. Heard(t)' = Heard(t) \cup {delivered[t]}
      BY <1>T, <2>3
    <3>5. pc'[t] \notin Unanswered
      BY <2>1 DEF Unanswered
    <3> QED BY <2>1, <3>1, <3>2, <3>3, <3>4, <3>5
  <2>6. \A u \in Inbound : u # t => Kept(u)
    <3>1. \A u \in Inbound : u # t => delivered'[u] = delivered[u] /\ Heard(u)' = Heard(u)
      BY <1>T, <2>1, <2>3
    <3> QED BY <1>0, <2>1, <3>1
  <2> QED BY <1>3, <2>4, <2>5, <2>6
<1>6. ASSUME NEW t \in Inbound, DeliverFails(t) \/ ReportError(t) PROVE HeardInv'
  <2>1. /\ delivered' = delivered /\ blocks' = blocks
        /\ \E to \in {"reporting", "done"} : pc' = [pc EXCEPT ![t] = to]
        /\ \/ Post(t, delivered[t])
           \/ Post(t, -1)
           \/ UNCHANGED outbox
    BY <1>6 DEF DeliverFails, ReportError
  <2>2. delivered[t] \in Int /\ -1 \in Int
    BY <1>T
  <2>3. \A u \in Tasks : u # t => Heard(u)' = Heard(u)
    <3>1. CASE UNCHANGED outbox
      BY <3>1 DEF Heard
    <3>2. CASE Post(t, delivered[t])
      BY <3>2, <2>2, <1>T, HeardPost
    <3>3. CASE Post(t, -1)
      BY <3>3, <2>2, <1>T, HeardPost
    <3> QED BY <2>1, <3>1, <3>2, <3>3
  <2>4. Kept(t)
    BY <1>T, <2>1 DEF Unanswered
  <2>5. \A u \in Inbound : u # t => Kept(u)
    <3>1. \A u \in Inbound : u # t => pc'[u] = pc[u]
      BY <1>T, <2>1
    <3> QED BY <1>0, <1>T, <2>1, <2>3, <3>1
  <2> QED BY <1>2, <1>3, <2>1, <2>4, <2>5
<1> QED BY <1>0, <1>1, <1>4, <1>5, <1>6, StepNoticed

LEMMA StagesMove ==
  ASSUME TypeInv, NEW t \in Inbound, NEW to, pc' = [pc EXCEPT ![t] = to]
  PROVE  Stages' = [Stages EXCEPT ![t] = StageOf(to)] /\ Stages[t] = StageOf(pc[t])
<1>1. pc \in [Tasks -> Pc] /\ Inbound \subseteq Tasks
  BY DEF TypeInv, TypeOK, Tasks
<1>2. \A u \in Inbound : pc'[u] = IF u = t THEN to ELSE pc[u]
  BY <1>1
<1> DEFINE after == StageOf(to)
<1>3. \A u \in Inbound : StageOf(pc'[u]) = IF u = t THEN after ELSE StageOf(pc[u])
  BY <1>2
<1> HIDE DEF after
<1>4. Stages' = [Stages EXCEPT ![t] = after] /\ Stages[t] = StageOf(pc[t])
  BY <1>3 DEF Stages
<1> QED BY <1>4 DEF after

\* A message that has just got its session's lock: all before it in the line are over.
LEMMA NoneBefore ==
  ASSUME TypeInv', OrderInv', taken' = taken, NEW t \in Inbound, pc'[t] = "recalling"
  PROVE  \A i, j \in DOMAIN taken :
           /\ i < j
           /\ taken[j] = t
           /\ SessionOf[taken[i]] = SessionOf[t]
           => taken[i] \in Inbound \ {t} /\ pc'[taken[i]] \in {"done", "dropped"}
<1> SUFFICES ASSUME NEW i \in DOMAIN taken, NEW j \in DOMAIN taken,
                    i < j, taken[j] = t, SessionOf[taken[i]] = SessionOf[t]
             PROVE  taken[i] \in Inbound \ {t} /\ pc'[taken[i]] \in {"done", "dropped"}
  OBVIOUS
<1>1. /\ i \in 1..Len(taken) /\ j \in 1..Len(taken)
      /\ taken[i] \in Inbound
  BY DEF TypeInv, TypeOK
<1>2. Before(taken[i], t, taken)
  BY <1>1 DEF Before
<1> QED BY <1>1, <1>2 DEF OrderInv, LineOrder

\* The first of the spawned tasks is the first of those asked and not taken up.
LEMMA FirstAsked ==
  ASSUME TypeInv, OrderInv, NEW t \in Tasks, HandleInbound(t)
  PROVE  Talk!IsNext(t)
<1> SUFFICES ASSUME NEW i \in DOMAIN arrivals, NEW j \in DOMAIN arrivals,
                    i < j, arrivals[j] = t, Stages[arrivals[i]] = "asked"
             PROVE  FALSE
  BY DEF Talk!IsNext
<1>a. /\ i \in 1..Len(arrivals) /\ j \in 1..Len(arrivals)
      /\ arrivals[i] \in Inbound /\ arrivals[i] \in Tasks
      /\ pc[arrivals[i]] \in Pc
  BY DEF TypeInv, TypeOK, Tasks
<1>1. Before(arrivals[i], t, arrivals)
  BY <1>a DEF Before
<1>2. StageOf(pc[arrivals[i]]) = "asked"
  BY <1>a DEF Stages
<1>3. pc[arrivals[i]] = "spawned"
  BY <1>a, <1>2 DEF StageOf, Pc
<1>4. \A u \in Spawned : u # t => ~Before(u, t, arrivals)
  BY TakingFrom DEF Taking
<1>5. arrivals[i] # t
  BY <1>a, <1>1 DEF OrderInv, ArrivalOrder
<1> QED BY <1>a, <1>1, <1>3, <1>4, <1>5 DEF Spawned

\* Taking a message up is joining the line of its conversation.
LEMMA TakesUp ==
  ASSUME TypeInv, LockInv, OrderInv, NEW t \in Tasks, Taking(t)
  PROVE  Talk!TakeUp(t)
<1>1. /\ t \in Inbound /\ pc[t] \in {"idle", "spawned"} /\ Approach(t)
      /\ UNCHANGED <<convVars, memVars, outVars, resets>>
      /\ HandleInbound(t) => pc[t] = "spawned"
  BY TakingFrom
<1>2. Parts' = Parts /\ outbox' = outbox /\ taken' = Append(taken, t)
  BY <1>1, ApproachMoves DEF outVars, Parts
<1>3. \/ Stages[t] = "asked" /\ Talk!IsNext(t) /\ UNCHANGED arrivals
      \/ t \in WebChat /\ Stages[t] = "new" /\ arrivals' = Append(arrivals, t)
  <2>1. CASE HandleInbound(t)
    <3>1. Stages[t] = "asked"
      BY <1>1, <2>1 DEF Stages, StageOf
    <3> QED BY <2>1, <3>1, FirstAsked DEF HandleInbound
  <2>2. CASE TakeFrame(t)
    <3>1. pc[t] = "idle"
      BY <2>2 DEF TakeFrame
    <3>2. Stages[t] = "new"
      BY <1>1, <3>1 DEF Stages, StageOf
    <3> QED BY <2>2, <3>2 DEF TakeFrame
  <2> QED BY <2>1, <2>2 DEF Taking
<1>4. \/ Talk!Becomes(t, "over")
      \/ Talk!Becomes(t, "waiting")
      \/ Talk!AllOver(t, Len(taken) + 1) /\ Talk!Becomes(t, "served")
  <2>1. CASE pc' = [pc EXCEPT ![t] = "dropped"]
    <3>1. Stages' = [Stages EXCEPT ![t] = StageOf("dropped")]
      BY <1>1, <2>1, StagesMove
    <3> QED BY <3>1 DEF StageOf, Talk!Becomes
  <2>2. CASE Queue(t)
    <3>1. Stages' = [Stages EXCEPT ![t] = StageOf("waiting")]
      BY <1>1, <2>2, StagesMove DEF Queue
    <3> QED BY <3>1 DEF StageOf, Talk!Becomes
  <2>3. CASE LockFree(SessionOf[t]) /\ EnterTurn(t)
    <3>1. Stages' = [Stages EXCEPT ![t] = StageOf("recalling")]
      BY <1>1, <2>3, StagesMove DEF EnterTurn
    <3>2. ASSUME NEW i \in DOMAIN taken, SessionOf[taken[i]] = SessionOf[t]
          PROVE  Stages[taken[i]] = "over"
      <4>1. i \in 1..Len(taken) /\ taken[i] \in Inbound /\ SessionOf[t] \in Sessions
        BY TasksAssumption DEF TypeInv, TypeOK
      <4>2. pc[taken[i]] \in {"done", "dropped"}
        BY <2>3, <3>2, <4>1, AllOverWhenFree DEF OrderInv
      <4> QED BY <4>1, <4>2 DEF Stages, StageOf
    <3>3. Talk!AllOver(t, Len(taken) + 1)
      BY <3>2 DEF Talk!AllOver
    <3> QED BY <3>1, <3>3 DEF StageOf, Talk!Becomes
  <2> QED BY <1>1, <2>1, <2>2, <2>3 DEF Approach
<1> QED BY <1>2, <1>3, <1>4 DEF Talk!TakeUp

\* Every step of the gateway is a step of the conversations, or none.
LEMMA Converses ==
  ASSUME TypeInv, LockInv, OrderInv, HeardInv, [Next]_vars
  PROVE  [Talk!Next]_<<arrivals, taken, Stages, Parts, outbox>>
<1>T. /\ pc \in [Tasks -> Pc] /\ blocks \in [Tasks -> Nat] /\ delivered \in [Tasks -> Nat]
      /\ arrivals \in Seq(Inbound) /\ Inbound \subseteq Tasks
  BY DEF TypeInv, TypeOK, Tasks
<1>I. TypeInv' /\ OrderInv'
  BY TypeStep, OrderStep
<1>H. ASSUME NEW t \in Inbound
      PROVE  /\ Talk!Told(t) = Heard(t)
             /\ Parts[t] = blocks[t]
             /\ pc[t] = "delivering" => /\ delivered[t] <= blocks[t] /\ blocks[t] <= MaxBlocks
                                        /\ Heard(t) = 0..(delivered[t] - 1)
  BY DEF Talk!Told, Heard, IndicesOf, Parts, HeardInv
<1>1. CASE Unnoticed
  BY <1>1 DEF Unnoticed, Stages, Parts, outVars
<1>2. ASSUME NEW t \in Inbound, Receive(t) PROVE Talk!Ask(t)
  <2>1. /\ Parts' = Parts /\ outbox' = outbox /\ taken' = taken
        /\ arrivals' = Append(arrivals, t) /\ t \notin WebChat
    BY <1>2 DEF Receive, outVars, Parts
  <2>2. Stages' = [Stages EXCEPT ![t] = StageOf("spawned")] /\ Stages[t] = StageOf("idle")
    BY <1>2, StagesMove DEF Receive
  <2> QED BY <2>1, <2>2 DEF Talk!Ask, Talk!Becomes, StageOf
<1>3. ASSUME NEW t \in Inbound, Goes(t)
      PROVE  \/ UNCHANGED <<arrivals, taken, Stages, Parts, outbox>>
             \/ Talk!Serve(t) \/ Talk!Fail(t) \/ Talk!Finish(t)
  <2>0. UNCHANGED <<blocks, delivered, outbox, arrivals, taken>> /\ Parts' = Parts
    BY <1>3 DEF Goes, Parts
  <2>1. PICK to \in Pc :
          /\ pc' = [pc EXCEPT ![t] = to]
          /\ \/ pc[t] = "waiting" /\ to = "recalling"
             \/ pc[t] \in {"recalling", "compacting"} /\ to \in {"compacting", "thinking"}
             \/ pc[t] = "thinking" /\ to = "reporting"
             \/ pc[t] = "delivering" /\ to = "done" /\ delivered[t] = blocks[t]
    BY <1>3 DEF Goes
  <2>2. Stages' = [Stages EXCEPT ![t] = StageOf(to)] /\ Stages[t] = StageOf(pc[t])
    BY <2>1, StagesMove
  <2>4. CASE pc[t] \in {"recalling", "compacting"} /\ to \in {"compacting", "thinking"}
    <3>1. StageOf(to) = StageOf(pc[t])
      BY <2>4 DEF StageOf
    <3>2. Stages' = Stages
      BY <2>2, <3>1 DEF Stages
    <3> QED BY <2>0, <3>2
  <2>5. CASE pc[t] = "waiting" /\ to = "recalling"
    <3>1. Stages[t] = "waiting" /\ StageOf(to) = "served"
      BY <2>2, <2>5 DEF StageOf
    <3>2. pc'[t] = "recalling"
      BY <1>T, <2>1, <2>5
    <3>3. ASSUME NEW i \in DOMAIN taken, NEW j \in DOMAIN taken,
                 i < j, taken[j] = t, SessionOf[taken[i]] = SessionOf[t]
          PROVE  Stages[taken[i]] = "over"
      <4>1. taken[i] \in Inbound \ {t} /\ pc'[taken[i]] \in {"done", "dropped"}
        BY <1>I, <2>0, <3>2, <3>3, NoneBefore
      <4>2. pc[taken[i]] = pc'[taken[i]]
        BY <1>T, <2>1, <4>1
      <4> QED BY <4>1, <4>2 DEF Stages, StageOf
    <3>4. \A j \in DOMAIN taken : taken[j] = t => Talk!AllOver(t, j)
      BY <3>3 DEF Talk!AllOver
    <3> QED BY <2>0, <2>2, <3>1, <3>4 DEF Talk!Serve, Talk!Becomes
  <2>6. CASE pc[t] = "thinking" /\ to = "reporting"
    <3>1. Stages[t] = "served" /\ StageOf(to) = "failed"
      BY <2>2, <2>6 DEF StageOf
    <3> QED BY <2>0, <2>2, <3>1 DEF Talk!Fail, Talk!Becomes
  <2>7. CASE pc[t] = "delivering" /\ to = "done" /\ delivered[t] = blocks[t]
    <3>1. Stages[t] = "answered" /\ StageOf(to) = "over"
      BY <2>2, <2>7 DEF StageOf
    <3>2. Talk!Told(t) = 0..(Parts[t] - 1)
      BY <1>H, <2>7
    <3> QED BY <2>0, <2>2, <3>1, <3>2 DEF Talk!Finish, Talk!Becomes
  <2> QED BY <2>1, <2>4, <2>5, <2>6, <2>7
<1>4. ASSUME NEW t \in Inbound, NEW n \in 0..MaxBlocks, Answers(t, n) PROVE Talk!Answer(t, n)
  <2>1. outbox' = outbox /\ arrivals' = arrivals /\ taken' = taken
    BY <1>4 DEF Answers
  <2>2. Stages' = [Stages EXCEPT ![t] = "answered"] /\ Stages[t] = "served"
    <3>1. Stages' = [Stages EXCEPT ![t] = StageOf("delivering")] /\ Stages[t] = StageOf("thinking")
      BY <1>4, StagesMove DEF Answers
    <3> QED BY <3>1 DEF StageOf
  <2>3. Parts' = [Parts EXCEPT ![t] = n]
    <3>1. \A u \in Inbound : blocks'[u] = IF u = t THEN n ELSE blocks[u]
      BY <1>4, <1>T DEF Answers
    <3> QED BY <3>1 DEF Parts
  <2> QED BY <2>1, <2>2, <2>3 DEF Talk!Answer, Talk!Becomes
<1>5. ASSUME NEW t \in Inbound, pc[t] = "delivering", delivered[t] < blocks[t]
      PROVE  /\ delivered[t] \in 0..MaxBlocks
             /\ Talk!Told(t) = 0..(delivered[t] - 1)
             /\ Talk!Told(t) # 0..(Parts[t] - 1)
             /\ delivered[t] < Parts[t]
  <2>1. /\ delivered[t] \in Nat /\ blocks[t] \in Nat /\ blocks[t] <= MaxBlocks
        /\ Talk!Told(t) = 0..(delivered[t] - 1) /\ Parts[t] = blocks[t]
    BY <1>T, <1>H, <1>5
  <2>2. delivered[t] \in 0..MaxBlocks
    BY <2>1, <1>5, SizesAssumption
  <2>3. delivered[t] \in 0..(blocks[t] - 1) /\ delivered[t] \notin 0..(delivered[t] - 1)
    BY <2>1, <1>5
  <2> QED BY <2>1, <2>2, <2>3, <1>5
<1>6. ASSUME NEW t \in Inbound, DeliverBlock(t)
      PROVE  \E n \in 0..MaxBlocks : Talk!TellPart(t, n)
  <2>1. /\ pc[t] = "delivering" /\ delivered[t] < blocks[t] /\ Post(t, delivered[t])
        /\ pc' = pc /\ blocks' = blocks
        /\ arrivals' = arrivals /\ taken' = taken
    BY <1>6 DEF DeliverBlock
  <2>2. UNCHANGED <<arrivals, taken, Stages, Parts>> /\ Stages[t] = "answered"
    BY <2>1 DEF Stages, Parts, StageOf
  <2>3. Talk!Tell(t, delivered[t])
    BY <2>1, <1>5 DEF Talk!Tell, Talk!Say, Post
  <2> QED BY <2>1, <2>2, <2>3, <1>5 DEF Talk!TellPart
<1>7. ASSUME NEW t \in Inbound, DeliverFails(t) PROVE Talk!Fail(t)
  <2>1. /\ pc[t] = "delivering" /\ delivered[t] < blocks[t]
        /\ Post(t, delivered[t]) \/ UNCHANGED outbox
        /\ pc' = [pc EXCEPT ![t] = "reporting"] /\ blocks' = blocks
        /\ arrivals' = arrivals /\ taken' = taken
    BY <1>7 DEF DeliverFails
  <2>2. Parts' = Parts
    BY <2>1 DEF Parts
  <2>3. Stages' = [Stages EXCEPT ![t] = "failed"] /\ Stages[t] = "answered"
    <3>1. Stages' = [Stages EXCEPT ![t] = StageOf("reporting")] /\ Stages[t] = StageOf("delivering")
      BY <2>1, StagesMove
    <3> QED BY <3>1 DEF StageOf
  <2>4. UNCHANGED outbox \/ \E i \in 0..MaxBlocks : Talk!Tell(t, i)
    <3>1. ASSUME Post(t, delivered[t]) PROVE Talk!Tell(t, delivered[t])
      BY <2>1, <3>1, <1>5 DEF Talk!Tell, Talk!Say, Post
    <3> QED BY <2>1, <3>1, <1>5
  <2> QED BY <2>1, <2>2, <2>3, <2>4, <1>5 DEF Talk!Fail, Talk!Becomes
<1>8. ASSUME NEW t \in Inbound, ReportError(t) PROVE Talk!ReportFailure(t)
  <2>1. /\ pc[t] = "reporting"
        /\ Post(t, -1) \/ UNCHANGED outbox
        /\ pc' = [pc EXCEPT ![t] = "done"] /\ blocks' = blocks
        /\ arrivals' = arrivals /\ taken' = taken
    BY <1>8 DEF ReportError
  <2>2. Parts' = Parts
    BY <2>1 DEF Parts
  <2>3. Stages' = [Stages EXCEPT ![t] = "over"] /\ Stages[t] = "failed"
    <3>1. Stages' = [Stages EXCEPT ![t] = StageOf("done")] /\ Stages[t] = StageOf("reporting")
      BY <2>1, StagesMove
    <3> QED BY <3>1 DEF StageOf
  <2>4. Talk!Say(t, Talk!Report) \/ UNCHANGED outbox
    BY <2>1 DEF Talk!Say, Talk!Report, Post
  <2> QED BY <2>1, <2>2, <2>3, <2>4 DEF Talk!ReportFailure, Talk!Becomes
<1>9. CASE \E t \in Inbound :
             \/ Receive(t) \/ Taking(t) \/ Goes(t) \/ \E n \in 0..MaxBlocks : Answers(t, n)
             \/ DeliverBlock(t) \/ DeliverFails(t) \/ ReportError(t)
  BY <1>T, <1>2, <1>3, <1>4, <1>6, <1>7, <1>8, <1>9, TakesUp DEF Talk!Next
<1> QED BY <1>1, <1>9, StepNoticed DEF HeardInv

\* handle_inbound, _run_turn: for any messages, delegations, blocks, failures and
\* resets, each session is served one message at a time, in the order of its line,
\* which its listeners' messages join as received and WebChat's at once, and is told
\* all of its answer in order, or a beginning and at most one error text.
THEOREM ConversationsHeld == Spec => HoldsConversations
<1>1. Init => Talk!Init
  BY DEF Init, Stages, StageOf, Parts, Tasks, Talk!Init
<1>2. Spec => [](TypeInv /\ LockInv /\ OrderInv /\ HeardInv)
  BY OrderInit, HeardInit, TypeInit, TypeStep, LockStep, OrderStep, HeardStep, PTL DEF Spec
<1> QED BY <1>1, <1>2, Converses, PTL DEF Spec, HoldsConversations, Talk!Spec
-----------------------------------------------------------------------------
(* No lock is left behind: the half of EveryTurnEnds that needs no fairness. *)

\* Who holds a lock is in a turn of its session.
HeldInv ==
  \A s \in Sessions, u \in Tasks : holder[s] = u => SessionOf[u] = s /\ InTurn(u)

\* A step takes a lock for a turn that goes on, gives one back, or touches none
\* and ends no turn.
Locks(t) ==
  /\ \A u \in Tasks : u # t => pc'[u] = pc[u]
  /\ \/ holder' = [holder EXCEPT ![SessionOf[t]] = t] /\ InTurn(t)'
     \/ holder' = [holder EXCEPT ![SessionOf[t]] = NoTask]
     \/ UNCHANGED holder /\ (InTurn(t) => InTurn(t)')

LEMMA StepLocks ==
  ASSUME TypeInv, OrderInv, [Next]_vars
  PROVE  UNCHANGED <<pc, holder>> \/ \E t \in Tasks : Locks(t)
<1>T. pc \in [Tasks -> Pc] /\ spawned \in Seq(Inbound) /\ \A t \in Inner : t \notin Inbound
  BY TasksAssumption DEF TypeInv, TypeOK
<1>1. ASSUME NEW t \in Tasks, NEW to \in Pc, pc' = [pc EXCEPT ![t] = to]
      PROVE  /\ \A u \in Tasks : u # t => pc'[u] = pc[u]
             /\ pc'[t] = to
  BY <1>T, <1>1
<1>2. ASSUME NEW t \in Tasks, NEW to \in Pc, pc' = [pc EXCEPT ![t] = to],
             ~InTurn(t), UNCHANGED holder
      PROVE  Locks(t)
  BY <1>1, <1>2 DEF Locks
<1>3. ASSUME NEW t \in Tasks, NEW to \in {"compacting", "thinking", "delivering", "reporting"},
             pc' = [pc EXCEPT ![t] = to],
             holder' = [holder EXCEPT ![SessionOf[t]] = t] \/ UNCHANGED holder
      PROVE  Locks(t)
  <2>1. to \in Pc
    BY DEF Pc
  <2> QED BY <1>1, <1>3, <2>1 DEF Locks, InTurn
<1>4. ASSUME NEW t \in Tasks, pc' = [pc EXCEPT ![t] = "done"], Release(t)
      PROVE  Locks(t)
  <2>1. "done" \in Pc
    BY DEF Pc
  <2> QED BY <1>1, <1>4, <2>1 DEF Locks, Release
<1>5. ASSUME NEW t \in Inbound, EnterTurn(t) PROVE Locks(t)
  <2>1. t \in Tasks /\ "recalling" \in Pc
    BY DEF Tasks, Pc
  <2> QED BY <1>1, <1>5, <2>1 DEF EnterTurn, Locks, InTurn
<1>6. {"idle", "spawned", "recalling", "waiting", "dropped"} \subseteq Pc
  BY DEF Pc
<1>7. ASSUME NEW t \in Tasks, Receive(t) \/ AskInner(t) PROVE Locks(t)
  BY <1>2, <1>6, <1>7, <1>T DEF Receive, AskInner, lockVars, InTurn
<1>8. ASSUME NEW t \in Tasks, Taking(t) PROVE Locks(t)
  <2>1. pc[t] \in {"idle", "spawned"} /\ t \in Inbound /\ Approach(t)
    BY <1>8, TakingFrom
  <2>2. \/ EnterTurn(t)
        \/ UNCHANGED holder /\ \E to \in {"dropped", "waiting"} : pc' = [pc EXCEPT ![t] = to]
    BY <2>1 DEF Approach, Queue
  <2> QED BY <1>2, <1>5, <1>6, <2>1, <2>2 DEF InTurn
<1>9. ASSUME NEW t \in Tasks, Recall(t) PROVE Locks(t)
  BY <1>3, <1>9, TakeQuestionMoves DEF Recall, lockVars
<1>10. ASSUME NEW t \in Tasks, RecallInner(t) PROVE Locks(t)
  <2>1. ~InTurn(t)
    BY <1>10, <1>T DEF RecallInner, InTurn
  <2>2. \/ TakeQuestion(t) /\ holder' = [holder EXCEPT ![SessionOf[t]] = t]
        \/ UNCHANGED holder /\ pc' = [pc EXCEPT ![t] = "waiting"]
    BY <1>10 DEF RecallInner, Queue
  <2> QED BY <1>2, <1>3, <1>6, <2>1, <2>2, TakeQuestionMoves
<1>11. ASSUME NEW t \in Tasks, Wake(t) PROVE Locks(t)
  <2>1. \/ t \in Inbound /\ EnterTurn(t)
        \/ TakeQuestion(t) /\ holder' = [holder EXCEPT ![SessionOf[t]] = t]
    BY <1>11 DEF Wake
  <2> QED BY <1>3, <1>5, <2>1, TakeQuestionMoves
<1>12. ASSUME NEW t \in Tasks, NEW ok \in BOOLEAN, Compact(t, ok) PROVE Locks(t)
  BY <1>3, <1>12 DEF Compact, lockVars
<1>13. ASSUME NEW t \in Tasks, NEW n \in 0..MaxBlocks, Answer(t, n) PROVE Locks(t)
  BY <1>3, <1>4, <1>13 DEF Answer
<1>14. ASSUME NEW t \in Tasks, Fail(t) PROVE Locks(t)
  BY <1>3, <1>4, <1>14 DEF Fail
<1>15. ASSUME NEW t \in Tasks, DeliverFails(t) PROVE Locks(t)
  BY <1>3, <1>15 DEF DeliverFails, lockVars
<1>16. ASSUME NEW t \in Tasks, Finish(t) \/ ReportError(t) PROVE Locks(t)
  BY <1>4, <1>16 DEF Finish, ReportError
<1>17. ASSUME NEW t \in Tasks, Remember(t) \/ DeliverBlock(t) PROVE UNCHANGED <<pc, holder>>
  BY <1>17 DEF Remember, DeliverBlock, lockVars
<1>18. ASSUME NEW s \in Sessions, Reset(s) PROVE UNCHANGED <<pc, holder>>
  BY <1>18 DEF Reset, lockVars
<1> QED
  BY <1>7, <1>8, <1>9, <1>10, <1>11, <1>12, <1>13, <1>14, <1>15, <1>16, <1>17, <1>18
     DEF Next, Step, Terminated, Taking, vars, lockVars

LEMMA HeldStep == TypeInv /\ LockInv /\ OrderInv /\ HeldInv /\ [Next]_vars => HeldInv'
<1> SUFFICES ASSUME TypeInv, LockInv, OrderInv, HeldInv, [Next]_vars PROVE HeldInv'
  OBVIOUS
<1>T. /\ holder \in [Sessions -> Tasks \cup {NoTask}] /\ NoTask \notin Tasks
      /\ \A t \in Tasks : SessionOf[t] \in Sessions
  BY TasksAssumption DEF TypeInv, TypeOK
<1>1. CASE UNCHANGED <<pc, holder>>
  BY <1>1 DEF HeldInv, InTurn
<1>2. ASSUME NEW t \in Tasks, Locks(t) PROVE HeldInv'
  <2> SUFFICES ASSUME NEW s \in Sessions, NEW u \in Tasks, holder'[s] = u
               PROVE  SessionOf[u] = s /\ InTurn(u)'
    BY DEF HeldInv
  <2>1. CASE holder[s] = u
    <3>1. SessionOf[u] = s /\ InTurn(u)
      BY <2>1 DEF HeldInv
    <3>2. CASE u = t
      BY <1>2, <1>T, <2>1, <3>1, <3>2 DEF Locks
    <3>3. CASE u # t
      BY <1>2, <3>1, <3>3 DEF Locks, InTurn
    <3> QED BY <3>1, <3>2, <3>3
  <2>2. CASE holder[s] # u
    BY <1>2, <1>T, <2>2 DEF Locks
  <2> QED BY <2>1, <2>2
<1> QED BY <1>1, <1>2, StepLocks

\* Who waits for the lock of a session waits for a turn of it that is under way, or
\* the first of its line is woken next.
NobodyIsStuck ==
  \A t \in Tasks : pc[t] = "waiting" =>
    LET s == SessionOf[t]
    IN  IF holder[s] = NoTask
        THEN waiters[s] # <<>> /\ pc[Head(waiters[s])] = "waiting"
        ELSE SessionOf[holder[s]] = s /\ InTurn(holder[s])

\* manager.py lock_for, server.py handle_inbound, run_agent_turn: whatever fails in a
\* turn, its lock is given back, and no waiter is left in a line nobody serves; for
\* any tasks, sessions, failures and resets.
THEOREM LocksAreGivenBack == Spec => []NobodyIsStuck
<1>1. Init => HeldInv
  BY TasksAssumption DEF Init, HeldInv
<1>2. TypeInv /\ OrderInv /\ HeldInv => NobodyIsStuck
  <2> SUFFICES ASSUME TypeInv, OrderInv, HeldInv, NEW t \in Tasks, pc[t] = "waiting"
               PROVE  IF holder[SessionOf[t]] = NoTask
                      THEN /\ waiters[SessionOf[t]] # <<>>
                           /\ pc[Head(waiters[SessionOf[t]])] = "waiting"
                      ELSE /\ SessionOf[holder[SessionOf[t]]] = SessionOf[t]
                           /\ InTurn(holder[SessionOf[t]])
    BY DEF NobodyIsStuck
  <2> DEFINE s == SessionOf[t]
             q == waiters[s]
  <2>1. s \in Sessions /\ q \in Seq(Tasks)
    BY TasksAssumption DEF TypeInv, TypeOK
  <2>2. Lined(q, taken, In("waiting", s)) /\ t \in In("waiting", s)
    BY <2>1 DEF OrderInv, LineOrder, In
  <2>3. q # <<>>
    <3>1. \E k \in 1..Len(q) : q[k] = t
      BY <2>2 DEF Lined
    <3> QED BY <3>1
  <2>4. Head(q) \in In("waiting", s)
    BY <2>1, <2>2, <2>3, LinedTail
  <2>5. holder[s] \in Tasks \cup {NoTask}
    BY <2>1 DEF TypeInv, TypeOK
  <2> QED BY <2>1, <2>3, <2>4, <2>5 DEF In, HeldInv
<1> QED BY <1>1, <1>2, OrderInit, TypeInit, TypeStep, LockStep, OrderStep, HeldStep, PTL DEF Spec
-----------------------------------------------------------------------------
(* A session is announced once.                                            *)

NotYet == {"idle", "spawned", "waiting"}

\* While nobody reset a session, who found it new is alone with that, and has put the
\* question in its history when the recall is over.
StartInv ==
  resets = 0 =>
    \A t \in Inbound :
      /\ "session.started" \in events[t] => fresh[t]
      /\ fresh[t] => pc[t] \notin NotYet
      /\ fresh[t] /\ pc[t] # "recalling" => history[SessionOf[t]] # <<>>
      /\ \A u \in Inbound : u # t /\ SessionOf[u] = SessionOf[t] /\ fresh[t] => ~fresh[u]

LEMMA PrunedNonempty ==
  ASSUME NEW h \in Seq(Message), h # <<>>
  PROVE  Pruned(h) # <<>>
<1>1. CASE Len(h) > MaxMessages
  <2>1. Len(SubSeq(h, Len(h) - MaxMessages + 1, Len(h))) = MaxMessages
    BY <1>1, SizesAssumption
  <2> QED BY <1>1, <2>1, SizesAssumption DEF Pruned
<1>2. CASE ~(Len(h) > MaxMessages)
  BY <1>2 DEF Pruned
<1> QED BY <1>1, <1>2

\* A step that takes no lock for a message and empties no history.
LEMMA StartMove ==
  ASSUME TypeInv, StartInv, NEW t \in Tasks, fresh' = fresh, resets' = resets,
         \E to : to \notin NotYet \cup {"recalling"} /\ pc' = [pc EXCEPT ![t] = to],
         \A s \in Sessions : history[s] # <<>> => history'[s] # <<>>,
         \A u \in Inbound : "session.started" \in events'[u] => "session.started" \in events[u] \/ fresh[u],
         t \in Inbound /\ pc[t] = "recalling" => history'[SessionOf[t]] # <<>>
  PROVE  StartInv'
<1> SUFFICES ASSUME resets = 0, NEW u \in Inbound
             PROVE  /\ "session.started" \in events'[u] => fresh[u]
                    /\ fresh[u] => pc'[u] \notin NotYet
                    /\ fresh[u] /\ pc'[u] # "recalling" => history'[SessionOf[u]] # <<>>
                    /\ \A v \in Inbound : v # u /\ SessionOf[v] = SessionOf[u] /\ fresh[u] => ~fresh[v]
  BY DEF StartInv
<1>1. /\ "session.started" \in events[u] => fresh[u]
      /\ fresh[u] => pc[u] \notin NotYet
      /\ fresh[u] /\ pc[u] # "recalling" => history[SessionOf[u]] # <<>>
      /\ \A v \in Inbound : v # u /\ SessionOf[v] = SessionOf[u] /\ fresh[u] => ~fresh[v]
  BY DEF StartInv
<1>2. PICK to : to \notin NotYet \cup {"recalling"} /\ pc' = [pc EXCEPT ![t] = to]
  OBVIOUS
<1>3. pc \in [Tasks -> Pc] /\ u \in Tasks /\ SessionOf[u] \in Sessions
  BY TasksAssumption DEF TypeInv, TypeOK, Tasks
<1>4. CASE u = t
  BY <1>1, <1>2, <1>3, <1>4
<1>5. CASE u # t
  BY <1>1, <1>2, <1>3, <1>5
<1> QED BY <1>4, <1>5

\* The steps of a message before its turn, and those of a delegation that ask nothing.
LEMMA StartBefore ==
  ASSUME TypeInv, StartInv, NEW t \in Tasks, UNCHANGED <<fresh, history, events, resets>>,
         \E to : pc' = [pc EXCEPT ![t] = to],
         t \in Inbound => pc[t] \in NotYet
  PROVE  StartInv'
<1>1. pc \in [Tasks -> Pc]
  BY DEF TypeInv, TypeOK
<1>2. \A u \in Inbound : u # t => pc'[u] = pc[u]
  BY <1>1 DEF Tasks
<1>3. resets = 0 /\ t \in Inbound => ~fresh[t]
  BY DEF StartInv
<1> QED BY <1>2, <1>3 DEF StartInv

LEMMA StartEnter ==
  ASSUME TypeInv, LockInv, StartInv, NEW t \in Inbound, pc[t] \in NotYet, EnterTurn(t),
         holder[SessionOf[t]] = NoTask, UNCHANGED <<history, events, resets>>
  PROVE  StartInv'
<1> SUFFICES ASSUME resets = 0 PROVE StartInv'
  BY DEF StartInv
<1>1. /\ pc \in [Tasks -> Pc] /\ fresh \in [Tasks -> BOOLEAN] /\ NoTask \notin Tasks
      /\ Inbound \subseteq Tasks /\ \A u \in Inbound : SessionOf[u] \in Sessions
      /\ \A s \in Sessions : history[s] \in Seq(Message)
      /\ pc' = [pc EXCEPT ![t] = "recalling"]
      /\ fresh' = [fresh EXCEPT ![t] = IsNewSession(SessionOf[t])]
  BY TasksAssumption DEF EnterTurn, TypeInv, TypeOK, Tasks
<1>2. /\ pc'[t] = "recalling" /\ fresh'[t] = IsNewSession(SessionOf[t])
      /\ \A u \in Inbound : u # t => pc'[u] = pc[u] /\ fresh'[u] = fresh[u]
  BY <1>1
<1>3. \A u \in Inbound :
        /\ "session.started" \in events[u] => fresh[u]
        /\ fresh[u] => pc[u] \notin NotYet
        /\ fresh[u] /\ pc[u] # "recalling" => history[SessionOf[u]] # <<>>
        /\ \A v \in Inbound : v # u /\ SessionOf[v] = SessionOf[u] /\ fresh[u] => ~fresh[v]
  BY DEF StartInv
<1>4. ASSUME NEW u \in Inbound, u # t, SessionOf[u] = SessionOf[t], IsNewSession(SessionOf[t])
      PROVE  ~fresh[u]
  <2>1. history[SessionOf[u]] = <<>>
    BY <1>1, <1>4 DEF IsNewSession
  <2>2. pc[u] # "recalling"
    BY <1>1, <1>4 DEF LockInv, InTurn
  <2> QED BY <1>3, <2>1, <2>2
<1>5. "session.started" \notin events[t]
  BY <1>3
<1>6. "recalling" \notin NotYet
  BY DEF NotYet
<1>7. ASSUME NEW u \in Inbound
      PROVE  /\ "session.started" \in events[u] => fresh'[u]
             /\ fresh'[u] => pc'[u] \notin NotYet
             /\ fresh'[u] /\ pc'[u] # "recalling" => history[SessionOf[u]] # <<>>
             /\ \A v \in Inbound : v # u /\ SessionOf[v] = SessionOf[u] /\ fresh'[u] => ~fresh'[v]
  <2>1. CASE u = t
    <3>1. ASSUME NEW v \in Inbound, v # u, SessionOf[v] = SessionOf[u], fresh'[u] PROVE ~fresh'[v]
      BY <2>1, <3>1, <1>2, <1>4
    <3> QED BY <2>1, <3>1, <1>2, <1>5, <1>6
  <2>2. CASE u # t
    <3>1. ASSUME NEW v \in Inbound, v # u, SessionOf[v] = SessionOf[u], fresh'[u] PROVE ~fresh'[v]
      <4>1. CASE v = t
        BY <2>2, <3>1, <4>1, <1>2, <1>4
      <4>2. CASE v # t
        BY <2>2, <3>1, <4>2, <1>2, <1>3
      <4> QED BY <4>1, <4>2
    <3> QED BY <2>2, <3>1, <1>2, <1>3
  <2> QED BY <2>1, <2>2
<1> QED BY <1>7 DEF StartInv

LEMMA StartQuestion ==
  ASSUME TypeInv, StartInv, NEW t \in Tasks, TakeQuestion(t), UNCHANGED <<fresh, resets>>
  PROVE  StartInv'
<1> DEFINE s == SessionOf[t]
           h == Append(history[s], Said(s, "user", t))
<1>1. /\ s \in Sessions /\ history[s] \in Seq(Message) /\ Said(s, "user", t) \in Message
      /\ history \in [Sessions -> Seq(Message)] /\ events \in [Tasks -> SUBSET Event]
  <2>1. s \in Sessions
    BY TasksAssumption
  <2>2. /\ history \in [Sessions -> Seq(Message)] /\ log \in [Sessions -> Seq(Entry)]
        /\ events \in [Tasks -> SUBSET Event]
    BY DEF TypeInv, TypeOK
  <2>3. Len(log[s]) + 1 \in Nat \ {0}
    BY <2>1, <2>2
  <2>4. Said(s, "user", t) \in Message
    BY <2>1, <2>3 DEF Said, Message
  <2> QED BY <2>1, <2>2, <2>4
<1>2. h \in Seq(Message) /\ h # <<>>
  BY <1>1
<1>3. history' = [history EXCEPT ![s] = h] \/ history' = [history EXCEPT ![s] = Pruned(h)]
  BY DEF TakeQuestion
<1>4. Pruned(h) # <<>>
  BY <1>2, PrunedNonempty
<1> HIDE DEF h
<1>5. history'[s] # <<>> /\ \A r \in Sessions : history[r] # <<>> => history'[r] # <<>>
  BY <1>1, <1>2, <1>3, <1>4
<1>6. \A u \in Inbound : "session.started" \in events'[u] => "session.started" \in events[u] \/ fresh[u]
  <2>1. events' = events \/ events' = [events EXCEPT ![t] = StartEvents(t)]
    BY DEF TakeQuestion
  <2> QED BY <1>1, <2>1 DEF StartEvents, Tasks
<1>7. \E to : to \notin NotYet \cup {"recalling"} /\ pc' = [pc EXCEPT ![t] = to]
  BY TakeQuestionMoves DEF NotYet
<1> QED BY <1>5, <1>6, <1>7, StartMove

LEMMA StartCompact ==
  ASSUME TypeInv, StartInv, NEW t \in Tasks, NEW ok \in BOOLEAN, Compact(t, ok)
  PROVE  StartInv'
<1> DEFINE s == SessionOf[t]
           h == Compacted(prompt[t], t, ok)
<1>1. /\ s \in Sessions /\ prompt[t] \in Seq(Message) /\ prompt[t] # <<>>
      /\ history \in [Sessions -> Seq(Message)] /\ events \in [Tasks -> SUBSET Event]
      /\ history' = [history EXCEPT ![s] = Pruned(h)]
      /\ pc' = [pc EXCEPT ![t] = "thinking"] /\ "thinking" \notin NotYet \cup {"recalling"}
      /\ events' = [events EXCEPT ![t] = StartEvents(t)]
      /\ UNCHANGED <<fresh, resets>>
  BY TasksAssumption DEF Compact, TypeInv, TypeOK, HasSnapshot, NotYet
<1>2. h \in Seq(Message)
  BY <1>1, CompactedType
<1>3. h # <<>>
  <2>1. RecentPart(prompt[t]) \in Seq(Message)
    BY <1>1, CutPointRange DEF RecentPart
  <2>2. Len(h) = Len(RecentPart(prompt[t])) + 1
    BY <2>1 DEF Compacted
  <2>3. Len(RecentPart(prompt[t])) \in Nat
    BY <2>1
  <2> HIDE DEF h
  <2> QED BY <1>2, <2>2, <2>3
<1>4. Pruned(h) # <<>>
  BY <1>2, <1>3, PrunedNonempty
<1> HIDE DEF h
<1>5. \A r \in Sessions : history[r] # <<>> => history'[r] # <<>>
  BY <1>1, <1>4
<1>6. history'[s] # <<>>
  BY <1>1, <1>4
<1>7. \A u \in Inbound : "session.started" \in events'[u] => "session.started" \in events[u] \/ fresh[u]
  BY <1>1 DEF StartEvents, Tasks
<1> QED BY <1>1, <1>5, <1>6, <1>7, StartMove

\* A step of a turn after its question: it adds to the history or leaves it alone.
LEMMA StartAfter ==
  ASSUME TypeInv, StartInv, NEW t \in Tasks, pc[t] \in {"thinking", "delivering", "reporting"},
         \/ UNCHANGED history
         \/ \E m \in Message : history' = [history EXCEPT ![SessionOf[t]] = Append(@, m)],
         \E to \in {"delivering", "reporting", "done"} : pc' = [pc EXCEPT ![t] = to],
         \/ UNCHANGED events
         \/ \E e \in {"turn.complete", "turn.error"} : events' = [events EXCEPT ![t] = @ \cup {e}],
         UNCHANGED <<fresh, resets>>
  PROVE  StartInv'
<1>1. /\ SessionOf[t] \in Sessions /\ history \in [Sessions -> Seq(Message)]
      /\ events \in [Tasks -> SUBSET Event]
  BY TasksAssumption DEF TypeInv, TypeOK
<1>2. \A r \in Sessions : history[r] # <<>> => history'[r] # <<>>
  <2>1. \A m \in Message : Append(history[SessionOf[t]], m) # <<>>
    BY <1>1
  <2> QED BY <1>1, <2>1
<1>3. \A u \in Inbound : "session.started" \in events'[u] => "session.started" \in events[u] \/ fresh[u]
  BY <1>1 DEF Tasks
<1>4. \E to : to \notin NotYet \cup {"recalling"} /\ pc' = [pc EXCEPT ![t] = to]
  BY DEF NotYet
<1>5. pc[t] # "recalling"
  OBVIOUS
<1> QED BY <1>2, <1>3, <1>4, <1>5, StartMove

LEMMA StartIdle ==
  ASSUME StartInv, UNCHANGED <<pc, fresh, history, events, resets>>
  PROVE  StartInv'
  BY DEF StartInv

LEMMA StartStep == TypeInv /\ LockInv /\ OrderInv /\ StartInv /\ [Next]_vars => StartInv'
<1> SUFFICES ASSUME TypeInv, LockInv, OrderInv, StartInv, [Next]_vars PROVE StartInv'
  OBVIOUS
<1>i. \A t \in Inner : t \notin Inbound
  BY TasksAssumption
<1>1. ASSUME NEW t \in Tasks, Receive(t) PROVE StartInv'
  BY <1>1, StartBefore DEF Receive, convVars, outVars, NotYet
<1>2. ASSUME NEW t \in Tasks, AskInner(t) PROVE StartInv'
  BY <1>2, <1>i, StartBefore DEF AskInner, convVars, outVars
<1>3. ASSUME NEW t \in Tasks, Taking(t) PROVE StartInv'
  <2>1. /\ t \in Inbound /\ pc[t] \in {"idle", "spawned"} /\ Approach(t)
        /\ UNCHANGED <<history, events, resets>>
    BY <1>3, TakingFrom DEF convVars, outVars
  <2>2. pc[t] \in NotYet
    BY <2>1 DEF NotYet
  <2>3. CASE LockFree(SessionOf[t]) /\ EnterTurn(t)
    BY <2>1, <2>2, <2>3, StartEnter DEF LockFree
  <2>4. CASE UNCHANGED fresh
    <3>1. \E to : pc' = [pc EXCEPT ![t] = to]
      BY <2>1, ApproachMoves
    <3> QED BY <2>1, <2>2, <2>4, <3>1, StartBefore
  <2> QED BY <2>1, <2>3, <2>4 DEF Approach
<1>4. ASSUME NEW t \in Tasks, Recall(t) PROVE StartInv'
  BY <1>4, StartQuestion DEF Recall
<1>5. ASSUME NEW t \in Tasks, RecallInner(t) PROVE StartInv'
  <2>1. CASE TakeQuestion(t)
    BY <1>5, <2>1, StartQuestion DEF RecallInner
  <2>2. CASE Queue(t) /\ UNCHANGED <<convVars, events>>
    BY <1>5, <1>i, <2>2, StartBefore DEF RecallInner, Queue, convVars
  <2> QED BY <1>5, <2>1, <2>2 DEF RecallInner
<1>6. ASSUME NEW t \in Tasks, Wake(t) PROVE StartInv'
  <2>1. CASE TakeQuestion(t) /\ UNCHANGED fresh
    BY <1>6, <2>1, StartQuestion DEF Wake
  <2>2. CASE t \in Inbound /\ EnterTurn(t) /\ UNCHANGED <<convVars, events>>
    BY <1>6, <2>2, StartEnter DEF Wake, convVars, NotYet
  <2> QED BY <1>6, <2>1, <2>2 DEF Wake
<1>7. ASSUME NEW t \in Tasks, NEW ok \in BOOLEAN, Compact(t, ok) PROVE StartInv'
  BY <1>7, StartCompact
<1>8. ASSUME NEW t \in Tasks, Remember(t) PROVE StartInv'
  BY <1>8, StartIdle DEF Remember, convVars, outVars
<1>9. ASSUME NEW t \in Tasks, NEW n \in 0..MaxBlocks, Answer(t, n) PROVE StartInv'
  <2>1. Said(SessionOf[t], "assistant", t) \in Message
    BY TasksAssumption DEF Said, Message, TypeInv, TypeOK
  <2>2. /\ pc[t] = "thinking" /\ UNCHANGED <<fresh, resets>>
        /\ history' = [history EXCEPT ![SessionOf[t]] = Append(@, Said(SessionOf[t], "assistant", t))]
        /\ \E to \in {"delivering", "done"} : pc' = [pc EXCEPT ![t] = to]
        /\ UNCHANGED events \/ events' = [events EXCEPT ![t] = @ \cup {"turn.complete"}]
    BY <1>9 DEF Answer
  <2> QED BY <2>1, <2>2, StartAfter
<1>10. ASSUME NEW t \in Tasks, Fail(t) PROVE StartInv'
  <2>1. /\ pc[t] = "thinking" /\ UNCHANGED <<fresh, resets, history>>
        /\ \E to \in {"reporting", "done"} : pc' = [pc EXCEPT ![t] = to]
        /\ UNCHANGED events \/ events' = [events EXCEPT ![t] = @ \cup {"turn.error"}]
    BY <1>10 DEF Fail, convVars
  <2> QED BY <2>1, StartAfter
<1>11. ASSUME NEW t \in Tasks, DeliverBlock(t) PROVE StartInv'
  BY <1>11, StartIdle DEF DeliverBlock, convVars
<1>12. ASSUME NEW t \in Tasks, DeliverFails(t) PROVE StartInv'
  BY <1>12, StartAfter DEF DeliverFails, convVars
<1>13. ASSUME NEW t \in Tasks, Finish(t) PROVE StartInv'
  BY <1>13, StartAfter DEF Finish, convVars, outVars
<1>14. ASSUME NEW t \in Tasks, ReportError(t) PROVE StartInv'
  BY <1>14, StartAfter DEF ReportError, convVars
<1>15. ASSUME NEW s \in Sessions, Reset(s) PROVE StartInv'
  BY <1>15 DEF Reset, StartInv, TypeInv, TypeOK
<1>16. CASE UNCHANGED vars
  BY <1>16, StartIdle DEF vars, convVars, outVars
<1> QED
  BY <1>1, <1>2, <1>3, <1>4, <1>5, <1>6, <1>7, <1>8, <1>9, <1>10, <1>11, <1>12, <1>13,
     <1>14, <1>15, <1>16 DEF Next, Step, Terminated, Taking

\* server.py _run_turn: is_new_session is read before the recall's awaits and used after
\* them, yet for any messages, delegations, compactions and prunings no session is
\* announced twice unless one was reset.
THEOREM SessionsStartOnce == Spec => []SessionStartsOnce
<1>1. Init => StartInv
  BY DEF Init, StartInv, Tasks
<1>2. TypeInv /\ StartInv => SessionStartsOnce
  <2> SUFFICES ASSUME TypeInv, StartInv, NEW t \in Inbound, NEW u \in Inbound, t # u,
                      SessionOf[t] = SessionOf[u],
                      "session.started" \in events[t], "session.started" \in events[u]
               PROVE  resets > 0
    BY DEF SessionStartsOnce
  <2>1. resets \in Nat
    BY DEF TypeInv, TypeOK
  <2>2. resets # 0
    BY DEF StartInv
  <2> QED BY <2>1, <2>2
<1> QED BY <1>1, <1>2, OrderInit, TypeInit, TypeStep, LockStep, OrderStep, StartStep, PTL DEF Spec
=============================================================================
