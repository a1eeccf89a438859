---------------------------- MODULE WebChatProofs ----------------------------
(***************************************************************************)
(* Proofs about WebChat: it is well typed, every question ends in one      *)
(* frame, the requests for the model are whole, and only a failure of the  *)
(* model cools a profile; for any sockets, profiles, tools and bounds.     *)
(***************************************************************************)
EXTENDS WebChat, FiniteSetTheorems, WellFoundedInduction, TLAPS

USE WebChatAssumption

InTurn == {"compacting", "calling", "streaming", "tools"}
Busy(s) == pc[s] \in InTurn \cup {"preparing"}

\* A turn in progress has a profile.
TurnsHaveProfiles == \A s \in Sockets : pc[s] \in InTurn => turn[s] \in Turn

Typed == TypeOK /\ TurnsHaveProfiles

-----------------------------------------------------------------------------
(* Types.                                                                  *)

LEMMA BestIsAvailable ==
  ASSUME NEW cool, Available(cool) # {}
  PROVE  Best(cool) \in Profiles \ cool
<1> DEFINE S == Available(cool)
           Below(p) == {o \in S : o < p}
<1>1. S \subseteq Nat /\ IsFiniteSet(S)
  BY FS_Subset DEF Available
<1>2. IsWellFoundedOn(StrictSubsetOrdering(S), SUBSET S)
  <2> HIDE DEF S
  <2> QED BY <1>1, FS_StrictSubsetOrderingWellFounded, FS_FiniteSubsetsOfFinite
<1>3. {Below(p) : p \in S} \subseteq SUBSET S /\ {Below(p) : p \in S} # {}
  OBVIOUS
<1>4. PICK A \in {Below(p) : p \in S} : \A B \in {Below(p) : p \in S} : ~(<<B, A>> \in StrictSubsetOrdering(S))
  <2> HIDE DEF Below, S
  <2> QED BY <1>2, <1>3, WFMin
<1>5. PICK p \in S : A = Below(p)
  OBVIOUS
<1>6. ASSUME NEW o \in S, o < p
      PROVE  FALSE
  <2>1. Below(o) \subseteq Below(p) /\ o \in Below(p) /\ o \notin Below(o)
    BY <1>1, <1>6
  <2>2. <<Below(o), A>> \in StrictSubsetOrdering(S)
    BY <1>5, <2>1 DEF StrictSubsetOrdering
  <2> QED BY <1>4, <2>2
<1>7. \A o \in S : p <= o
  BY <1>1, <1>6
<1> QED BY <1>7 DEF Best, Available

LEMMA NewCallType ==
  ASSUME NEW p \in Profiles, NEW c \in Nat
  PROVE  NewCall(p, c) \in Turn
BY DEF NewCall, Turn

LEMMA SendType ==
  ASSUME TypeOK, NEW s \in Sockets, NEW type \in {"chunk", "done", "error"}, Send(s, type)
  PROVE  outbox' \in [Sockets -> Seq(Sent)]
<1>1. [type |-> type, q |-> asked[s], call |-> turn[s].call] \in Sent
  BY DEF Sent, TypeOK, Turn, NoTurn, NewCall
<1> QED BY <1>1 DEF Send, TypeOK

\* What a question's end, or a turn's begin, leave.
LEMMA BeginType ==
  ASSUME TypeOK, NEW s \in Sockets, NEW cool, Begin(s, cool) \/ Fails(s)
  PROVE  /\ outbox' \in [Sockets -> Seq(Sent)]
         /\ pc' \in [Sockets -> Pc]
         /\ turn' \in [Sockets -> Turn \cup {NoTurn}]
         /\ \A u \in Sockets \ {s} : pc'[u] = pc[u] /\ turn'[u] = turn[u]
         /\ pc'[s] \in InTurn => turn'[s] \in Turn
<1>1. CASE Fails(s)
  BY <1>1, SendType DEF Fails, Report, TypeOK, Pc, InTurn
<1>2. CASE Begin(s, cool) /\ Available(cool) # {}
  <2>1. NewCall(Best(cool), 1) \in Turn
    BY <1>2, BestIsAvailable, NewCallType
  <2> QED BY <1>2, <2>1 DEF Begin, TypeOK, Pc
<1> QED BY <1>1, <1>2 DEF Begin

LEMMA TypedNext == Typed /\ [Next]_vars => Typed'
<1> SUFFICES ASSUME Typed, [Next]_vars
             PROVE  Typed'
  OBVIOUS
<1> USE DEF Typed
<1>1. ASSUME NEW s \in Sockets, Hangup(s) \/ Skip(s) \/ Reply(s) \/ Ask(s)
      PROVE  Typed'
  <2>1. inbox[s] # <<>> => Tail(inbox[s]) \in Seq(Frame)
    BY DEF TypeOK
  <2>3. ASSUME Hangup(s) \/ Skip(s) PROVE TypeOK'
    BY <2>1, <2>3 DEF Hangup, Skip, Taken, Forgotten, connVars, talkVars, TypeOK, Pc
  <2>4. ASSUME Reply(s) PROVE TypeOK'
    BY <2>1, <2>4 DEF Reply, Taken, Forgotten, TypeOK, Pc
  <2>5. ASSUME Ask(s) PROVE TypeOK'
    BY <2>1, <2>5 DEF Ask, Taken, connVars, TypeOK, Pc
  <2>6. TypeOK'
    BY <1>1, <2>3, <2>4, <2>5
  <2>2. TurnsHaveProfiles'
    BY <1>1 DEF Hangup, Skip, Reply, Ask, connVars, talkVars, TypeOK, TurnsHaveProfiles, InTurn
  <2> QED BY <2>2, <2>6
<1>2. ASSUME NEW s \in Sockets, Browser(s)
      PROVE  Typed'
  <2>3. ASSUME Upgrade(s) \/ Leave(s) PROVE TypeOK'
    BY <2>3 DEF Upgrade, Leave, talkVars, TypeOK, Pc
  <2>4. ASSUME NEW frame \in Frame, Write(s, frame)
        PROVE  TypeOK'
    BY <2>4 DEF Write, connVars, TypeOK
  <2>1. TypeOK'
    BY <1>2, <2>3, <2>4 DEF Browser
  <2>2. TurnsHaveProfiles'
    BY <1>2 DEF Browser, Upgrade, Write, Leave, connVars, talkVars, TypeOK, TurnsHaveProfiles, InTurn
  <2> QED BY <2>1, <2>2
<1>3. ASSUME NEW s \in Sockets, NEW cool, Begin(s, cool) \/ Fails(s),
             UNCHANGED <<connVars, talkVars, stored>>,
             cooldown' \in SUBSET Profiles
      PROVE  Typed'
  <2>1. TypeOK'
    BY <1>3, BeginType DEF connVars, talkVars, TypeOK
  <2>2. TurnsHaveProfiles'
    BY <1>3, BeginType DEF TurnsHaveProfiles
  <2> QED BY <2>1, <2>2
<1>4. ASSUME NEW s \in Sockets, Prepare(s) \/ PrepareFails(s)
      PROVE  Typed'
  <2>1. CASE Begin(s, cooldown) \/ Fails(s)
    BY <1>3, <1>4, <2>1 DEF Prepare, PrepareFails, TypeOK
  <2>2. CASE /\ Prepare(s) /\ Available(cooldown) # {}
             /\ pc' = [pc EXCEPT ![s] = "compacting"]
             /\ turn' = [turn EXCEPT ![s] = NewCall(Best(cooldown), 0)]
             /\ UNCHANGED outbox
    <3>1. NewCall(Best(cooldown), 0) \in Turn
      BY <2>2, BestIsAvailable, NewCallType
    <3>2. TypeOK'
      BY <2>2, <3>1 DEF Prepare, connVars, talkVars, TypeOK, Pc
    <3>3. TurnsHaveProfiles'
      BY <2>2, <3>1 DEF TypeOK, TurnsHaveProfiles
    <3> QED BY <3>2, <3>3
  <2> QED BY <1>4, <2>1, <2>2 DEF Prepare, PrepareFails
<1>5. ASSUME NEW s \in Sockets, pc[s] \in InTurn, NEW t \in Turn, turn' = [turn EXCEPT ![s] = t],
             NEW p \in Pc, pc' = [pc EXCEPT ![s] = p],
             outbox' \in [Sockets -> Seq(Sent)],
             UNCHANGED <<connVars, talkVars, cooldown, stored>>
      PROVE  Typed'
  BY <1>5 DEF connVars, talkVars, TypeOK, TurnsHaveProfiles
<1>6. ASSUME NEW s \in Sockets, AnswerAgain(s)
      PROVE  Typed'
  <2>1. turn[s] \in Turn
    BY <1>6 DEF AnswerAgain, TurnsHaveProfiles, InTurn
  <2> DEFINE t == NewCall(turn[s].profile, turn[s].call + 1)
  <2>2. t \in Turn
    <3>1. turn[s].profile \in Profiles /\ turn[s].call + 1 \in Nat
      BY <2>1 DEF Turn
    <3> QED BY <3>1, NewCallType
  <2>4. [t EXCEPT !.size = 0] = t
    BY DEF NewCall
  <2>5. turn' = [turn EXCEPT ![s] = [t EXCEPT !.size = 0]]
    BY <1>6 DEF AnswerAgain, SizeAtCall
  <2>3. turn' = [turn EXCEPT ![s] = t]
    BY <2>4, <2>5
  <2> HIDE DEF t
  <2> QED BY <1>5, <1>6, <2>2, <2>3 DEF AnswerAgain, InTurn, Pc, TypeOK
<1>7. ASSUME NEW s \in Sockets, Chunk(s)
      PROVE  Typed'
  <2>1. turn[s] \in Turn /\ pc' = [pc EXCEPT ![s] = "streaming"]
    BY <1>7 DEF Chunk, TurnsHaveProfiles, InTurn, TypeOK
  <2> DEFINE t == [turn[s] EXCEPT !.size = @ + 1]
  <2>4. turn[s].size + 1 \in Nat
    BY <2>1 DEF Turn
  <2>2. t \in Turn
    BY <2>1, <2>4 DEF Turn
  <2>3. turn' = [turn EXCEPT ![s] = t]
    BY <1>7, <2>1 DEF Chunk, TypeOK
  <2> HIDE DEF t
  <2> QED BY <1>5, <1>7, <2>1, <2>2, <2>3, SendType DEF Chunk, InTurn, Pc
<1>8. ASSUME NEW s \in Sockets, ModelFails(s)
      PROVE  Typed'
  <2>1. turn[s].profile \in Profiles
    BY <1>8 DEF ModelFails, TurnsHaveProfiles, InTurn, Turn
  <2> QED BY <1>3, <1>8, <2>1 DEF ModelFails, TypeOK
<1>9. ASSUME NEW s \in Sockets, Compacted(s)
      PROVE  Typed'
  BY <1>3, <1>9 DEF Compacted, Succeeds, Recovers, TypeOK
<1>10. ASSUME NEW s \in Sockets, AskTools(s)
      PROVE  Typed'
  <2>1. turn[s] \in Turn
    BY <1>10 DEF AskTools, TurnsHaveProfiles, InTurn
  <2>2. PICK n \in 1..MaxUses : \E uses \in [1..n -> Tools] : turn' = [turn EXCEPT ![s].uses = uses]
    BY <1>10 DEF AskTools
  <2>3. PICK uses \in [1..n -> Tools] : turn' = [turn EXCEPT ![s].uses = uses]
    BY <2>2
  <2> DEFINE t == [turn[s] EXCEPT !.uses = uses]
  <2>4. uses \in Seq(Tools)
    BY <2>2
  <2>5. t \in Turn
    BY <2>1, <2>4 DEF Turn
  <2>6. turn' = [turn EXCEPT ![s] = t]
    BY <2>1, <2>3 DEF TypeOK
  <2> HIDE DEF t
  <2> QED BY <1>5, <1>10, <2>5, <2>6 DEF AskTools, InTurn, Pc, TypeOK
<1>11. ASSUME NEW s \in Sockets, Use(s)
      PROVE  Typed'
  <2> DEFINE n == turn[s].used + 1
  <2>1. turn[s] \in Turn
    BY <1>11 DEF Use, TurnsHaveProfiles, InTurn
  <2>2. PICK text \in Outcomes(turn[s].uses[n]) :
          turn' = [turn EXCEPT ![s].used = n, ![s].results = AddResult(@, [use |-> n, text |-> text])]
    BY <1>11 DEF Use
  <2> DEFINE t == [turn[s] EXCEPT !.used = n, !.results = Append(@, [use |-> n, text |-> text])]
  <2>3. text \in {"value", "denied", "error"}
    BY <2>2 DEF Outcomes, Refusable, Known
  <2>4. n \in Nat /\ [use |-> n, text |-> text] \in Result
    BY <2>1, <2>3 DEF Turn, Result
  <2>5. t \in Turn
    <3>1. Append(turn[s].results, [use |-> n, text |-> text]) \in Seq(Result)
      BY <2>1, <2>4 DEF Turn
    <3> QED BY <2>1, <2>4, <3>1 DEF Turn
  <2>6. turn' = [turn EXCEPT ![s] = t]
    BY <2>1, <2>2 DEF TypeOK, AddResult
  <2>7. PICK p \in {"tools", "calling"} : pc' = [pc EXCEPT ![s] = p]
    BY <1>11 DEF Use
  <2> HIDE DEF t
  <2> QED BY <1>5, <1>11, <2>5, <2>6, <2>7 DEF Use, InTurn, Pc, TypeOK
<1>12. ASSUME NEW s \in Sockets, Finish(s)
      PROVE  Typed'
  <2>1. [q |-> asked[s], call |-> turn[s].call, size |-> turn[s].size] \in Answer
    BY DEF TypeOK, Answer, Turn, NoTurn, NewCall
  <2>5. outbox' \in [Sockets -> Seq(Sent)]
    BY <1>12, SendType DEF Finish
  <2>6. stored' \in [Sockets -> Seq(Answer)]
    BY <1>12, <2>1 DEF Finish, TypeOK
  <2>2. stored' \in [Sockets -> Seq(Answer)] /\ outbox' \in [Sockets -> Seq(Sent)]
    BY <2>5, <2>6
  <2>3. TypeOK'
    BY <1>12, <2>2 DEF Finish, Succeeds, Recovers, connVars, talkVars, TypeOK, Pc
  <2>4. TurnsHaveProfiles'
    BY <1>12 DEF Finish, TypeOK, TurnsHaveProfiles, InTurn
  <2> QED BY <2>3, <2>4
<1>13. ASSUME NEW p \in Profiles, Recover(p)
      PROVE  Typed'
  BY <1>13 DEF Recover, Recovers, connVars, talkVars, TypeOK, TurnsHaveProfiles
<1>14. CASE UNCHANGED vars
  BY <1>14 DEF vars, TypeOK, TurnsHaveProfiles
<1> QED
  BY <1>1, <1>2, <1>4, <1>6, <1>7, <1>8, <1>9, <1>10, <1>11, <1>12, <1>13, <1>14
     DEF Next, Handler, Terminated

-----------------------------------------------------------------------------
(* Frames.                                                                 *)

\* No question has been answered before its turn, the last one not before its
\* turn is over; and the property.
Framed(s) ==
  /\ \A i \in DOMAIN outbox[s] :
       /\ outbox[s][i].q <= asked[s]
       /\ Busy(s) /\ outbox[s][i].type \in End => outbox[s][i].q < asked[s]
  /\ \A i, j \in DOMAIN outbox[s] :
       i < j /\ outbox[s][i].type \in End => outbox[s][j].q > outbox[s][i].q
  /\ browser[s] = "there" =>
       \A q \in 1..asked[s] : q < asked[s] \/ pc[s] = "idle" =>
         \E i \in DOMAIN outbox[s] : outbox[s][i].q = q /\ outbox[s][i].type \in End
  /\ pc[s] = "off" => asked[s] = 0

\* The chunks of a question are those of the calls of its turn so far, and the
\* turn's size counts those of the last; and the property.
Counted(s) ==
  /\ Busy(s) => \A j \in DOMAIN outbox[s] :
       outbox[s][j].type = "chunk" /\ outbox[s][j].q = asked[s] =>
         pc[s] \in {"streaming", "calling", "tools"} /\ outbox[s][j].call <= turn[s].call
  /\ pc[s] = "streaming" /\ browser[s] = "there" =>
       Cardinality(Chunks(outbox[s], asked[s], turn[s].call)) = turn[s].size
  /\ \A i \in DOMAIN outbox[s] : outbox[s][i].type = "done" =>
       \E k \in DOMAIN stored[s] :
         /\ stored[s][k].q = outbox[s][i].q
         /\ stored[s][k].size = Cardinality(Chunks(outbox[s], stored[s][k].q, stored[s][k].call))

\* The results are those of the tools used so far.
Requested(s) ==
  LET t == turn[s] IN
  /\ pc[s] = "streaming" => t.used = 0 /\ t.results = <<>>
  /\ pc[s] \in {"tools", "calling"} =>
       /\ t \in Turn /\ Len(t.results) = t.used /\ t.used <= Len(t.uses)
       /\ pc[s] = "tools" => t.used < Len(t.uses)
       /\ pc[s] = "calling" => t.used = Len(t.uses)
       /\ \A n \in 1..Len(t.results) :
            t.results[n].use = n /\ (t.results[n].text = "value" => ~Blocked(t.uses[n]))

Sound(s) == Framed(s) /\ Counted(s) /\ Requested(s)

\* What a step does to a socket: nothing of this,
Same(s) ==
  /\ browser'[s] = browser[s] /\ pc'[s] = pc[s] /\ outbox'[s] = outbox[s]
  /\ asked'[s] = asked[s] /\ turn'[s] = turn[s] /\ stored'[s] = stored[s]
\* it sends no frame and takes no question,
Quiet(s) ==
  /\ browser'[s] = browser[s] \/ browser'[s] = "gone"
  /\ outbox'[s] = outbox[s] /\ asked'[s] = asked[s] /\ stored'[s] = stored[s]
  /\ \/ pc'[s] = pc[s]
     \/ Busy(s) /\ Busy(s)'
     \/ pc[s] = "idle" /\ pc'[s] = "closed"
     \/ pc[s] = "off" /\ pc'[s] = "idle"
\* or it sends one.
Sends(s, type) ==
  /\ browser'[s] = browser[s] /\ asked'[s] = asked[s]
  /\ Busy(s) /\ IF type \in End THEN pc'[s] = "idle" ELSE Busy(s)'
  /\ outbox'[s] = IF browser[s] # "there" THEN outbox[s]
                  ELSE Append(outbox[s], [type |-> type, q |-> asked[s], call |-> turn[s].call])

LEMMA SameIsSound ==
  ASSUME NEW s \in Sockets, Sound(s), Same(s)
  PROVE  Sound(s)'
<1>1. Framed(s)' /\ Requested(s)'
  BY DEF Sound, Same, Framed, Requested, Busy
<1>2. \A q, c : Chunks(outbox'[s], q, c) = Chunks(outbox[s], q, c)
  BY DEF Same, Chunks
<1>3. Counted(s)'
  BY <1>2 DEF Sound, Same, Counted, Busy
<1> QED BY <1>1, <1>3 DEF Sound

LEMMA OutboxTypes ==
  ASSUME Typed, NEW s \in Sockets
  PROVE  /\ asked[s] \in Nat /\ outbox[s] \in Seq(Sent) /\ stored[s] \in Seq(Answer)
         /\ Len(outbox[s]) \in Nat /\ DOMAIN outbox[s] = 1..Len(outbox[s])
         /\ \A i \in DOMAIN outbox[s] : outbox[s][i].q \in Nat /\ outbox[s][i].call \in Nat
<1>1. asked[s] \in Nat /\ outbox[s] \in Seq(Sent) /\ stored[s] \in Seq(Answer)
  BY DEF Typed, TypeOK
<1>2. \A i \in DOMAIN outbox[s] : outbox[s][i] \in Sent
  BY <1>1
<1>3. \A f \in Sent : f.q \in Nat /\ f.call \in Nat
  BY DEF Sent
<1> QED BY <1>1, <1>2, <1>3

LEMMA QuietFrames ==
  ASSUME Typed, NEW s \in Sockets, Framed(s), Quiet(s)
  PROVE  Framed(s)'
<1>1. asked[s] \in Nat
  BY DEF Typed, TypeOK
<1>2. /\ outbox'[s] = outbox[s] /\ asked'[s] = asked[s]
      /\ browser'[s] = "there" => browser[s] = "there"
      /\ Busy(s)' => Busy(s)
      /\ pc'[s] = "off" => pc[s] = "off"
      /\ pc'[s] = "idle" => pc[s] \in {"idle", "off"}
  BY DEF Quiet, Busy, InTurn
<1>3. \A q \in 1..asked[s] : pc[s] # "off"
  BY <1>1 DEF Framed
<1> QED BY <1>1, <1>2, <1>3 DEF Framed

LEMMA AskFrames ==
  ASSUME Typed, NEW s \in Sockets, Sound(s), Ask(s)
  PROVE  Sound(s)'
<1>1. /\ asked[s] \in Nat /\ asked'[s] = asked[s] + 1
      /\ pc[s] = "idle" /\ pc'[s] = "preparing"
      /\ browser'[s] = browser[s] /\ outbox'[s] = outbox[s] /\ stored'[s] = stored[s]
  BY DEF Typed, TypeOK, Ask, connVars
<1>2. \A i \in DOMAIN outbox[s] : outbox[s][i].q \in Nat
  BY OutboxTypes
<1>3. Framed(s)'
  <2>1. \A i \in DOMAIN outbox[s] : outbox[s][i].q < asked'[s]
    BY <1>1, <1>2 DEF Sound, Framed
  <2>2. browser[s] = "there" =>
          \A q \in 1..asked'[s] : q < asked'[s] =>
            \E i \in DOMAIN outbox[s] : outbox[s][i].q = q /\ outbox[s][i].type \in End
    BY <1>1 DEF Sound, Framed
  <2>3. \A i, j \in DOMAIN outbox[s] :
          i < j /\ outbox[s][i].type \in End => outbox[s][j].q > outbox[s][i].q
    BY DEF Sound, Framed
  <2>4. pc'[s] # "off" /\ pc'[s] # "idle"
    BY <1>1
  <2> QED BY <1>1, <1>2, <2>1, <2>2, <2>3, <2>4 DEF Framed
<1>4. \A q, c : Chunks(outbox'[s], q, c) = Chunks(outbox[s], q, c)
  BY <1>1 DEF Chunks
<1>5. \A i \in DOMAIN outbox[s] : outbox[s][i].q # asked'[s]
  BY <1>1, <1>2 DEF Sound, Framed
<1>6. Counted(s)'
  BY <1>1, <1>4, <1>5 DEF Sound, Counted
<1> QED BY <1>1, <1>3, <1>6 DEF Sound, Requested

LEMMA SendsFrames ==
  ASSUME Typed, NEW s \in Sockets, Framed(s), NEW type \in {"chunk", "done", "error"}, Sends(s, type)
  PROVE  Framed(s)'
<1> DEFINE f == [type |-> type, q |-> asked[s], call |-> turn[s].call]
<1>1. /\ asked[s] \in Nat /\ asked'[s] = asked[s] /\ browser'[s] = browser[s]
      /\ outbox[s] \in Seq(Sent) /\ Len(outbox[s]) \in Nat
      /\ \A i \in DOMAIN outbox[s] : outbox[s][i].q \in Nat
      /\ DOMAIN outbox[s] = 1..Len(outbox[s])
  BY OutboxTypes DEF Sends
<1>2. /\ Busy(s) /\ pc[s] # "idle" /\ pc'[s] # "off"
      /\ type \in End => pc'[s] = "idle" /\ ~Busy(s)'
      /\ type \notin End => Busy(s)' /\ pc'[s] # "idle"
  BY DEF Sends, Busy, InTurn
<1>3. CASE browser[s] # "there"
  <2>1. outbox'[s] = outbox[s]
    BY <1>3 DEF Sends
  <2> QED BY <1>1, <1>2, <1>3, <2>1 DEF Framed
<1>4. CASE browser[s] = "there"
  <2>1. outbox'[s] = Append(outbox[s], f) /\ f.q = asked[s] /\ f.type = type
    BY <1>4 DEF Sends
  <2> HIDE DEF f
  <2>2. /\ DOMAIN outbox'[s] = 1..(Len(outbox[s]) + 1)
        /\ \A i \in 1..Len(outbox[s]) : outbox'[s][i] = outbox[s][i]
        /\ outbox'[s][Len(outbox[s]) + 1] = f
    BY <1>1, <2>1
  <2>3. ASSUME NEW i \in DOMAIN outbox'[s]
        PROVE  /\ outbox'[s][i].q <= asked[s]
               /\ Busy(s)' /\ outbox'[s][i].type \in End => outbox'[s][i].q < asked[s]
    BY <1>1, <1>2, <2>1, <2>2, <2>3 DEF Framed
  <2>4. ASSUME NEW i \in DOMAIN outbox'[s], NEW j \in DOMAIN outbox'[s], i < j, outbox'[s][i].type \in End
        PROVE  outbox'[s][j].q > outbox'[s][i].q
    BY <1>1, <1>2, <2>1, <2>2, <2>4 DEF Framed
  <2>5. ASSUME NEW q \in 1..asked[s], q < asked[s] \/ pc'[s] = "idle"
        PROVE  \E i \in DOMAIN outbox'[s] : outbox'[s][i].q = q /\ outbox'[s][i].type \in End
    <3>1. CASE q < asked[s]
      <4>1. PICK i \in DOMAIN outbox[s] : outbox[s][i].q = q /\ outbox[s][i].type \in End
        BY <1>4, <3>1 DEF Framed
      <4> QED BY <1>1, <2>2, <4>1
    <3>2. CASE q = asked[s]
      <4>1. Len(outbox[s]) + 1 \in DOMAIN outbox'[s] /\ type \in End
        BY <1>1, <1>2, <2>2, <2>5, <3>2
      <4> QED BY <2>1, <2>2, <3>2, <4>1
    <3> QED BY <1>1, <3>1, <3>2
  <2> QED BY <1>1, <1>2, <2>3, <2>4, <2>5 DEF Framed
<1> QED BY <1>3, <1>4

\* A frame that is sent is the only new one.
LEMMA ChunksOfSend ==
  ASSUME Typed, NEW s \in Sockets, NEW type \in {"chunk", "done", "error"}, Sends(s, type),
         NEW q, NEW c
  PROVE  /\ IsFiniteSet(Chunks(outbox[s], q, c)) /\ Cardinality(Chunks(outbox[s], q, c)) \in Nat
         /\ browser[s] = "there" /\ type = "chunk" /\ q = asked[s] /\ c = turn[s].call =>
              Cardinality(Chunks(outbox'[s], q, c)) = Cardinality(Chunks(outbox[s], q, c)) + 1
         /\ ~(browser[s] = "there" /\ type = "chunk" /\ q = asked[s] /\ c = turn[s].call) =>
              Chunks(outbox'[s], q, c) = Chunks(outbox[s], q, c)
<1> DEFINE f == [type |-> type, q |-> asked[s], call |-> turn[s].call]
           n == Len(outbox[s])
<1>1. outbox[s] \in Seq(Sent) /\ n \in Nat /\ DOMAIN outbox[s] = 1..n
  BY OutboxTypes
<1>2. IsFiniteSet(Chunks(outbox[s], q, c)) /\ Cardinality(Chunks(outbox[s], q, c)) \in Nat
  <2>1. IsFiniteSet(1..n) /\ Chunks(outbox[s], q, c) \subseteq 1..n
    BY <1>1, FS_Interval DEF Chunks
  <2> QED BY <2>1, FS_Subset, FS_CardinalityType
<1>3. CASE browser[s] # "there"
  BY <1>2, <1>3 DEF Sends, Chunks
<1>4. CASE browser[s] = "there"
  <2>1. outbox'[s] = Append(outbox[s], f) /\ f.q = asked[s] /\ f.type = type /\ f.call = turn[s].call
    BY <1>4 DEF Sends
  <2> HIDE DEF f
  <2>2. /\ DOMAIN outbox'[s] = 1..(n + 1)
        /\ \A i \in 1..n : outbox'[s][i] = outbox[s][i]
        /\ outbox'[s][n + 1] = f
    BY <1>1, <2>1
  <2> DEFINE match == type = "chunk" /\ q = asked[s] /\ c = turn[s].call
  <2>3. CASE match
    <3>1. Chunks(outbox'[s], q, c) = Chunks(outbox[s], q, c) \cup {n + 1} /\ n + 1 \notin Chunks(outbox[s], q, c)
      BY <1>1, <2>1, <2>2, <2>3 DEF Chunks
    <3>2. Cardinality(Chunks(outbox[s], q, c) \cup {n + 1}) = Cardinality(Chunks(outbox[s], q, c)) + 1
      BY <1>2, <3>1, FS_AddElement
    <3>3. Cardinality(Chunks(outbox'[s], q, c)) = Cardinality(Chunks(outbox[s], q, c)) + 1
      BY <3>1, <3>2
    <3> QED BY <1>2, <1>4, <2>3, <3>3
  <2>4. CASE ~match
    <3>1. Chunks(outbox'[s], q, c) = Chunks(outbox[s], q, c)
      BY <1>1, <2>1, <2>2, <2>4 DEF Chunks
    <3> QED BY <1>2, <2>4, <3>1
  <2> QED BY <2>3, <2>4
<1> QED BY <1>3, <1>4

\* The frames that said "done" before still have their answers.
Kept(s) ==
  \A i \in DOMAIN outbox[s] : outbox[s][i].type = "done" =>
    \E k \in DOMAIN stored[s] :
      /\ stored'[s][k] = stored[s][k] /\ k \in DOMAIN stored'[s]
      /\ stored[s][k].q = outbox[s][i].q
      /\ stored[s][k].size = Cardinality(Chunks(outbox'[s], stored[s][k].q, stored[s][k].call))

LEMMA SendKeeps ==
  ASSUME Typed, NEW s \in Sockets, Sound(s), NEW type \in {"chunk", "done", "error"}, Sends(s, type),
         \A k \in DOMAIN stored[s] : stored'[s][k] = stored[s][k] /\ k \in DOMAIN stored'[s]
  PROVE  Kept(s)
<1> SUFFICES ASSUME NEW i \in DOMAIN outbox[s], outbox[s][i].type = "done"
             PROVE  \E k \in DOMAIN stored[s] :
                      /\ stored'[s][k] = stored[s][k] /\ k \in DOMAIN stored'[s]
                      /\ stored[s][k].q = outbox[s][i].q
                      /\ stored[s][k].size = Cardinality(Chunks(outbox'[s], stored[s][k].q, stored[s][k].call))
  BY DEF Kept
<1>1. PICK k \in DOMAIN stored[s] :
        /\ stored[s][k].q = outbox[s][i].q
        /\ stored[s][k].size = Cardinality(Chunks(outbox[s], stored[s][k].q, stored[s][k].call))
  BY DEF Sound, Counted
<1>2. outbox[s][i].q < asked[s] /\ outbox[s][i].q \in Nat /\ asked[s] \in Nat
  BY OutboxTypes DEF Sends, Sound, Framed, End
<1>3. Chunks(outbox'[s], stored[s][k].q, stored[s][k].call) = Chunks(outbox[s], stored[s][k].q, stored[s][k].call)
  BY <1>1, <1>2, ChunksOfSend
<1> QED BY <1>1, <1>3

LEMMA ErrorIsSound ==
  ASSUME Typed, NEW s \in Sockets, Sound(s), Busy(s), Fails(s), UNCHANGED <<connVars, talkVars, stored>>
  PROVE  Sound(s)'
<1>1. Sends(s, "error") /\ pc'[s] = "idle" /\ stored' = stored
  BY DEF Typed, TypeOK, Fails, Report, Send, Sends, End, connVars, talkVars
<1>2. Framed(s)'
  BY <1>1, SendsFrames DEF Sound
<1>3. Kept(s)
  BY <1>1, SendKeeps
<1>4. Counted(s)'
  <2>1. \A i \in DOMAIN outbox'[s] : outbox'[s][i].type = "done" =>
          i \in DOMAIN outbox[s] /\ outbox'[s][i] = outbox[s][i]
    BY <1>1, OutboxTypes DEF Sends
  <2>2. ~Busy(s)' /\ pc'[s] # "streaming"
    BY <1>1 DEF Busy, InTurn
  <2>3. ASSUME NEW i \in DOMAIN outbox'[s], outbox'[s][i].type = "done"
        PROVE  \E k \in DOMAIN stored'[s] :
                 /\ stored'[s][k].q = outbox'[s][i].q
                 /\ stored'[s][k].size = Cardinality(Chunks(outbox'[s], stored'[s][k].q, stored'[s][k].call))
    <3>1. PICK k \in DOMAIN stored[s] :
            /\ stored'[s][k] = stored[s][k] /\ k \in DOMAIN stored'[s]
            /\ stored[s][k].q = outbox[s][i].q
            /\ stored[s][k].size = Cardinality(Chunks(outbox'[s], stored[s][k].q, stored[s][k].call))
      BY <1>3, <2>1, <2>3 DEF Kept
    <3> QED BY <1>1, <2>1, <2>3, <3>1
  <2> QED BY <2>2, <2>3 DEF Counted
<1> QED BY <1>1, <1>2, <1>4 DEF Sound, Requested

LEMMA ChunkIsSound ==
  ASSUME Typed, NEW s \in Sockets, Sound(s), Chunk(s)
  PROVE  Sound(s)'
<1>1. /\ Sends(s, "chunk") /\ pc[s] = "streaming" /\ pc'[s] = "streaming" /\ stored' = stored
      /\ asked'[s] = asked[s] /\ browser'[s] = browser[s]
  BY DEF Typed, TypeOK, Chunk, Send, Sends, End, Busy, InTurn, connVars, talkVars
<1>2. /\ turn[s] \in Turn /\ turn'[s].call = turn[s].call /\ turn'[s].size = turn[s].size + 1
      /\ turn'[s].used = turn[s].used /\ turn'[s].results = turn[s].results
  <2>1. turn[s] \in Turn
    BY <1>1 DEF Typed, TurnsHaveProfiles, InTurn
  <2>2. turn'[s] = [turn[s] EXCEPT !.size = @ + 1]
    BY DEF Chunk, Typed, TypeOK
  <2> QED BY <2>1, <2>2 DEF Turn
<1>3. Framed(s)'
  BY <1>1, SendsFrames DEF Sound
<1>4. Kept(s)
  BY <1>1, SendKeeps
<1>5. turn[s].size \in Nat /\ turn[s].call \in Nat
  BY <1>2 DEF Turn
<1>6. /\ \A i \in DOMAIN outbox'[s] :
           \/ i \in DOMAIN outbox[s] /\ outbox'[s][i] = outbox[s][i]
           \/ outbox'[s][i] = [type |-> "chunk", q |-> asked[s], call |-> turn[s].call]
  BY <1>1, OutboxTypes DEF Sends
<1>7. browser[s] = "there" =>
        Cardinality(Chunks(outbox'[s], asked[s], turn[s].call)) = turn[s].size + 1
  <2> SUFFICES ASSUME browser[s] = "there"
               PROVE  Cardinality(Chunks(outbox'[s], asked[s], turn[s].call)) = turn[s].size + 1
    OBVIOUS
  <2>1. Cardinality(Chunks(outbox[s], asked[s], turn[s].call)) = turn[s].size
    BY <1>1 DEF Sound, Counted
  <2>2. Cardinality(Chunks(outbox'[s], asked[s], turn[s].call)) =
          Cardinality(Chunks(outbox[s], asked[s], turn[s].call)) + 1
    BY <1>1, ChunksOfSend
  <2> QED BY <2>1, <2>2
<1>8. Counted(s)'
  <2>1. ASSUME NEW j \in DOMAIN outbox'[s], outbox'[s][j].type = "chunk", outbox'[s][j].q = asked[s]
        PROVE  outbox'[s][j].call <= turn'[s].call
    BY <1>1, <1>2, <1>5, <1>6, <2>1 DEF Sound, Counted, Busy, InTurn
  <2>2. ASSUME NEW i \in DOMAIN outbox'[s], outbox'[s][i].type = "done"
        PROVE  \E k \in DOMAIN stored'[s] :
                 /\ stored'[s][k].q = outbox'[s][i].q
                 /\ stored'[s][k].size = Cardinality(Chunks(outbox'[s], stored'[s][k].q, stored'[s][k].call))
    <3>0. i \in DOMAIN outbox[s] /\ outbox'[s][i] = outbox[s][i]
      BY <1>6, <2>2
    <3>1. PICK k \in DOMAIN stored[s] :
            /\ stored'[s][k] = stored[s][k] /\ k \in DOMAIN stored'[s]
            /\ stored[s][k].q = outbox[s][i].q
            /\ stored[s][k].size = Cardinality(Chunks(outbox'[s], stored[s][k].q, stored[s][k].call))
      BY <1>4, <2>2, <3>0 DEF Kept
    <3> QED BY <1>1, <3>0, <3>1
  <2> QED BY <1>1, <1>2, <1>7, <2>1, <2>2 DEF Counted
<1> QED BY <1>1, <1>2, <1>3, <1>8 DEF Sound, Requested

LEMMA FinishIsSound ==
  ASSUME Typed, NEW s \in Sockets, Sound(s), Finish(s)
  PROVE  Sound(s)'
<1> DEFINE a == [q |-> asked[s], call |-> turn[s].call, size |-> turn[s].size]
           n == Len(stored[s])
<1>1. /\ Sends(s, "done") /\ pc[s] = "streaming" /\ pc'[s] = "idle"
      /\ asked'[s] = asked[s] /\ browser'[s] = browser[s]
  BY DEF Typed, TypeOK, Finish, Send, Sends, End, Busy, InTurn, connVars, talkVars
<1>2. stored[s] \in Seq(Answer) /\ stored'[s] = Append(stored[s], a)
  BY DEF Typed, TypeOK, Finish
<1>3. a.q = asked[s] /\ a.call = turn[s].call /\ a.size = turn[s].size
  OBVIOUS
<1> HIDE DEF a
<1>4. /\ n \in Nat /\ DOMAIN stored[s] = 1..n /\ DOMAIN stored'[s] = 1..(n + 1)
      /\ \A k \in 1..n : stored'[s][k] = stored[s][k]
      /\ stored'[s][n + 1] = a
  BY <1>2
<1>5. Framed(s)'
  BY <1>1, SendsFrames DEF Sound
<1>6. Kept(s)
  BY <1>1, <1>4, SendKeeps
<1>7. \A i \in DOMAIN outbox'[s] :
        \/ i \in DOMAIN outbox[s] /\ outbox'[s][i] = outbox[s][i]
        \/ outbox'[s][i].q = asked[s] /\ browser[s] = "there"
  BY <1>1, OutboxTypes DEF Sends
<1>8. browser[s] = "there" =>
        Cardinality(Chunks(outbox'[s], asked[s], turn[s].call)) = turn[s].size
  BY <1>1, ChunksOfSend DEF Sound, Counted
<1>9. Counted(s)'
  <2>1. ~Busy(s)' /\ pc'[s] # "streaming"
    BY <1>1 DEF Busy, InTurn
  <2>2. ASSUME NEW i \in DOMAIN outbox'[s], outbox'[s][i].type = "done"
        PROVE  \E k \in DOMAIN stored'[s] :
                 /\ stored'[s][k].q = outbox'[s][i].q
                 /\ stored'[s][k].size = Cardinality(Chunks(outbox'[s], stored'[s][k].q, stored'[s][k].call))
    <3>1. CASE i \in DOMAIN outbox[s] /\ outbox'[s][i] = outbox[s][i]
      <4>1. PICK k \in DOMAIN stored[s] :
              /\ stored'[s][k] = stored[s][k] /\ k \in DOMAIN stored'[s]
              /\ stored[s][k].q = outbox[s][i].q
              /\ stored[s][k].size = Cardinality(Chunks(outbox'[s], stored[s][k].q, stored[s][k].call))
        BY <1>6, <2>2, <3>1 DEF Kept
      <4> QED BY <3>1, <4>1
    <3>2. CASE outbox'[s][i].q = asked[s] /\ browser[s] = "there"
      <4>1. n + 1 \in DOMAIN stored'[s]
        BY <1>4
      <4> QED BY <1>3, <1>4, <1>8, <3>2, <4>1
    <3> QED BY <1>7, <3>1, <3>2
  <2> QED BY <2>1, <2>2 DEF Counted
<1> QED BY <1>1, <1>5, <1>9 DEF Sound, Requested

LEMMA QuietIsSound ==
  ASSUME Typed, NEW s \in Sockets, Sound(s), Quiet(s), Requested(s)',
         Busy(s)' => \A j \in DOMAIN outbox[s] :
           outbox[s][j].type = "chunk" /\ outbox[s][j].q = asked[s] =>
             pc'[s] \in {"streaming", "calling", "tools"} /\ outbox[s][j].call <= turn'[s].call,
         pc'[s] = "streaming" /\ browser'[s] = "there" =>
           Cardinality(Chunks(outbox[s], asked[s], turn'[s].call)) = turn'[s].size
  PROVE  Sound(s)'
<1>1. Framed(s)'
  BY QuietFrames DEF Sound
<1>2. outbox'[s] = outbox[s] /\ asked'[s] = asked[s] /\ stored'[s] = stored[s]
  BY DEF Quiet
<1>3. Counted(s)'
  BY <1>2 DEF Sound, Counted
<1> QED BY <1>1, <1>3 DEF Sound

LEMMA BeginIsSound ==
  ASSUME Typed, NEW s \in Sockets, Sound(s), pc[s] \in {"preparing", "compacting"},
         NEW cool, Begin(s, cool), UNCHANGED <<connVars, talkVars, stored>>
  PROVE  Sound(s)'
<1>1. CASE Available(cool) = {}
  BY <1>1, ErrorIsSound DEF Begin, Busy, InTurn
<1>2. CASE Available(cool) # {}
  <2>1. /\ pc'[s] = "streaming" /\ turn'[s].call = 1 /\ turn'[s].size = 0
        /\ turn'[s].used = 0 /\ turn'[s].results = <<>>
        /\ browser' = browser /\ asked' = asked /\ outbox' = outbox /\ stored' = stored
    BY <1>2 DEF Begin, NewCall, Typed, TypeOK, connVars, talkVars
  <2>2. \A j \in DOMAIN outbox[s] : ~(outbox[s][j].type = "chunk" /\ outbox[s][j].q = asked[s])
    BY DEF Sound, Counted, Busy, InTurn
  <2>3. Chunks(outbox[s], asked[s], turn'[s].call) = {}
    BY <2>2 DEF Chunks
  <2>4. Quiet(s)
    BY <2>1 DEF Quiet, Busy, InTurn
  <2>5. Requested(s)'
    BY <2>1 DEF Requested
  <2> QED BY <2>1, <2>2, <2>3, <2>4, <2>5, QuietIsSound, FS_EmptySet
<1> QED BY <1>1, <1>2

\* Between a question and its answer: the tools.
LEMMA AskToolsIsSound ==
  ASSUME Typed, NEW s \in Sockets, Sound(s), AskTools(s)
  PROVE  Sound(s)'
<1>0. PICK n \in 1..MaxUses : \E uses \in [1..n -> Tools] : turn' = [turn EXCEPT ![s].uses = uses]
  BY DEF AskTools
<1>1. PICK uses \in [1..n -> Tools] : turn' = [turn EXCEPT ![s].uses = uses]
  BY <1>0
<1>2. turn[s] \in Turn /\ pc[s] = "streaming"
  BY DEF AskTools, Typed, TurnsHaveProfiles, InTurn
<1>3. turn'[s] = [turn[s] EXCEPT !.uses = uses]
  BY <1>1 DEF Typed, TypeOK
<1>4. /\ turn'[s].call = turn[s].call /\ turn'[s].used = turn[s].used /\ turn'[s].uses = uses
      /\ turn'[s].results = turn[s].results
  BY <1>2, <1>3 DEF Turn
<1>5. Len(uses) = n /\ n > 0 /\ uses \in Seq(Tools)
  BY <1>1
<1>6. turn'[s] \in Turn
  BY <1>2, <1>3, <1>5 DEF Turn
<1>7. /\ pc'[s] = "tools" /\ browser' = browser /\ asked' = asked /\ outbox' = outbox /\ stored' = stored
  BY DEF AskTools, connVars, talkVars, Typed, TypeOK
<1>8. Requested(s)'
  BY <1>2, <1>4, <1>5, <1>6, <1>7 DEF Sound, Requested
<1>9. Quiet(s)
  BY <1>2, <1>7 DEF Quiet, Busy, InTurn
<1> QED BY <1>2, <1>4, <1>7, <1>8, <1>9, QuietIsSound DEF Sound, Counted, Busy, InTurn

LEMMA UseIsSound ==
  ASSUME Typed, NEW s \in Sockets, Sound(s), Use(s)
  PROVE  Sound(s)'
<1> DEFINE t == turn[s]
           n == t.used + 1
<1>1. PICK text \in Outcomes(t.uses[n]) :
        turn' = [turn EXCEPT ![s].used = n, ![s].results = AddResult(@, [use |-> n, text |-> text])]
  BY DEF Use
<1>2. /\ pc[s] = "tools" /\ t \in Turn /\ Len(t.results) = t.used /\ t.used < Len(t.uses)
      /\ \A k \in 1..Len(t.results) :
           t.results[k].use = k /\ (t.results[k].text = "value" => ~Blocked(t.uses[k]))
  BY DEF Use, Sound, Requested
<1> DEFINE r == [use |-> n, text |-> text]
<1>3. turn'[s] = [t EXCEPT !.used = n, !.results = Append(@, r)]
  BY <1>1 DEF Typed, TypeOK, AddResult
<1>4. /\ turn'[s].call = t.call /\ turn'[s].used = n /\ turn'[s].uses = t.uses
      /\ turn'[s].results = Append(t.results, r)
  BY <1>2, <1>3 DEF Turn
<1>5. text \in {"value", "denied", "error"} /\ (text = "value" => ~Blocked(t.uses[n]))
  BY <1>1 DEF Outcomes, Refusable, Known
<1>6. r \in Result /\ t.results \in Seq(Result) /\ t.used \in Nat /\ Len(t.uses) \in Nat
  BY <1>2, <1>5 DEF Turn, Result
<1>9. r.use = n /\ r.text = text
  OBVIOUS
<1> HIDE DEF r
<1>7. turn'[s] \in Turn
  <2>1. Append(t.results, r) \in Seq(Result) /\ n \in Nat
    BY <1>6
  <2> QED BY <1>2, <1>3, <2>1 DEF Turn
<1>8. /\ Len(turn'[s].results) = n
      /\ \A k \in 1..t.used : turn'[s].results[k] = t.results[k]
      /\ turn'[s].results[n] = r
  BY <1>2, <1>4, <1>6
<1>10. /\ pc'[s] = IF n < Len(t.uses) THEN "tools" ELSE "calling"
       /\ browser' = browser /\ asked' = asked /\ outbox' = outbox /\ stored' = stored
  BY DEF Use, connVars, talkVars, Typed, TypeOK
<1>13. \A k \in 1..n : turn'[s].results[k].use = k
                        /\ (turn'[s].results[k].text = "value" => ~Blocked(t.uses[k]))
  <2> SUFFICES ASSUME NEW k \in 1..n
               PROVE  turn'[s].results[k].use = k
                      /\ (turn'[s].results[k].text = "value" => ~Blocked(t.uses[k]))
    OBVIOUS
  <2>1. CASE k = n
    BY <1>5, <1>8, <1>9, <2>1
  <2>2. CASE k \in 1..t.used
    BY <1>2, <1>8, <2>2
  <2> QED BY <1>6, <2>1, <2>2
<1>14. pc'[s] \in {"tools", "calling"}
  BY <1>10
<1>11. Requested(s)'
  <2>1. /\ Len(turn'[s].results) = turn'[s].used /\ turn'[s].used <= Len(turn'[s].uses)
        /\ pc'[s] = "tools" => turn'[s].used < Len(turn'[s].uses)
        /\ pc'[s] = "calling" => turn'[s].used = Len(turn'[s].uses)
    BY <1>2, <1>4, <1>6, <1>8, <1>10
  <2>2. \A k \in 1..Len(turn'[s].results) :
          turn'[s].results[k].use = k
          /\ (turn'[s].results[k].text = "value" => ~Blocked(turn'[s].uses[k]))
    BY <1>4, <1>8, <1>13
  <2> QED BY <1>7, <1>14, <2>1, <2>2 DEF Requested, Blocked
<1>12. Quiet(s)
  BY <1>2, <1>10 DEF Quiet, Busy, InTurn
<1> QED BY <1>2, <1>4, <1>10, <1>11, <1>12, <1>14, QuietIsSound DEF Sound, Counted, Busy, InTurn

LEMMA AnswerAgainIsSound ==
  ASSUME Typed, NEW s \in Sockets, Sound(s), AnswerAgain(s)
  PROVE  Sound(s)'
<1>1. /\ pc[s] = "calling" /\ pc'[s] = "streaming" /\ turn[s] \in Turn
      /\ browser' = browser /\ asked' = asked /\ outbox' = outbox /\ stored' = stored
  BY DEF AnswerAgain, connVars, talkVars, Typed, TypeOK, TurnsHaveProfiles, InTurn
<1>2. /\ turn'[s].call = turn[s].call + 1 /\ turn'[s].size = 0
      /\ turn'[s].used = 0 /\ turn'[s].results = <<>>
  BY DEF AnswerAgain, SizeAtCall, NewCall, Typed, TypeOK
<1>3. turn[s].call \in Nat
  BY <1>1 DEF Turn
<1>4. \A j \in DOMAIN outbox[s] :
        outbox[s][j].type = "chunk" /\ outbox[s][j].q = asked[s] =>
          outbox[s][j].call <= turn[s].call /\ outbox[s][j].call \in Nat
  BY <1>1, OutboxTypes DEF Sound, Counted, Busy, InTurn
<1>5. Chunks(outbox[s], asked[s], turn'[s].call) = {}
  BY <1>2, <1>3, <1>4 DEF Chunks
<1>6. Quiet(s) /\ Requested(s)'
  BY <1>1, <1>2 DEF Quiet, Busy, InTurn, Requested
<1>7. Cardinality(Chunks(outbox[s], asked[s], turn'[s].call)) = turn'[s].size
  BY <1>2, <1>5, FS_EmptySet
<1>8. \A j \in DOMAIN outbox[s] :
        outbox[s][j].type = "chunk" /\ outbox[s][j].q = asked[s] =>
          outbox[s][j].call <= turn'[s].call
  BY <1>2, <1>3, <1>4
<1> QED BY <1>1, <1>6, <1>7, <1>8, QuietIsSound

LEMMA HandlerIsSound ==
  ASSUME Typed, NEW s \in Sockets, Sound(s), Handler(s)
  PROVE  Sound(s)'
<1>1. CASE Hangup(s) \/ Skip(s) \/ Reply(s)
  <2>1. /\ pc[s] = "idle" /\ pc'[s] \in {"idle", "closed"} /\ browser' = browser
        /\ asked' = asked /\ outbox' = outbox /\ stored' = stored /\ turn' = turn
    BY <1>1 DEF Hangup, Skip, Reply, connVars, talkVars, Typed, TypeOK
  <2>2. Quiet(s)
    BY <2>1 DEF Quiet, Busy, InTurn
  <2>3. ~Busy(s)' /\ pc'[s] # "streaming" /\ pc'[s] \notin {"tools", "calling"}
    BY <2>1 DEF Busy, InTurn
  <2>4. Requested(s)'
    BY <2>3 DEF Requested
  <2> QED BY <2>2, <2>3, <2>4, QuietIsSound
<1>2. CASE Prepare(s) \/ PrepareFails(s)
  <2>1. CASE Begin(s, cooldown) \/ Fails(s)
    BY <1>2, <2>1, BeginIsSound, ErrorIsSound DEF Prepare, PrepareFails, Busy
  <2>2. CASE /\ Prepare(s)
             /\ pc' = [pc EXCEPT ![s] = "compacting"]
             /\ UNCHANGED outbox
    <3>1. /\ pc[s] = "preparing" /\ pc'[s] = "compacting" /\ browser' = browser
          /\ asked' = asked /\ outbox' = outbox /\ stored' = stored
      BY <2>2 DEF Prepare, connVars, talkVars, Typed, TypeOK
    <3>2. Quiet(s) /\ Requested(s)'
      BY <3>1 DEF Quiet, Requested, Busy, InTurn
    <3>3. \A j \in DOMAIN outbox[s] : ~(outbox[s][j].type = "chunk" /\ outbox[s][j].q = asked[s])
      BY <3>1 DEF Sound, Counted, Busy, InTurn
    <3> QED BY <3>1, <3>2, <3>3, QuietIsSound
  <2> QED BY <1>2, <2>1, <2>2 DEF Prepare, PrepareFails
<1>3. CASE ModelFails(s)
  <2>1. CASE pc[s] = "compacting"
    <3>1. Begin(s, cooldown') /\ UNCHANGED <<connVars, talkVars, stored>>
      BY <1>3, <2>1 DEF ModelFails
    <3>2. PICK cool : cool = cooldown'
      OBVIOUS
    <3>3. Begin(s, cool)
      BY <3>1, <3>2 DEF Begin
    <3> QED BY <2>1, <3>1, <3>3, BeginIsSound
  <2>2. CASE pc[s] # "compacting"
    BY <1>3, <2>2, ErrorIsSound DEF ModelFails, Busy, InTurn
  <2> QED BY <2>1, <2>2
<1>4. CASE Compacted(s)
  <2>1. PICK cool : Begin(s, cool)
    BY <1>4 DEF Compacted
  <2> QED BY <1>4, <2>1, BeginIsSound DEF Compacted
<1> QED
  BY <1>1, <1>2, <1>3, <1>4, AskFrames, AnswerAgainIsSound, ChunkIsSound, AskToolsIsSound,
     UseIsSound, FinishIsSound DEF Handler

\* What the other sockets' handlers leave.
LEMMA OthersStaySame ==
  ASSUME Typed, NEW s \in Sockets, Handler(s) \/ Browser(s), NEW u \in Sockets, u # s
  PROVE  Same(u)
<1> USE DEF Typed, TypeOK, Same, connVars, talkVars
<1>1. CASE Hangup(s) \/ Skip(s) \/ Reply(s) \/ Ask(s)
  BY <1>1 DEF Hangup, Skip, Reply, Ask
<1>2. CASE Browser(s)
  BY <1>2 DEF Browser, Upgrade, Write, Leave
<1>3. ASSUME NEW cool, Begin(s, cool) \/ Fails(s), UNCHANGED <<connVars, talkVars, stored>>
      PROVE  Same(u)
  BY <1>3 DEF Begin, Fails, Report, Send
<1>4. CASE Prepare(s) \/ PrepareFails(s)
  BY <1>3, <1>4 DEF Prepare, PrepareFails
<1>5. CASE ModelFails(s) \/ Compacted(s)
  BY <1>3, <1>5 DEF ModelFails, Compacted
<1>6. CASE AnswerAgain(s) \/ AskTools(s) \/ Use(s)
  BY <1>6 DEF AnswerAgain, AskTools, Use
<1>7. CASE Chunk(s) \/ Finish(s)
  BY <1>7 DEF Chunk, Finish, Send
<1> QED BY <1>1, <1>2, <1>4, <1>5, <1>6, <1>7 DEF Handler

LEMMA BrowserIsSound ==
  ASSUME Typed, NEW s \in Sockets, Sound(s), Browser(s)
  PROVE  Sound(s)'
<1>1. /\ asked' = asked /\ outbox' = outbox /\ stored' = stored /\ turn' = turn
  BY DEF Browser, Upgrade, Write, Leave, connVars, talkVars
<1>2. CASE Upgrade(s)
  <2>1. pc[s] = "off" /\ pc'[s] = "idle" /\ asked[s] = 0 /\ browser'[s] = "there"
    BY <1>2 DEF Upgrade, Typed, TypeOK, Sound, Framed
  <2>2. Framed(s)' /\ Counted(s)' /\ Requested(s)'
    BY <1>1, <2>1 DEF Sound, Framed, Counted, Requested, Busy, InTurn
  <2> QED BY <2>2 DEF Sound
<1>3. CASE Leave(s) \/ \E frame \in Frame : Write(s, frame)
  <2>1. pc' = pc /\ browser'[s] \in {browser[s], "gone"}
    BY <1>3 DEF Leave, Write, connVars, Typed, TypeOK
  <2>2. Quiet(s) /\ (Busy(s)' => Busy(s))
    BY <1>1, <2>1 DEF Quiet, Busy, InTurn
  <2>3. Requested(s)'
    BY <1>1, <2>1 DEF Sound, Requested, Blocked
  <2> QED BY <1>1, <2>1, <2>2, <2>3, QuietIsSound DEF Sound, Counted
<1> QED BY <1>2, <1>3 DEF Browser

AllSound == \A s \in Sockets : Sound(s)

LEMMA SoundNext == Typed /\ AllSound /\ [Next]_vars => AllSound'
<1> SUFFICES ASSUME Typed, AllSound, [Next]_vars, NEW u \in Sockets
             PROVE  Sound(u)'
  BY DEF AllSound
<1>0. Sound(u)
  BY DEF AllSound
<1>1. ASSUME NEW s \in Sockets, Handler(s) \/ Browser(s)
      PROVE  Sound(u)'
  <2>1. CASE u = s
    BY <1>0, <1>1, <2>1, HandlerIsSound, BrowserIsSound
  <2>2. CASE u # s
    BY <1>0, <1>1, <2>2, OthersStaySame, SameIsSound
  <2> QED BY <2>1, <2>2
<1>2. ASSUME NEW p \in Profiles, Recover(p)
      PROVE  Sound(u)'
  BY <1>0, <1>2, SameIsSound DEF Recover, Same, connVars, talkVars
<1>3. CASE UNCHANGED vars
  BY <1>0, <1>3, SameIsSound DEF vars, Same
<1> QED BY <1>1, <1>2, <1>3 DEF Next, Terminated

-----------------------------------------------------------------------------
(* The theorems.                                                           *)

THEOREM Invariance == Spec => [](Typed /\ AllSound)
<1>1. Init => Typed /\ AllSound
  <2> SUFFICES ASSUME Init
               PROVE  Typed /\ AllSound
    OBVIOUS
  <2>1. Typed
    BY DEF Init, Typed, TypeOK, Pc, TurnsHaveProfiles, InTurn
  <2>2. ASSUME NEW s \in Sockets
        PROVE  Sound(s)
    BY DEF Init, Sound, Framed, Counted, Requested, Busy, InTurn
  <2> QED BY <2>1, <2>2 DEF AllSound
<1>2. Typed /\ AllSound /\ [Next]_vars => (Typed /\ AllSound)'
  BY TypedNext, SoundNext
<1> QED BY <1>1, <1>2, PTL DEF Spec

\* What the state is made of; a turn on its way has a profile to use.
THEOREM TypeCorrect == Spec => []TypeOK
BY Invariance, PTL DEF Typed

\* However sockets, models and tools interleave and fail and browsers leave,
\* _run_turn and handle_ws_connection end a question once.
THEOREM QuestionsEndOnce == Spec => []OneEndPerQuestion
<1>1. AllSound => OneEndPerQuestion
  BY DEF AllSound, Sound, Framed, OneEndPerQuestion
<1> QED BY <1>1, Invariance, PTL

\* A browser that got "done" has got as many chunks of the last call of the model
\* as are in the answer that was appended to the session.
THEOREM StoredIsWhatWasStreamed == Spec => []StreamedIsStored
<1>1. AllSound => StreamedIsStored
  <2> SUFFICES ASSUME AllSound, NEW s \in Sockets, NEW i \in DOMAIN outbox[s], outbox[s][i].type = "done"
               PROVE  \E k \in DOMAIN stored[s] :
                        /\ stored[s][k].q = outbox[s][i].q
                        /\ stored[s][k].size =
                             Cardinality(Chunks(outbox[s], stored[s][k].q, stored[s][k].call))
    BY DEF StreamedIsStored
  <2> QED BY DEF AllSound, Sound, Counted
<1> QED BY <1>1, Invariance, PTL

\* The loop of ConversationalTurn.run never calls the model with a result missing
\* or out of order, nor with one of a tool the agent may not use.
THEOREM WholeRequests == Spec => []RequestsAreWhole
<1>1. Typed /\ AllSound => RequestsAreWhole
  <2> SUFFICES ASSUME Typed, AllSound, NEW s \in Sockets, pc[s] = "calling"
               PROVE  /\ Len(turn[s].results) = Len(turn[s].uses)
                      /\ \A n \in DOMAIN turn[s].results :
                           /\ turn[s].results[n].use = n
                           /\ turn[s].results[n].text = "value" => ~Blocked(turn[s].uses[n])
    BY DEF RequestsAreWhole
  <2>1. turn[s].results \in Seq(Result)
    BY DEF Typed, TurnsHaveProfiles, InTurn, Turn
  <2> QED BY <2>1 DEF AllSound, Sound, Requested
<1> QED BY <1>1, Invariance, PTL
=============================================================================
