---------------------------- MODULE SharingProofs ----------------------------
(***************************************************************************)
(* Proofs about Sharing: it is well typed, no access goes beyond what was  *)
(* granted, and two documents have one name only if their creations        *)
(* overlapped; for any agents, names, calls and changes of permission.     *)
(***************************************************************************)
EXTENDS Sharing, TLAPS

\* Ids name one call or one row, and never the row of a call still running.
Numbered ==
  /\ \A c \in calls : c.n <= begun
  /\ \A c, k \in calls : c.n = k.n => c = k
  /\ \A row \in docs \cup tasks : row.id <= begun /\ \A c \in calls : c.n # row.id
  /\ \A d, e \in docs : d.id = e.id => d = e
  /\ \A t, u \in tasks : t.id = u.id => t = u

\* The steps a call passes through.
Stepped ==
  \A c \in calls :
    /\ c.via = "route" => c.step # "check"
    /\ ById(c.op) => c.step \notin {"ensure", "select"}
    /\ c.step = "find" => ById(c.op)

\* A call by id has a row, and once it was asked for, of the call's workspace.
Located ==
  \A c \in calls : ById(c.op) =>
    /\ \E row \in Rows(c.op) : row.id = c.obj
    /\ c.via = "tool" \/ c.step = "act" =>
         \A row \in Rows(c.op) : row.id = c.obj => row.ws = c.ws

\* The row a creation has found is there, and is of the name it looked for.
Found ==
  \A c \in calls : \A i \in c.seen :
    \E d \in docs : d.id = i /\ d.ws = c.ws

\* The history of a tool's call knows the permission, and no call gets beyond
\* its check without having been entitled.
Granted ==
  \A c \in calls : c.via = "tool" =>
    /\ Allows(perms[<<c.ws, c.caller>>], c.op) => c.granted
    /\ c.caller # c.ws /\ c.step \in {"ensure", "select", "act"} => c.granted

\* A creation that is about to insert is a rival of what has its name.
Rivalled ==
  \A c \in calls : \A d \in docs :
    /\ c.op = "create_document" /\ c.step = "act" /\ c.seen = {}
    /\ d.ws = c.ws /\ d.name = c.name
    => c.n \in d.rivals

IInv ==
  /\ TypeOK /\ Numbered /\ Stepped /\ Located /\ Found /\ Granted /\ Rivalled
  /\ AccessIsGranted /\ TwinsOverlapped

USE BoundsAssumption
-----------------------------------------------------------------------------
LEMMA InitIInv == Init => IInv
BY DEF Init, IInv, TypeOK, Numbered, Stepped, Located, Found, Granted, Rivalled,
       AccessIsGranted, TwinsOverlapped, Ids

\* A new call is like no other, and the table has nothing of it yet.
LEMMA BeginKeeps ==
  ASSUME IInv, begun < MaxCalls, NEW c \in Call, Begin(c), c.n = begun + 1, c.seen = {},
         c.via = "route" => c.step # "check",
         c.step = "find" => ById(c.op),
         ById(c.op) => /\ c.step = "find"
                       /\ \E row \in Rows(c.op) : row.id = c.obj
                       /\ c.via = "tool" => \A row \in Rows(c.op) : row.id = c.obj => row.ws = c.ws,
         c.via = "tool" => /\ Allows(perms[<<c.ws, c.caller>>], c.op) = c.granted
                           /\ c.caller = c.ws \/ c.step \in {"find", "check"},
         c.op = "create_document" => c.step # "act"
  PROVE  IInv'
<1>1. /\ calls' = calls \cup {c} /\ begun' = begun + 1 /\ begun' \in 0..MaxCalls
      /\ UNCHANGED <<existing, docs, tasks, perms, shares, trespass>>
  BY DEF Begin, rowVars, IInv, TypeOK
<1>2. TypeOK'
  BY <1>1 DEF IInv, TypeOK
<1>3. Numbered'
  BY <1>1 DEF IInv, Numbered, TypeOK, Call, Doc, Task, Ids
<1>4. Stepped' /\ Found' /\ AccessIsGranted' /\ TwinsOverlapped'
  BY <1>1 DEF IInv, Stepped, Found, AccessIsGranted, TwinsOverlapped, ById
<1>5. Located'
  BY <1>1 DEF IInv, Located, Rows, ById
<1>6. Granted' /\ Rivalled'
  BY <1>1 DEF IInv, Granted, Rivalled, Allows, Writes
<1> QED BY <1>2, <1>3, <1>4, <1>5, <1>6 DEF IInv

\* A call goes on from step to step, having seen a row or none.
LEMMA StepKeeps ==
  ASSUME IInv, NEW c \in calls, NEW k \in Call,
         k = [c EXCEPT !.step = k.step, !.seen = k.seen],
         calls' = (calls \ {c}) \cup {k},
         UNCHANGED <<docs, tasks, perms, begun, shares, trespass>>, existing' \in SUBSET Agents,
         k.via = "route" => k.step # "check", k.step # "find",
         ById(k.op) => k.step \in {"find", "check", "act"},
         ById(k.op) /\ (k.via = "tool" \/ k.step = "act") =>
           \A row \in Rows(k.op) : row.id = k.obj => row.ws = k.ws,
         \A i \in k.seen : \E d \in docs : d.id = i /\ d.ws = k.ws,
         k.via = "tool" /\ k.caller # k.ws /\ k.step \in {"ensure", "select", "act"} => k.granted,
         k.op = "create_document" /\ k.step = "act" /\ k.seen = {} => Namesakes(k) = {}
  PROVE  IInv'
<1>0. /\ c \in Call
      /\ k.n = c.n /\ k.op = c.op /\ k.via = c.via /\ k.caller = c.caller /\ k.ws = c.ws
      /\ k.name = c.name /\ k.obj = c.obj /\ k.granted = c.granted
  BY DEF IInv, TypeOK, Call
<1>2. TypeOK'
  BY DEF IInv, TypeOK
<1>3. Numbered'
  BY <1>0 DEF IInv, Numbered
<1>4. Stepped' /\ Found' /\ AccessIsGranted' /\ TwinsOverlapped'
  BY <1>0 DEF IInv, Stepped, Found, AccessIsGranted, TwinsOverlapped, ById
<1>5. Located'
  BY <1>0 DEF IInv, Located, Rows, ById
<1>6. Granted' /\ Rivalled'
  BY <1>0 DEF IInv, Granted, Rivalled, Allows, Writes, Namesakes
<1> QED BY <1>2, <1>3, <1>4, <1>5, <1>6 DEF IInv

\* A call that gets as far as its act may touch its workspace.
LEMMA ActsEntitled ==
  ASSUME IInv, NEW c \in calls, c.step = "act"
  PROVE  Entitled(c, c.ws)
BY DEF IInv, TypeOK, Call, Granted, Entitled

\* A call ends without a change of the rows.
LEMMA EndKeeps ==
  ASSUME IInv, NEW c \in calls, End(c), UNCHANGED <<rowVars, perms, begun, shares, trespass>>
  PROVE  IInv'
<1>1. calls' = calls \ {c} /\ UNCHANGED <<existing, docs, tasks, perms, begun, shares, trespass>>
  BY DEF End, rowVars
<1>2. TypeOK' /\ Numbered' /\ Stepped' /\ Found' /\ AccessIsGranted' /\ TwinsOverlapped'
  BY <1>1 DEF IInv, TypeOK, Numbered, Stepped, Found, AccessIsGranted, TwinsOverlapped
<1>3. Located' /\ Granted' /\ Rivalled'
  BY <1>1 DEF IInv, Located, Granted, Rivalled, Rows
<1> QED BY <1>2, <1>3 DEF IInv

-----------------------------------------------------------------------------
LEMMA BeginsKeep ==
  ASSUME IInv, begun < MaxCalls,
         NEW op \in Op, NEW via \in {"tool", "route"}, NEW agent \in Agents, NEW ws \in Agents,
         NEW named \in Agents \cup {Nobody}
  PROVE  /\ \A name \in Names : BeginInWorkspace(op, via, agent, named, ws, name) => IInv'
         /\ \A row \in Rows(op) : BeginById(op, via, agent, named, ws, row) => IInv'
<1> DEFINE caller == ActsAs(agent, named)
<1>0. caller \in Agents
  BY DEF ActsAs
<1>1. ASSUME NEW name \in Names, BeginInWorkspace(op, via, agent, named, ws, name)
      PROVE  IInv'
  <2> DEFINE c == [n |-> begun + 1, op |-> op, via |-> via, caller |-> caller, ws |-> ws, name |-> name,
                   obj |-> begun + 1, seen |-> {}, granted |-> Allows(perms[<<ws, caller>>], op),
                   step |-> IF via = "tool" /\ ws # caller THEN "check"
                            ELSE IF Writes(op) THEN "ensure" ELSE "act"]
  <2>1. Begin(c) /\ ~ById(op)
    BY <1>1 DEF BeginInWorkspace
  <2>2. begun + 1 \in Ids
    BY <2>1 DEF Begin, IInv, TypeOK, Ids
  <2> HIDE DEF caller
  <2>3. Allows(perms[<<ws, caller>>], op) \in BOOLEAN
    BY DEF Allows, Writes
  <2>4. c \in Call
    BY <1>0, <2>2, <2>3 DEF Call
  <2>5. c.op = "create_document" => c.step # "act"
    BY DEF Writes
  <2>6. c.n = begun + 1 /\ c.seen = {} /\ (c.via = "route" => c.step # "check") /\ ~ById(c.op)
        /\ c.step # "find"
    BY <2>1
  <2>7. c.via = "tool" => Allows(perms[<<c.ws, c.caller>>], c.op) = c.granted
                          /\ (c.caller = c.ws \/ c.step \in {"find", "check"})
    OBVIOUS
  <2> HIDE DEF c
  <2> QED BY <2>1, <2>4, <2>5, <2>6, <2>7, BeginKeeps
<1>2. ASSUME NEW row \in Rows(op), BeginById(op, via, agent, named, ws, row)
      PROVE  IInv'
  <2>1. PICK name \in Names :
          Begin([n |-> begun + 1, op |-> op, via |-> via, caller |-> caller, ws |-> ws, name |-> name,
                 obj |-> row.id, seen |-> {}, granted |-> Allows(perms[<<row.ws, caller>>], op),
                 step |-> "find"])
    BY <1>2 DEF BeginById
  <2> DEFINE c == [n |-> begun + 1, op |-> op, via |-> via, caller |-> caller, ws |-> ws, name |-> name,
                   obj |-> row.id, seen |-> {}, granted |-> Allows(perms[<<row.ws, caller>>], op),
                   step |-> "find"]
  <2>2. begun + 1 \in Ids /\ row.id \in Ids
    BY <2>1 DEF Begin, IInv, TypeOK, Ids, Rows, Doc, Task
  <2> HIDE DEF caller
  <2>3. Allows(perms[<<row.ws, caller>>], op) \in BOOLEAN
    BY DEF Allows, Writes
  <2>4. c \in Call
    BY <1>0, <2>2, <2>3 DEF Call
  <2>5. \A r \in Rows(op) : r.id = row.id => r = row
    BY DEF Rows, IInv, Numbered
  <2>6. via = "tool" => ws = row.ws
    BY <1>2 DEF BeginById
  <2>7. /\ c.n = begun + 1 /\ c.seen = {} /\ c.step = "find" /\ ById(c.op) /\ (c.via = "route" => c.step # "check")
        /\ \E r \in Rows(c.op) : r.id = c.obj
        /\ c.via = "tool" => \A r \in Rows(c.op) : r.id = c.obj => r.ws = c.ws
    BY <1>2, <2>5, <2>6 DEF BeginById
  <2>8. c.via = "tool" => Allows(perms[<<c.ws, c.caller>>], c.op) = c.granted
    BY <2>6
  <2>9. Begin(c)
    BY <2>1
  <2>10. c.op = "create_document" => c.step # "act"
    OBVIOUS
  <2> HIDE DEF c
  <2> QED BY <2>4, <2>7, <2>8, <2>9, <2>10, BeginKeeps
<1> QED BY <1>1, <1>2

LEMMA AsksKeep ==
  ASSUME IInv, NEW c \in calls, Find(c) \/ Check(c) \/ Ensure(c) \/ Select(c)
  PROVE  IInv'
<1>0. /\ c \in Call /\ (ById(c.op) => c.step \notin {"ensure", "select"})
      /\ c.step = "find" => ById(c.op)
      /\ c.via = "route" => c.step # "check"
      /\ \A i \in c.seen : \E d \in docs : d.id = i /\ d.ws = c.ws
  BY DEF IInv, TypeOK, Stepped, Found
<1>1. CASE Find(c)
  <2>1. PICK row \in Rows(c.op) :
          /\ row.id = c.obj
          /\ IF ~Finds(c, row) THEN End(c)
             ELSE calls' = Next1(c, IF c.via = "tool" /\ row.ws # c.caller THEN "check" ELSE "act")
    BY <1>1 DEF Find
  <2>2. CASE ~Finds(c, row)
    BY <1>1, <2>1, <2>2, EndKeeps DEF Find
  <2>3. CASE Finds(c, row)
    <3> DEFINE s == IF c.via = "tool" /\ row.ws # c.caller THEN "check" ELSE "act"
    <3> DEFINE k == [c EXCEPT !.step = s]
    <3>1. calls' = (calls \ {c}) \cup {k} /\ k \in Call /\ k = [c EXCEPT !.step = k.step, !.seen = k.seen]
      BY <1>0, <2>1, <2>3 DEF Next1, Call
    <3>2. ById(c.op) /\ c.op # "create_document"
      BY <1>0, <1>1 DEF Find, ById
    <3>3. k.op = c.op /\ k.via = c.via /\ k.obj = c.obj /\ k.ws = c.ws /\ k.caller = c.caller
          /\ k.seen = c.seen /\ k.step = s
      BY <1>0 DEF Call
    <3>4. /\ \A r \in Rows(c.op) : r.id = c.obj => r = row
          /\ c.via = "tool" => row.ws = c.ws
      BY <2>1, <3>2 DEF Rows, IInv, Numbered, Located
    <3>5. ById(k.op) /\ (k.via = "tool" \/ k.step = "act") =>
            \A r \in Rows(k.op) : r.id = k.obj => r.ws = k.ws
      BY <1>0, <2>3, <3>3, <3>4 DEF Finds, Call
    <3>6. k.via = "tool" /\ k.caller # k.ws /\ k.step \in {"ensure", "select", "act"} => k.granted
      BY <3>3, <3>4
    <3>7. UNCHANGED <<docs, tasks, perms, begun, shares, trespass>> /\ existing' \in SUBSET Agents
      BY <1>1 DEF Find, rowVars, IInv, TypeOK
    <3>8. (k.via = "route" => k.step # "check") /\ k.step # "find" /\ k.step \in {"find", "check", "act"}
      BY <3>3
    <3>9. \A i \in k.seen : \E d \in docs : d.id = i /\ d.ws = k.ws
      BY <1>0, <3>3
    <3> HIDE DEF k
    <3> QED BY <3>1, <3>2, <3>3, <3>5, <3>6, <3>7, <3>8, <3>9, StepKeeps
  <2> QED BY <2>2, <2>3
<1>2. CASE Check(c)
  <2>1. CASE ~May(c.caller, c.ws, c.op)
    BY <1>2, <2>1, EndKeeps DEF Check
  <2>2. CASE May(c.caller, c.ws, c.op)
    <3> DEFINE s == IF Writes(c.op) /\ ~ById(c.op) THEN "ensure" ELSE "act"
    <3> DEFINE k == [c EXCEPT !.step = s]
    <3>1. calls' = (calls \ {c}) \cup {k} /\ k \in Call /\ k = [c EXCEPT !.step = k.step, !.seen = k.seen]
      BY <1>0, <1>2, <2>2 DEF Check, Next1, Call
    <3>2. k.op = c.op /\ k.via = c.via /\ k.obj = c.obj /\ k.ws = c.ws /\ k.caller = c.caller
          /\ k.seen = c.seen /\ k.step = s /\ k.granted = c.granted
      BY <1>0 DEF Call
    <3>3. c.via = "tool"
      BY <1>0, <1>2 DEF Check, Call
    <3>4. c.caller # c.ws => c.granted
      BY <1>0, <2>2, <3>3 DEF May, Allows, IInv, Granted
    <3>5. ById(c.op) => \A r \in Rows(c.op) : r.id = c.obj => r.ws = c.ws
      BY <3>3 DEF IInv, Located
    <3>6. UNCHANGED <<docs, tasks, perms, begun, shares, trespass>> /\ existing' \in SUBSET Agents
      BY <1>2 DEF Check, rowVars, IInv, TypeOK
    <3>7. /\ (k.via = "route" => k.step # "check") /\ k.step # "find"
          /\ ById(k.op) => k.step \in {"find", "check", "act"}
          /\ k.op = "create_document" => k.step # "act"
      BY <3>2 DEF ById, Writes
    <3>8. \A i \in k.seen : \E d \in docs : d.id = i /\ d.ws = k.ws
      BY <1>0, <3>2
    <3>9. /\ ById(k.op) => \A r \in Rows(k.op) : r.id = k.obj => r.ws = k.ws
          /\ k.via = "tool" /\ k.caller # k.ws => k.granted
      BY <3>2, <3>4, <3>5
    <3> HIDE DEF k
    <3> QED BY <3>1, <3>6, <3>7, <3>8, <3>9, StepKeeps
  <2> QED BY <2>1, <2>2
<1>3. CASE Ensure(c)
  <2> DEFINE s == IF c.op = "create_document" THEN "select" ELSE "act"
  <2> DEFINE k == [c EXCEPT !.step = s]
  <2>1. calls' = (calls \ {c}) \cup {k} /\ k \in Call /\ k = [c EXCEPT !.step = k.step, !.seen = k.seen]
    BY <1>0, <1>3 DEF Ensure, Next1, Call
  <2>2. k.op = c.op /\ k.via = c.via /\ k.obj = c.obj /\ k.ws = c.ws /\ k.caller = c.caller
        /\ k.seen = c.seen /\ k.step = s /\ k.granted = c.granted
    BY <1>0 DEF Call
  <2>3. ~ById(c.op) /\ (c.via = "tool" /\ c.caller # c.ws => c.granted)
    BY <1>0, <1>3 DEF Ensure, IInv, Granted
  <2>4. UNCHANGED <<docs, tasks, perms, begun, shares, trespass>> /\ existing' \in SUBSET Agents
    BY <1>0, <1>3 DEF Ensure, IInv, TypeOK, Call
  <2>5. /\ (k.via = "route" => k.step # "check") /\ k.step # "find" /\ ~ById(k.op)
        /\ k.op = "create_document" => k.step # "act"
    BY <2>2, <2>3
  <2>6. \A i \in k.seen : \E d \in docs : d.id = i /\ d.ws = k.ws
    BY <1>0, <2>2
  <2> HIDE DEF k
  <2>7. k.via = "tool" /\ k.caller # k.ws => k.granted
    BY <2>2, <2>3
  <2> QED BY <2>1, <2>4, <2>5, <2>6, <2>7, StepKeeps
<1>4. CASE Select(c)
  <2>1. PICK s \in IF Namesakes(c) = {} THEN {{}} ELSE {{d.id} : d \in Namesakes(c)} :
          calls' = (calls \ {c}) \cup {[c EXCEPT !.step = "act", !.seen = s]}
    BY <1>4 DEF Select
  <2> DEFINE k == [c EXCEPT !.step = "act", !.seen = s]
  <2>2. /\ s = {} => Namesakes(c) = {}
        /\ s \in SUBSET Ids
        /\ \A i \in s : \E d \in docs : d.id = i /\ d.ws = c.ws
    BY DEF Namesakes, IInv, TypeOK, Doc
  <2>3. /\ k \in Call /\ k = [c EXCEPT !.step = k.step, !.seen = k.seen]
        /\ k.op = c.op /\ k.via = c.via /\ k.obj = c.obj /\ k.ws = c.ws /\ k.caller = c.caller
        /\ k.name = c.name /\ k.seen = s /\ k.step = "act" /\ k.granted = c.granted
    BY <1>0, <2>2 DEF Call
  <2>4. ~ById(c.op) /\ (c.via = "tool" /\ c.caller # c.ws => c.granted)
    BY <1>0, <1>4 DEF Select, IInv, Granted
  <2>5. UNCHANGED <<docs, tasks, perms, begun, shares, trespass>> /\ existing' \in SUBSET Agents
    BY <1>4 DEF Select, rowVars, IInv, TypeOK
  <2>6. calls' = (calls \ {c}) \cup {k}
    BY <2>1
  <2>7. k.seen = {} => Namesakes(k) = {}
    BY <2>2, <2>3 DEF Namesakes
  <2>8. /\ k.via = "tool" /\ k.caller # k.ws => k.granted
        /\ ~ById(k.op)
        /\ \A i \in k.seen : \E d \in docs : d.id = i /\ d.ws = k.ws
    BY <2>2, <2>3, <2>4
  <2>9. (k.via = "route" => k.step # "check") /\ k.step # "find" /\ k \in Call
        /\ k = [c EXCEPT !.step = k.step, !.seen = k.seen]
    BY <2>3
  <2> HIDE DEF k
  <2> QED BY <2>5, <2>6, <2>7, <2>8, <2>9, StepKeeps
<1> QED BY <1>1, <1>2, <1>3, <1>4

LEMMA CreationKeeps ==
  ASSUME IInv, NEW c \in calls, InsertDocument(c)
  PROVE  IInv'
<1> DEFINE e == [id |-> c.n, ws |-> c.ws, name |-> c.name, body |-> c.n,
                 rivals |-> {r.n : r \in Inserting(c.ws, c.name)}]
<1>1. /\ docs' = docs \cup {e} /\ calls' = calls \ {c}
      /\ UNCHANGED <<existing, tasks, perms, begun, shares>>
  BY DEF InsertDocument, End
<1>2. c \in Call /\ Entitled(c, c.ws) /\ c.step = "act" /\ c.op = "create_document" /\ c.seen = {}
  BY ActsEntitled DEF InsertDocument, IInv, TypeOK
<1>3. AccessIsGranted'
  BY <1>2 DEF InsertDocument, Touch, IInv, AccessIsGranted
<1>4. e \in Doc
  BY <1>2 DEF Doc, Call, Inserting, IInv, TypeOK
<1>5. /\ e.id = c.n /\ e.ws = c.ws /\ e.name = c.name
      /\ \A k \in calls : /\ k.op = "create_document" /\ k.step = "act" /\ k.seen = {}
                           /\ k.ws = c.ws /\ k.name = c.name
                           => k.n \in e.rivals
  BY DEF Inserting
<1> HIDE DEF e
<1>6. TypeOK'
  BY <1>1, <1>3, <1>4 DEF IInv, TypeOK, AccessIsGranted
<1>7. Numbered'
  BY <1>1, <1>5 DEF IInv, Numbered
<1>8. Stepped' /\ Found' /\ Granted'
  BY <1>1 DEF IInv, Stepped, Found, Granted
<1>9. Located'
  BY <1>1, <1>5 DEF IInv, Located, Numbered, Rows
<1>10. Rivalled'
  BY <1>1, <1>5 DEF IInv, Rivalled
<1>11. TwinsOverlapped'
  BY <1>1, <1>2, <1>5 DEF IInv, Rivalled, TwinsOverlapped
<1> QED BY <1>3, <1>6, <1>7, <1>8, <1>9, <1>10, <1>11 DEF IInv

LEMMA UpdateKeeps ==
  ASSUME IInv, NEW c \in calls, UpdateDocument(c)
  PROVE  IInv'
<1>1. PICK d \in docs :
        /\ d.id \in c.seen
        /\ docs' = (docs \ {d}) \cup {[d EXCEPT !.body = c.n]}
        /\ Touch(c, d.ws)
  BY DEF UpdateDocument
<1> DEFINE e == [d EXCEPT !.body = c.n]
<1>2. /\ docs' = (docs \ {d}) \cup {e} /\ calls' = calls \ {c}
      /\ UNCHANGED <<existing, tasks, perms, begun, shares>>
  BY <1>1 DEF UpdateDocument, End
<1>3. c \in Call /\ d \in Doc /\ Entitled(c, c.ws) /\ d.ws = c.ws
  BY <1>1, ActsEntitled DEF UpdateDocument, IInv, TypeOK, Found, Numbered
<1>4. AccessIsGranted'
  BY <1>1, <1>3 DEF Touch, IInv, AccessIsGranted
<1>5. e \in Doc /\ e.id = d.id /\ e.ws = d.ws /\ e.name = d.name /\ e.rivals = d.rivals
  BY <1>3 DEF Doc, Call
<1> HIDE DEF e
<1>6. TypeOK'
  BY <1>2, <1>4, <1>5 DEF IInv, TypeOK, AccessIsGranted
<1>7. Numbered'
  BY <1>2, <1>5 DEF IInv, Numbered
<1>8. Stepped' /\ Granted'
  BY <1>2 DEF IInv, Stepped, Granted
<1>9. Found'
  BY <1>2, <1>5 DEF IInv, Found
<1>10. Located'
  BY <1>2, <1>5 DEF IInv, Located, Rows
<1>11. Rivalled'
  BY <1>2, <1>5 DEF IInv, Rivalled
<1>12. TwinsOverlapped'
  BY <1>2, <1>5 DEF IInv, TwinsOverlapped
<1> QED BY <1>4, <1>6, <1>7, <1>8, <1>9, <1>10, <1>11, <1>12 DEF IInv

LEMMA TasksKeep ==
  ASSUME IInv, NEW c \in calls, InsertTask(c) \/ UpdateTask(c)
  PROVE  IInv'
<1>1. PICK e \in Task :
        /\ \/ e.id = c.n /\ e.ws = c.ws /\ tasks' = tasks \cup {e}
           \/ \E t \in tasks : /\ e.id = t.id /\ e.ws = t.ws /\ t.ws = c.ws
                               /\ tasks' = (tasks \ {t}) \cup {e}
        /\ trespass' = trespass
        /\ calls' = calls \ {c} /\ UNCHANGED <<existing, docs, perms, begun, shares>>
  <2>0. c \in Call
    BY DEF IInv, TypeOK
  <2>1. CASE InsertTask(c)
    <3>1. Entitled(c, c.ws) /\ [id |-> c.n, ws |-> c.ws, body |-> c.n] \in Task
      BY <2>0, <2>1, ActsEntitled DEF InsertTask, Task, Call
    <3> QED BY <2>1, <3>1 DEF InsertTask, Touch, End
  <2>2. CASE UpdateTask(c)
    <3>1. PICK t \in tasks : /\ t.id = c.obj /\ Touch(c, t.ws)
                             /\ tasks' = (tasks \ {t}) \cup {[t EXCEPT !.body = c.n]}
      BY <2>2 DEF UpdateTask, Edited
    <3>2. t \in Task /\ t.ws = c.ws /\ Entitled(c, c.ws)
      BY <2>0, <2>2, <3>1, ActsEntitled DEF UpdateTask, IInv, TypeOK, Located, ById, Rows
    <3>3. [t EXCEPT !.body = c.n] \in Task /\ [t EXCEPT !.body = c.n].id = t.id
          /\ [t EXCEPT !.body = c.n].ws = t.ws
      BY <2>0, <3>2 DEF Task, Call
    <3>4. trespass' = trespass /\ calls' = calls \ {c} /\ UNCHANGED <<existing, docs, perms, begun, shares>>
      BY <2>2, <3>1, <3>2 DEF UpdateTask, Touch, End
    <3> QED BY <3>1, <3>2, <3>3, <3>4
  <2> QED BY <2>1, <2>2
<1>2. TypeOK'
  BY <1>1 DEF IInv, TypeOK
<1>3. Numbered'
  BY <1>1 DEF IInv, Numbered
<1>4. Stepped' /\ Granted' /\ Found' /\ Rivalled'
  BY <1>1 DEF IInv, Stepped, Granted, Found, Rivalled
<1>5. Located'
  BY <1>1 DEF IInv, Located, Rows, Numbered
<1>6. AccessIsGranted' /\ TwinsOverlapped'
  BY <1>1 DEF IInv, AccessIsGranted, TwinsOverlapped
<1> QED BY <1>2, <1>3, <1>4, <1>5, <1>6 DEF IInv

LEMMA AnswerKeeps ==
  ASSUME IInv, NEW c \in calls, Answer(c)
  PROVE  IInv'
<1>1. Entitled(c, c.ws)
  BY ActsEntitled DEF Answer
<1>2. \A r \in Shown(c) : r.ws = c.ws
  BY DEF Answer, Shown, Listed, IInv, Located, ById, Rows
<1>3. UNCHANGED <<rowVars, perms, begun, shares, trespass>>
  BY <1>1, <1>2 DEF Answer, IInv, AccessIsGranted
<1> QED BY <1>3, EndKeeps DEF Answer

LEMMA ShareKeeps ==
  ASSUME IInv, NEW ws \in Agents, NEW agent \in Agents, NEW level \in Level, Share(ws, agent, level)
  PROVE  IInv'
<1> DEFINE heard(c) == c.granted \/ (ws = c.ws /\ agent = c.caller /\ Allows(level, c.op))
           after(c) == [c EXCEPT !.granted = heard(c)]
<1>1. /\ calls' = {after(c) : c \in calls}
      /\ perms' = [perms EXCEPT ![<<ws, agent>>] = level]
      /\ shares < MaxShares /\ shares' = shares + 1
      /\ UNCHANGED <<existing, docs, tasks, begun, trespass>>
  BY DEF Share, rowVars
<1>2. \A c \in calls : /\ c \in Call /\ after(c) \in Call
                       /\ after(c).n = c.n /\ after(c).op = c.op /\ after(c).via = c.via
                       /\ after(c).caller = c.caller /\ after(c).ws = c.ws
                       /\ after(c).name = c.name /\ after(c).obj = c.obj
                       /\ after(c).step = c.step /\ after(c).seen = c.seen
                       /\ after(c).granted = heard(c)
  BY DEF IInv, TypeOK, Call, Allows, Writes
<1>3. perms' \in [Agents \X Agents -> Level] /\ shares' \in 0..MaxShares
  BY <1>1 DEF IInv, TypeOK
<1>4. \A c \in calls : Allows(perms'[<<c.ws, c.caller>>], c.op) =>
        Allows(perms[<<c.ws, c.caller>>], c.op) \/ (ws = c.ws /\ agent = c.caller /\ Allows(level, c.op))
  <2> SUFFICES ASSUME NEW c \in calls, Allows(perms'[<<c.ws, c.caller>>], c.op),
                      ~Allows(perms[<<c.ws, c.caller>>], c.op)
               PROVE  ws = c.ws /\ agent = c.caller /\ Allows(level, c.op)
    OBVIOUS
  <2>1. c.ws \in Agents /\ c.caller \in Agents
    BY <1>2 DEF Call
  <2>2. <<c.ws, c.caller>> = <<ws, agent>>
    BY <1>1, <2>1 DEF IInv, TypeOK
  <2>3. perms'[<<c.ws, c.caller>>] = level
    BY <1>1, <2>1, <2>2 DEF IInv, TypeOK
  <2> QED BY <2>2, <2>3
<1> HIDE DEF after
<1>5. TypeOK'
  BY <1>1, <1>2, <1>3 DEF IInv, TypeOK
<1>6. Numbered'
  BY <1>1, <1>2 DEF IInv, Numbered
<1>7. Stepped' /\ Found'
  BY <1>1, <1>2 DEF IInv, Stepped, Found
<1>8. Located' /\ Rivalled'
  BY <1>1, <1>2 DEF IInv, Located, Rivalled, Rows
<1>9. Granted'
  <2>1. ASSUME NEW c \in calls, c.via = "tool"
        PROVE  /\ Allows(perms'[<<c.ws, c.caller>>], c.op) => heard(c)
               /\ c.caller # c.ws /\ c.step \in {"ensure", "select", "act"} => heard(c)
    BY <1>4, <2>1 DEF IInv, Granted
  <2> HIDE DEF heard
  <2>2. ASSUME NEW c \in calls, after(c).via = "tool"
        PROVE  /\ Allows(perms'[<<after(c).ws, after(c).caller>>], after(c).op) => after(c).granted
               /\ after(c).caller # after(c).ws /\ after(c).step \in {"ensure", "select", "act"}
                    => after(c).granted
    BY <1>2, <2>1, <2>2
  <2> QED BY <1>1, <2>2 DEF Granted, Allows, Writes
<1>10. AccessIsGranted' /\ TwinsOverlapped'
  BY <1>1 DEF IInv, AccessIsGranted, TwinsOverlapped
<1> QED BY <1>5, <1>6, <1>7, <1>8, <1>9, <1>10 DEF IInv

\* What only adds a workspace, or changes nothing.
LEMMA RestKeeps ==
  ASSUME IInv, existing' \in SUBSET Agents,
         UNCHANGED <<docs, tasks, perms, calls, begun, shares, trespass>>
  PROVE  IInv'
<1>1. TypeOK' /\ Numbered' /\ Stepped' /\ Found' /\ AccessIsGranted' /\ TwinsOverlapped'
  BY DEF IInv, TypeOK, Numbered, Stepped, Found, AccessIsGranted, TwinsOverlapped
<1>2. Located' /\ Granted' /\ Rivalled'
  BY DEF IInv, Located, Granted, Rivalled, Rows
<1> QED BY <1>1, <1>2 DEF IInv

LEMMA NextKeeps == IInv /\ [Next]_vars => IInv'
<1> SUFFICES ASSUME IInv, [Next]_vars PROVE IInv'
  OBVIOUS
<1>1. ASSUME begun < MaxCalls, NEW op \in Op, NEW via \in {"tool", "route"}, NEW agent \in Agents, NEW ws \in Agents,
             NEW named \in Agents \cup {Nobody},
             \/ \E name \in Names : BeginInWorkspace(op, via, agent, named, ws, name)
             \/ \E row \in Rows(op) : BeginById(op, via, agent, named, ws, row)
      PROVE  IInv'
  BY <1>1, BeginsKeep
<1>2. ASSUME NEW c \in calls, Proceed(c)
      PROVE  IInv'
  BY <1>2, AsksKeep, CreationKeeps, UpdateKeeps, TasksKeep, AnswerKeeps DEF Proceed
<1>3. ASSUME NEW ws \in Agents, NEW agent \in Agents, NEW level \in Level, Share(ws, agent, level)
      PROVE  IInv'
  BY <1>3, ShareKeeps
<1>4. ASSUME NEW ws \in Agents, CreateWorkspace(ws)
      PROVE  IInv'
  <2>1. existing' \in SUBSET Agents
    BY <1>4 DEF CreateWorkspace, IInv, TypeOK
  <2> QED BY <1>4, <2>1, RestKeeps DEF CreateWorkspace
<1>5. CASE UNCHANGED vars
  BY <1>5, RestKeeps DEF vars, IInv, TypeOK
<1> QED BY <1>1, <1>2, <1>3, <1>4, <1>5 DEF Next, Terminated

-----------------------------------------------------------------------------
\* The invariant holds of every behaviour.
THEOREM Safety == Spec => []IInv
BY InitIInv, NextKeeps, PTL DEF Spec

\* Sharing is well typed: rows and calls of agents, permissions of pairs of them.
THEOREM TypeCorrect == Spec => []TypeOK
BY Safety, PTL DEF IInv

\* No tool touches a row that the agent it acts as (the turn's own, or the one
\* its input names) was entitled to at no moment of the call, and no route a row
\* outside its workspace, however calls and `claw workspace share` interleave.
THEOREM AccessGranted == Spec => []AccessIsGranted
BY Safety, PTL DEF IInv

\* Two documents of a workspace have one name only if upsert_document of one
\* had looked, and not inserted, when the other was inserted.
THEOREM TwinsOfOverlap == Spec => []TwinsOverlapped
BY Safety, PTL DEF IInv
=============================================================================
