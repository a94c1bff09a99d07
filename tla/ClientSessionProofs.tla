------------------------ MODULE ClientSessionProofs ------------------------
(***************************************************************************)
(* Proofs about ClientSession, for any number of callers, closers, marks   *)
(* and connections.                                                        *)
(***************************************************************************)
EXTENDS ClientSession, FiniteSetTheorems, TLAPS

\* The next mark is a mark: lastMark runs through 0 .. NMarks - 1.
LEMMA NextMark == \A m \in Marks : (m + 1) % NMarks \in Marks
  BY ConstantsAssumption DEF ConstantsAssumption, Marks

\* NewSession and Start establish the type invariant.
LEMMA TypeInit == Init => TypeOK
<1> SUFFICES ASSUME Init PROVE TypeOK
  OBVIOUS
<1> USE ConstantsAssumption DEF ConstantsAssumption, Marks, Conns, NoConn
<1>1. NoReq \in Requests
  BY DEF NoReq, Requests, ReqKinds, AllKinds
<1>2. /\ marks \in [Marks -> BOOLEAN] /\ grace \in [Conns -> BOOLEAN] /\ connErrLock \in BOOLEAN
      /\ early \in BOOLEAN
  BY DEF Init
<1>3. /\ responses \in [Marks -> Responses \cup {Empty}]
      /\ hand \in [Conns -> Responses \cup {Empty}]
  BY DEF Init
<1>4. link \in [Conns -> LinkStates] /\ wire \in [Conns -> SUBSET Requests]
  BY DEF Init, LinkStates
<1>5. pc \in [Callers -> CallerAt] /\ req \in [Callers -> Requests]
  BY <1>1 DEF Init, CallerAt
<1>6. loop \in [Conns -> LoopAt] /\ ping \in [Conns -> PingAt] /\ scan \in [Conns -> 0 .. NMarks]
  BY DEF Init, LoopAt, PingAt
<1>7. closer \in [Closers -> CloserAt] /\ closing \in [Closers -> Conns \cup {NoConn}]
  BY DEF Init, CloserAt
<1>8. /\ activeReqs \in Nat /\ lastMark \in Marks /\ nextId \in 1 .. MaxCalls + 1
      /\ losses \in 0 .. MaxLosses /\ conn \in Conns \cup {NoConn} /\ ctx \in Conns
  BY DEF Init
<1>9. QED
  BY <1>2, <1>3, <1>4, <1>5, <1>6, <1>7, <1>8 DEF Init, TypeOK

\* A severed link and its emptied wire keep their types.
LEMMA SeverType ==
  ASSUME TypeOK, NEW C, NEW how \in {"lost", "normal"}, Sever(C, how)
  PROVE  link' \in [Conns -> LinkStates] /\ wire' \in [Conns -> SUBSET Requests]
  BY DEF TypeOK, Sever, LinkStates

\* connCtxCancel keeps the types.
LEMMA CancelType ==
  ASSUME TypeOK, NEW C, Cancel(C)
  PROVE  /\ cancelled' \in SUBSET Conns
         /\ link' \in [Conns -> LinkStates] /\ wire' \in [Conns -> SUBSET Requests]
  BY SeverType DEF TypeOK, Cancel

\* The first error wins; both fields keep their types.
LEMMA RecordErrType ==
  ASSUME TypeOK, NEW e \in {"normal", "io"}, RecordErr(e)
  PROVE  connErr' \in {"none", "normal", "io"} /\ connErrLock' \in BOOLEAN
  BY DEF TypeOK, RecordErr

\* Waking sleeping closers keeps them where a closer can be.
LEMMA WakeType ==
  ASSUME NEW cl \in [Closers -> CloserAt]
  PROVE  Wake(cl) \in [Closers -> CloserAt]
  BY DEF Wake, CloserAt

\* exit keeps the types.
LEMMA ExitType ==
  ASSUME TypeOK, NEW e \in {"nil", "err"}, NEW cl \in [Closers -> CloserAt], Exit(e, cl)
  PROVE  /\ exitErr' \in {"none", "nil", "err"} /\ activeReqs' = activeReqs
         /\ state' \in {"Running", "Recovering", "Closing", "Closed"}
         /\ closer' \in [Closers -> CloserAt]
  BY WakeType DEF TypeOK, Exit

\* What a caller puts on the wire are requests.
LEMMA OutstandingType ==
  ASSUME TypeOK, NEW p \in Callers, NEW kind \in ReqKinds
  PROVE  Outstanding(req[p], kind) \in Requests
<1>1. req[p] \in Requests /\ conn \in Conns \cup {NoConn}
  BY DEF TypeOK
<1>2. \A r \in Requests, c \in Conns \cup {NoConn} : [r EXCEPT !.kind = kind, !.conn = c] \in Requests
  BY DEF Requests
<1>3. QED
  BY <1>1, <1>2 DEF Outstanding

\* The same for the messages of a write stream.
LEMMA StreamType ==
  ASSUME TypeOK, NEW p \in Callers, conn # NoConn, NEW isEnd, NEW answered
  PROVE  AfterStreamData(p, isEnd, answered) \in SUBSET Requests
<1>1. wire[conn] \in SUBSET Requests
  BY DEF TypeOK
<1>2. /\ Outstanding(req[p], "stray") \in Requests
      /\ Outstanding(req[p], "end") \in Requests
      /\ Outstanding(req[p], "cmd") \in Requests
  BY OutstandingType DEF ReqKinds, AllKinds
<1>3. QED
  BY <1>1, <1>2 DEF AfterStreamData

\* A caller's send keeps the types, provided what it puts on the wire is
\* made of requests.
LEMMA SendType ==
  ASSUME TypeOK, NEW p \in Callers, NEW r, conn # NoConn => r \in SUBSET Requests,
         NEW to \in CallerAt, NEW kind \in ReqKinds, CallerSend(p, r, to, kind)
  PROVE  TypeOK'
<1> USE DEF lifeVars, markVars, errVars, linkVars, loopVars, closeVars
<1>1. conn' \in Conns \cup {NoConn}
  BY DEF TypeOK, CallerSend, Written, WriteBreaks, NoConnection
<1>2. connErr' \in {"none", "normal", "io"} /\ connErrLock' \in BOOLEAN
  BY RecordErrType DEF TypeOK, CallerSend, Written, WriteBreaks, NoConnection
<1>3. /\ cancelled' \in SUBSET Conns
      /\ link' \in [Conns -> LinkStates] /\ wire' \in [Conns -> SUBSET Requests]
  BY SeverType, CancelType DEF TypeOK, CallerSend, Written, WriteBreaks, NoConnection
<1>4. pc' \in [Callers -> CallerAt]
  BY DEF TypeOK, CallerSend, Step, CallerAt
<1>5. req' \in [Callers -> Requests]
  BY DEF TypeOK, CallerSend, Requests
<1>6. UNCHANGED <<lifeVars, markVars, ctx, nextId, loopVars, ping, closeVars, losses, early>>
  BY DEF CallerSend
<1>7. QED
  BY <1>1, <1>2, <1>3, <1>4, <1>5, <1>6 DEF TypeOK

\* The commands that Counted holds are finitely many, and none is left out
\* of the count, so a command that finishes is counted.
LEMMA CountedPositive ==
  ASSUME TypeOK, ActiveReqsCount, NEW p \in Callers, pc[p] # "idle"
  PROVE  activeReqs - 1 \in Nat
<1>1. IsFiniteSet(Counted)
  BY ConstantsAssumption, FS_Subset DEF ConstantsAssumption, Counted
<1>2. p \in Counted
  BY DEF Counted
<1>3. Cardinality(Counted) # 0
  BY <1>1, <1>2, FS_EmptySet
<1>4. QED
  BY <1>3 DEF TypeOK, ActiveReqsCount

\* Every step of a caller keeps the types.
LEMMA TypeCaller ==
  ASSUME TypeOK, ActiveReqsCount, NEW p \in Callers, CallerNext(p)
  PROVE  TypeOK'
<1> USE ConstantsAssumption
<1> USE DEF lifeVars, markVars, errVars, linkVars, callVars, loopVars, closeVars
<1>1. CASE Admit(p)
  <2>1. activeReqs' \in Nat /\ nextId' \in 1 .. MaxCalls + 1
    BY <1>1 DEF TypeOK, Admit, CountUp, ConstantsAssumption
  <2>2. pc' \in [Callers -> CallerAt]
    BY <1>1 DEF TypeOK, Admit, CallerAt
  <2>3. req' \in [Callers -> Requests]
    <3>1. 0 \in Marks /\ nextId \in 0 .. MaxCalls
      <4>1. nextId \in 1 .. MaxCalls + 1 /\ nextId <= MaxCalls
        BY <1>1 DEF TypeOK, Admit
      <4>2. MaxCalls \in Nat /\ NMarks \in Nat \ {0}
        BY DEF ConstantsAssumption
      <4>3. QED
        BY <4>1, <4>2 DEF Marks
    <3>2. \A k \in Kinds : [mark |-> 0, id |-> nextId, kind |-> k, conn |-> NoConn] \in Requests
      BY <3>1 DEF Requests, ReqKinds, ConstantsAssumption
    <3>3. \/ req' = req
          \/ \E k \in Kinds :
               req' = [req EXCEPT ![p] = [mark |-> 0, id |-> nextId, kind |-> k, conn |-> NoConn]]
      BY <1>1 DEF Admit
    <3>4. req \in [Callers -> Requests]
      BY DEF TypeOK
    <3>5. QED
      BY <3>2, <3>3, <3>4
  <2>4. QED
    BY <1>1, <2>1, <2>2, <2>3 DEF TypeOK, Admit
<1>2. CASE PickMark(p)
  <2>1. (lastMark + 1) % NMarks \in Marks
    BY NextMark DEF TypeOK
  <2>2. marks' \in [Marks -> BOOLEAN]
    BY <1>2, <2>1 DEF TypeOK, PickMark
  <2>3. pc' \in [Callers -> CallerAt]
    BY <1>2 DEF TypeOK, PickMark, CallerAt
  <2>4. req' \in [Callers -> Requests]
    <3>1. \/ req' = req
          \/ req' = [req EXCEPT ![p].mark = (lastMark + 1) % NMarks]
      BY <1>2 DEF PickMark
    <3>2. \A r \in Requests, m \in Marks : [r EXCEPT !.mark = m] \in Requests
      BY DEF Requests
    <3>3. QED
      BY <2>1, <3>1, <3>2 DEF TypeOK
  <2>5. QED
    BY <1>2, <2>1, <2>2, <2>3, <2>4 DEF TypeOK, PickMark
<1>3. CASE SendCommand(p)
  <2>1. req[p].kind \in ReqKinds
    BY DEF TypeOK, Requests
  <2>2. conn # NoConn => wire[conn] \cup {Outstanding(req[p], req[p].kind)} \in SUBSET Requests
    BY <2>1, OutstandingType DEF TypeOK
  <2>3. QED
    BY <1>3, <2>1, <2>2, SendType DEF SendCommand, CallerAt
<1>4. CASE SendOpen(p)
  <2>1. {"open", "stray", "stream", "refused"} \subseteq ReqKinds /\ "stream" \in CallerAt
    BY DEF ReqKinds, AllKinds, CallerAt
  <2>2. PICK opens \in BOOLEAN :
          CallerSend(p, wire[conn] \cup {Outstanding(req[p], IF opens THEN "open" ELSE "stray")},
                     "stream", IF opens THEN "stream" ELSE "refused")
    BY <1>4 DEF SendOpen
  <2>3. \A k \in {"open", "stray"} :
          conn # NoConn => wire[conn] \cup {Outstanding(req[p], k)} \in SUBSET Requests
    BY <2>1, OutstandingType DEF TypeOK
  <2>4. QED
    BY <2>1, <2>2, <2>3, SendType
<1>5. CASE SendData(p)
  <2>1. PICK a \in Answered(p) :
          CallerSend(p, AfterStreamData(p, FALSE, a), "stream", req[p].kind)
    BY <1>5 DEF SendData
  <2>2. req[p].kind \in ReqKinds
    BY DEF TypeOK, Requests
  <2>3. QED
    BY <2>1, <2>2, StreamType, SendType DEF CallerAt
<1>6. CASE SendEnd(p)
  <2>1. PICK a \in Answered(p) :
          CallerSend(p, AfterStreamData(p, TRUE, a), "wait", req[p].kind)
    BY <1>6 DEF SendEnd
  <2>2. req[p].kind \in ReqKinds
    BY DEF TypeOK, Requests
  <2>3. QED
    BY <2>1, <2>2, StreamType, SendType DEF CallerAt
<1>7. CASE Receive(p)
  <2>1. req[p].mark \in Marks
    BY DEF TypeOK, Requests
  <2>2. responses' \in [Marks -> Responses \cup {Empty}]
    BY <1>7, <2>1 DEF TypeOK, Receive
  <2>3. pc' \in [Callers -> CallerAt]
    BY <1>7 DEF TypeOK, Receive, Step, CallerAt
  <2>4. early' \in BOOLEAN
    BY <1>7 DEF TypeOK, Receive
  <2>5. QED
    BY <1>7, <2>2, <2>3, <2>4 DEF TypeOK, Receive
<1>8. CASE Release(p)
  <2>1. marks' \in [Marks -> BOOLEAN]
    BY <1>8 DEF TypeOK, Release, Requests
  <2>2. pc' \in [Callers -> CallerAt]
    BY <1>8 DEF TypeOK, Release, Step, CallerAt
  <2>3. QED
    BY <1>8, <2>1, <2>2 DEF TypeOK, Release
<1>9. CASE Uncount(p)
  <2>1. activeReqs' \in Nat
    BY <1>9, CountedPositive DEF Uncount
  <2>2. closer' \in [Closers -> CloserAt]
    BY <1>9, WakeType DEF TypeOK, Uncount, Broadcast
  <2>3. pc' \in [Callers -> CallerAt] /\ req' \in [Callers -> Requests]
    <3>1. NoReq \in Requests
      BY DEF NoReq, Requests, ReqKinds, AllKinds, Marks, ConstantsAssumption
    <3>2. QED
      BY <1>9, <3>1 DEF TypeOK, Uncount, Step, CallerAt
  <2>4. QED
    BY <1>9, <2>1, <2>2, <2>3 DEF TypeOK, Uncount
<1>10. QED
  BY <1>1, <1>2, <1>3, <1>4, <1>5, <1>6, <1>7, <1>8, <1>9 DEF CallerNext

\* What a read loop's step does to its own place keeps it where a loop can be.
LEMMA GotoType ==
  ASSUME TypeOK, NEW c \in Conns, NEW to \in LoopAt, Goto(c, to)
  PROVE  loop' \in [Conns -> LoopAt]
  BY DEF TypeOK, Goto

\* What the peer may answer, and what it then still owes.
LEMMA AnswerType ==
  ASSUME NEW r \in Requests, NEW a \in Answers(r)
  PROVE  a[1] \in Codes /\ a[2] \in SUBSET Requests
<1>1. \A k \in ReqKinds : [r EXCEPT !.kind = k] \in Requests
  BY DEF Requests
<1>2. [r EXCEPT !.kind = "cmd"] \in Requests /\ [r EXCEPT !.kind = "openErr"] \in Requests
  BY <1>1 DEF ReqKinds, AllKinds
<1>3. QED
  BY <1>2, ConstantsAssumption DEF Answers, Codes, ConstantsAssumption

\* Where a loop is bounds what it is about: the mark it notifies is one, and
\* it has dialed the connection it is taking.
LoopPlace ==
  \A c \in Conns : /\ loop[c] = "push" => scan[c] < NMarks
                   /\ loop[c] \in {"take", "context"} => c < MaxConns

\* The mark a scan is at, short of the end, is one.
LEMMA MarkBelow ==
  ASSUME NEW n \in 0 .. NMarks, n < NMarks
  PROVE  n \in Marks /\ n + 1 \in 0 .. NMarks
<1>1. NMarks \in Nat
  BY ConstantsAssumption DEF ConstantsAssumption
<1>2. QED
  BY <1>1 DEF Marks

\* A loop that takes a connection has a next one to take.
LEMMA NextConn ==
  ASSUME LoopPlace, NEW c \in Conns, loop[c] \in {"take", "context"}
  PROVE  c + 1 \in Conns
<1>1. c < MaxConns
  BY DEF LoopPlace
<1>2. MaxConns \in Nat
  BY ConstantsAssumption DEF ConstantsAssumption
<1>3. QED
  BY <1>1, <1>2 DEF Conns

\* Every step of a read loop keeps the types.
LEMMA TypeLoop ==
  ASSUME TypeOK, LoopPlace, NEW c \in Conns, LoopNext(c)
  PROVE  TypeOK'
<1> USE ConstantsAssumption
<1> USE DEF lifeVars, markVars, errVars, linkVars, callVars, loopVars, closeVars
<1>1. CASE ReadMessage(c)
  <2>1. PICK r \in wire[c] : \E a \in Answers(r) :
          /\ hand' = [hand EXCEPT ![c] = Rsp(r.mark, r.id, r.conn, a[1])]
          /\ wire' = [wire EXCEPT ![c] = (@ \ {r}) \cup a[2]]
    BY <1>1 DEF ReadMessage
  <2>2. r \in Requests
    BY DEF TypeOK
  <2> PICK a \in Answers(r) :
          /\ hand' = [hand EXCEPT ![c] = Rsp(r.mark, r.id, r.conn, a[1])]
          /\ wire' = [wire EXCEPT ![c] = (@ \ {r}) \cup a[2]]
    BY <2>1
  <2>3. a[1] \in Codes /\ a[2] \in SUBSET Requests
    BY <2>2, AnswerType
  <2>4. wire' \in [Conns -> SUBSET Requests]
    BY <2>3 DEF TypeOK
  <2>5. hand' \in [Conns -> Responses \cup {Empty}]
    <3>1. r.mark \in Marks /\ r.id \in 0 .. MaxCalls /\ r.conn \in Conns \cup {NoConn}
      BY <2>2 DEF Requests
    <3>2. Rsp(r.mark, r.id, r.conn, a[1]) \in Responses
      BY <2>3, <3>1 DEF Rsp, Responses
    <3>3. QED
      BY <3>2 DEF TypeOK
  <2>6. loop' \in [Conns -> LoopAt]
    BY <1>1, GotoType DEF ReadMessage, LoopAt
  <2>7. QED
    BY <1>1, <2>4, <2>5, <2>6 DEF TypeOK, ReadMessage
<1>2. CASE Deliver(c)
  <2>1. loop' \in [Conns -> LoopAt]
    BY <1>2, GotoType DEF Deliver, LoopAt
  <2>2. hand[c] \in Responses \cup {Empty}
    BY DEF TypeOK
  <2>3. responses' \in [Marks -> Responses \cup {Empty}]
    BY <1>2, <2>2 DEF TypeOK, Deliver
  <2>4. hand' \in [Conns -> Responses \cup {Empty}]
    BY <1>2 DEF TypeOK, Deliver
  <2>5. UNCHANGED <<lifeVars, lastMark, marks, conn, ctx, errVars, linkVars, callVars, scan, grace,
                    ping, closeVars, losses>>
    BY <1>2 DEF Deliver
  <2>6. QED
    BY <2>1, <2>3, <2>4, <2>5 DEF TypeOK
<1>3. CASE ReadFails(c)
  <2>1. loop' \in [Conns -> LoopAt]
    BY <1>3, GotoType DEF ReadFails, LoopAt
  <2>2. connErr' \in {"none", "normal", "io"} /\ connErrLock' \in BOOLEAN
    BY <1>3, RecordErrType DEF ReadFails
  <2>3. QED
    BY <1>3, <2>1, <2>2 DEF TypeOK, ReadFails
<1>4. CASE StopLifecycle(c)
  <2>1. loop' \in [Conns -> LoopAt]
    BY <1>4, GotoType DEF StopLifecycle, LoopAt
  <2>2. grace' \in [Conns -> BOOLEAN]
    BY <1>4 DEF TypeOK, StopLifecycle
  <2>3. closer' \in [Closers -> CloserAt]
    BY <1>4, WakeType DEF TypeOK, StopLifecycle, Broadcast
  <2>4. /\ cancelled' \in SUBSET Conns
        /\ link' \in [Conns -> LinkStates] /\ wire' \in [Conns -> SUBSET Requests]
    BY <1>4, CancelType DEF StopLifecycle
  <2>5. QED
    BY <1>4, <2>1, <2>2, <2>3, <2>4 DEF TypeOK, StopLifecycle
<1>5. CASE StopDetach(c)
  <2>1. loop' \in [Conns -> LoopAt]
    BY <1>5, GotoType DEF StopDetach, LoopAt
  <2>2. link' \in [Conns -> LinkStates] /\ wire' \in [Conns -> SUBSET Requests]
    BY <1>5, SeverType DEF TypeOK, StopDetach
  <2>3. QED
    BY <1>5, <2>1, <2>2 DEF TypeOK, StopDetach
<1>6. CASE StopUnlock(c)
  BY <1>6, GotoType DEF TypeOK, StopUnlock, LoopAt
<1>7. CASE NotifyLook(c)
  <2>1. loop' \in [Conns -> LoopAt]
    BY <1>7, GotoType DEF TypeOK, NotifyLook, LoopAt
  <2>2. scan' \in [Conns -> 0 .. NMarks]
    <3>1. /\ scan \in [Conns -> 0 .. NMarks] /\ scan[c] < NMarks
          /\ scan' = scan \/ scan' = [scan EXCEPT ![c] = @ + 1]
      BY <1>7 DEF TypeOK, NotifyLook
    <3>2. scan[c] + 1 \in 0 .. NMarks
      BY <3>1, MarkBelow
    <3>3. QED
      BY <3>1, <3>2
  <2>3. UNCHANGED <<lifeVars, markVars, conn, ctx, errVars, linkVars, callVars, hand, grace, ping,
                    closeVars, losses>>
    BY <1>7 DEF NotifyLook
  <2>4. QED
    BY <2>1, <2>2, <2>3 DEF TypeOK
<1>8. CASE NotifyPush(c)
  <2>1. loop' \in [Conns -> LoopAt]
    BY <1>8, GotoType DEF NotifyPush, LoopAt
  <2>2. scan[c] \in Marks /\ scan[c] + 1 \in 0 .. NMarks
    <3>1. loop[c] = "push" /\ scan[c] \in 0 .. NMarks
      BY <1>8 DEF TypeOK, NotifyPush
    <3>2. scan[c] < NMarks
      BY <3>1 DEF LoopPlace
    <3>3. QED
      BY <3>1, <3>2, MarkBelow
  <2>3. responses' \in [Marks -> Responses \cup {Empty}]
    <3>1. Rsp(scan[c], 0, c, IF grace[c] THEN "CLOSED" ELSE "IOERR") \in Responses
      <4>1. (IF grace[c] THEN "CLOSED" ELSE "IOERR") \in Codes
        BY DEF Codes
      <4>2. 0 \in 0 .. MaxCalls
        BY DEF ConstantsAssumption
      <4>3. QED
        BY <2>2, <4>1, <4>2 DEF Rsp, Responses
    <3>2. QED
      BY <1>8, <2>2, <3>1 DEF TypeOK, NotifyPush
  <2>4. scan' \in [Conns -> 0 .. NMarks]
    BY <1>8, <2>2 DEF TypeOK, NotifyPush
  <2>5. UNCHANGED <<lifeVars, lastMark, marks, conn, ctx, errVars, linkVars, callVars, hand, grace,
                    ping, closeVars, losses>>
    BY <1>8 DEF NotifyPush
  <2>6. QED
    BY <2>1, <2>3, <2>4, <2>5 DEF TypeOK
<1>9. CASE NotifyDone(c)
  <2>1. loop' \in [Conns -> LoopAt]
    BY <1>9, GotoType DEF NotifyDone, LoopAt
  <2>2. /\ exitErr' \in {"none", "nil", "err"} /\ activeReqs' = activeReqs
        /\ state' \in {"Running", "Recovering", "Closing", "Closed"}
        /\ closer' \in [Closers -> CloserAt]
    BY <1>9, ExitType DEF TypeOK, NotifyDone
  <2>3. QED
    BY <1>9, <2>1, <2>2 DEF TypeOK, NotifyDone
<1>10. CASE RedialFails(c)
  <2>1. loop' \in [Conns -> LoopAt]
    BY <1>10, GotoType DEF RedialFails, LoopAt
  <2>2. /\ exitErr' \in {"none", "nil", "err"} /\ activeReqs' = activeReqs
        /\ state' \in {"Running", "Recovering", "Closing", "Closed"}
        /\ closer' \in [Closers -> CloserAt]
    BY <1>10, ExitType DEF TypeOK, RedialFails
  <2>3. QED
    BY <1>10, <2>1, <2>2 DEF TypeOK, RedialFails
<1>11. CASE RedialSucceeds(c)
  <2>1. loop' \in [Conns -> LoopAt]
    BY <1>11, GotoType DEF RedialSucceeds, LoopAt
  <2>2. link' \in [Conns -> LinkStates]
    BY <1>11 DEF TypeOK, RedialSucceeds, LinkStates
  <2>3. UNCHANGED <<lifeVars, markVars, conn, ctx, errVars, cancelled, wire, callVars, hand, scan,
                    grace, ping, closeVars, losses>>
    BY <1>11 DEF RedialSucceeds
  <2>4. QED
    BY <2>1, <2>2, <2>3 DEF TypeOK
<1>12. CASE TakeConn(c)
  <2>1. c + 1 \in Conns
    BY <1>12, NextConn DEF TakeConn
  <2>2. loop' \in [Conns -> LoopAt]
    BY <1>12, GotoType DEF TakeConn, LoopAt
  <2>3. QED
    BY <1>12, <2>1, <2>2 DEF TypeOK, TakeConn
<1>13. CASE TakeContext(c)
  <2>1. c + 1 \in Conns
    BY <1>13, NextConn DEF TakeContext
  <2>2. loop' \in [Conns -> LoopAt] /\ ping' \in [Conns -> PingAt]
    BY <1>13, <2>1 DEF TypeOK, TakeContext, LoopAt, PingAt
  <2>3. QED
    BY <1>13, <2>1, <2>2 DEF TypeOK, TakeContext
<1>14. CASE Resume(c)
  <2>1. loop' \in [Conns -> LoopAt]
    BY <1>14, GotoType DEF Resume, LoopAt
  <2>2. closer' \in [Closers -> CloserAt]
    BY <1>14, WakeType DEF TypeOK, Resume, Broadcast
  <2>3. QED
    BY <1>14, <2>1, <2>2 DEF TypeOK, Resume
<1>15. QED
  BY <1>1, <1>2, <1>3, <1>4, <1>5, <1>6, <1>7, <1>8, <1>9, <1>10, <1>11, <1>12, <1>13, <1>14
     DEF LoopNext

\* The steps of the ping loops, of Close and of the network.
OtherNext ==
  \/ \E c \in Conns : PingNext(c) \/ Lose(c)
  \/ \E k \in Closers : CloserNext(k)

\* A failure is counted only below the bound.
LEMMA LossType ==
  ASSUME TypeOK, losses' = losses \/ (losses < MaxLosses /\ losses' = losses + 1)
  PROVE  losses' \in 0 .. MaxLosses
<1>1. MaxLosses \in Nat /\ losses \in 0 .. MaxLosses
  BY ConstantsAssumption DEF TypeOK, ConstantsAssumption
<1>2. QED
  BY <1>1

\* They keep the types.
LEMMA TypeOther ==
  ASSUME TypeOK, OtherNext
  PROVE  TypeOK'
<1> USE ConstantsAssumption
<1> USE DEF lifeVars, markVars, errVars, linkVars, callVars, loopVars, closeVars
<1>1. ASSUME NEW c \in Conns, PingFails(c) PROVE TypeOK'
  <2>1. connErr' \in {"none", "normal", "io"} /\ connErrLock' \in BOOLEAN
    BY <1>1, RecordErrType DEF PingFails
  <2>2. ping' \in [Conns -> PingAt]
    BY <1>1 DEF TypeOK, PingFails, PingAt
  <2>3. losses' \in 0 .. MaxLosses
    <3>1. losses' = losses \/ (losses < MaxLosses /\ losses' = losses + 1)
      BY <1>1 DEF PingFails
    <3>2. QED
      BY <3>1, LossType
  <2>4. UNCHANGED <<lifeVars, markVars, conn, ctx, linkVars, callVars, loopVars, closeVars>>
    BY <1>1 DEF PingFails
  <2>5. QED
    BY <2>1, <2>2, <2>3, <2>4 DEF TypeOK
<1>2. ASSUME NEW c \in Conns, PingCancel(c) PROVE TypeOK'
  <2>1. /\ cancelled' \in SUBSET Conns
        /\ link' \in [Conns -> LinkStates] /\ wire' \in [Conns -> SUBSET Requests]
    BY <1>2, CancelType DEF PingCancel
  <2>2. QED
    BY <1>2, <2>1 DEF TypeOK, PingCancel, PingAt
<1>3. ASSUME NEW c \in Conns, PingStops(c) PROVE TypeOK'
  BY <1>3 DEF TypeOK, PingStops, PingAt
<1>4. ASSUME NEW c \in Conns, Lose(c) PROVE TypeOK'
  <2>1. link' \in [Conns -> LinkStates] /\ wire' \in [Conns -> SUBSET Requests]
    BY <1>4, SeverType DEF Lose
  <2>2. losses' \in 0 .. MaxLosses
    <3>1. losses < MaxLosses /\ losses' = losses + 1
      BY <1>4 DEF Lose
    <3>2. QED
      BY <3>1, LossType
  <2>3. QED
    BY <1>4, <2>1, <2>2 DEF TypeOK, Lose
<1>5. ASSUME NEW k \in Closers, CloseCheck(k) PROVE TypeOK'
  <2>1. /\ [closer EXCEPT ![k] = "wait"] \in [Closers -> CloserAt]
        /\ [closer EXCEPT ![k] = "asleep"] \in [Closers -> CloserAt]
        /\ [closer EXCEPT ![k] = "close"] \in [Closers -> CloserAt]
    BY DEF TypeOK, CloserAt
  <2>2. Wake([closer EXCEPT ![k] = "close"]) \in [Closers -> CloserAt]
    BY <2>1, WakeType
  <2>3. closer' \in [Closers -> CloserAt]
    BY <1>5, <2>1, <2>2 DEF CloseCheck
  <2>4. /\ closing' \in [Closers -> Conns \cup {NoConn}]
        /\ state' \in {"Running", "Recovering", "Closing", "Closed"}
    BY <1>5 DEF TypeOK, CloseCheck
  <2>5. QED
    BY <1>5, <2>3, <2>4 DEF TypeOK, CloseCheck
<1>6. ASSUME NEW k \in Closers, CloseNoConn(k) PROVE TypeOK'
  <2>1. [closer EXCEPT ![k] = "wait"] \in [Closers -> CloserAt]
    BY DEF TypeOK, CloserAt
  <2>2. /\ exitErr' \in {"none", "nil", "err"} /\ activeReqs' = activeReqs
        /\ state' \in {"Running", "Recovering", "Closing", "Closed"}
        /\ closer' \in [Closers -> CloserAt]
    BY <1>6, <2>1, ExitType DEF CloseNoConn
  <2>3. QED
    BY <1>6, <2>2 DEF TypeOK, CloseNoConn
<1>7. ASSUME NEW k \in Closers, CloseHandshake(k) PROVE TypeOK'
  <2>1. link' \in [Conns -> LinkStates] /\ wire' \in [Conns -> SUBSET Requests]
    BY <1>7, SeverType DEF CloseHandshake
  <2>2. closer' \in [Closers -> CloserAt]
    BY <1>7 DEF TypeOK, CloseHandshake, CloserAt
  <2>3. QED
    BY <1>7, <2>1, <2>2 DEF TypeOK, CloseHandshake
<1>8. ASSUME NEW k \in Closers, CloseFails(k) PROVE TypeOK'
  <2>1. /\ cancelled' \in SUBSET Conns
        /\ link' \in [Conns -> LinkStates] /\ wire' \in [Conns -> SUBSET Requests]
    BY <1>8, CancelType DEF CloseFails
  <2>2. connErr' \in {"none", "normal", "io"} /\ connErrLock' \in BOOLEAN
    BY <1>8, RecordErrType DEF CloseFails
  <2>3. closer' \in [Closers -> CloserAt]
    BY <1>8 DEF TypeOK, CloseFails, CloserAt
  <2>4. QED
    BY <1>8, <2>1, <2>2, <2>3 DEF TypeOK, CloseFails
<1>9. ASSUME NEW k \in Closers, CloseReturns(k) PROVE TypeOK'
  BY <1>9 DEF TypeOK, CloseReturns, CloserAt
<1>10. QED
  BY <1>1, <1>2, <1>3, <1>4, <1>5, <1>6, <1>7, <1>8, <1>9 DEF OtherNext, PingNext, CloserNext

-----------------------------------------------------------------------------
(***************************************************************************)
(* Which goroutine touches what.                                           *)
(***************************************************************************)
\* Callers leave the session's state, its loops and exitErr alone.
LEMMA CallerFrame ==
  ASSUME NEW p \in Callers, CallerNext(p)
  PROVE  UNCHANGED <<state, exitErr, loop, scan, grace, hand>>
  BY DEF CallerNext, Admit, PickMark, SendCommand, SendOpen, SendData, SendEnd, CallerSend, Receive,
         Release, Uncount, lifeVars, loopVars

\* Read loops leave the callers, their marks and their count alone.
LEMMA LoopFrame ==
  ASSUME NEW c \in Conns, LoopNext(c)
  PROVE  UNCHANGED <<pc, req, marks, activeReqs>>
  BY DEF LoopNext, ReadMessage, Deliver, ReadFails, StopLifecycle, StopDetach, StopUnlock,
         NotifyLook, NotifyPush, NotifyDone, RedialFails, RedialSucceeds, TakeConn, TakeContext,
         Resume, Exit, lifeVars, markVars, callVars

\* Ping loops, Close and the network leave callers, marks and loops alone.
LEMMA OtherFrame ==
  ASSUME OtherNext
  PROVE  UNCHANGED <<pc, req, marks, responses, activeReqs, loop, scan, grace, hand>>
  BY DEF OtherNext, PingNext, CloserNext, PingFails, PingCancel, PingStops, Lose, CloseCheck,
         CloseNoConn, CloseHandshake, CloseFails, CloseReturns, Exit, lifeVars, markVars, callVars,
         loopVars

\* What a read loop's step makes of the loops: its own moves on, and
\* TakeContext starts the next one.
LEMMA LoopMoves ==
  ASSUME NEW c \in Conns, LoopNext(c)
  PROVE  /\ loop[c] # "off"
         /\ \/ \E to \in LoopAt \ {"off"} :
                 loop' = [loop EXCEPT ![c] = to] /\ (loop[c] = "resume" => to = "done")
            \/ /\ loop[c] = "context"
               /\ loop' = [loop EXCEPT ![c] = "resume", ![c + 1] = "read"]
            \/ loop[c] # "resume" /\ loop' = loop
         /\ loop[c] # "done"
<1> USE DEF Goto, LoopAt
<1>1. CASE ReadMessage(c) \/ Deliver(c) \/ ReadFails(c) \/ StopLifecycle(c) \/ StopDetach(c) \/ StopUnlock(c)
  BY <1>1 DEF ReadMessage, Deliver, ReadFails, StopLifecycle, StopDetach, StopUnlock
<1>2. CASE NotifyLook(c) \/ NotifyPush(c) \/ NotifyDone(c)
  BY <1>2 DEF NotifyLook, NotifyPush, NotifyDone
<1>3. CASE RedialFails(c) \/ RedialSucceeds(c) \/ TakeConn(c) \/ TakeContext(c) \/ Resume(c)
  BY <1>3 DEF RedialFails, RedialSucceeds, TakeConn, TakeContext, Resume
<1>4. QED
  BY <1>1, <1>2, <1>3 DEF LoopNext

(***************************************************************************)
(* Each part of the invariant is kept by every step.                       *)
(***************************************************************************)
\* NotifyLook checks the mark it will notify, RedialSucceeds the connection.
LEMMA LoopPlaceKept ==
  ASSUME TypeOK, LoopPlace, OneReader, [Next]_vars
  PROVE  LoopPlace'
<1>1. CASE \E c \in Conns : LoopNext(c)
  <2> PICK c \in Conns : LoopNext(c)
    BY <1>1
  <2> USE ConstantsAssumption DEF ConstantsAssumption, Goto
  <2>1. CASE ReadMessage(c) \/ Deliver(c) \/ ReadFails(c) \/ StopLifecycle(c) \/ StopDetach(c)
             \/ StopUnlock(c) \/ RedialFails(c) \/ Resume(c) \/ NotifyDone(c)
    <3>1. /\ UNCHANGED scan
          /\ \E to \in {"deliver", "read", "stop", "detach", "unlock", "notify", "done", "redial"} :
               loop' = [loop EXCEPT ![c] = to]
      BY <2>1 DEF ReadMessage, Deliver, ReadFails, StopLifecycle, StopDetach, StopUnlock,
         RedialFails, Resume, NotifyDone, loopVars
    <3>2. QED
      BY <3>1 DEF TypeOK, LoopPlace
  <2>2. CASE NotifyLook(c) \/ NotifyPush(c)
    <3>1. CASE NotifyLook(c)
      <4>1. /\ loop[c] = "notify" /\ scan[c] < NMarks
            /\ \/ scan' = [scan EXCEPT ![c] = @ + 1] /\ loop' = loop
               \/ loop' = [loop EXCEPT ![c] = "push"] /\ scan' = scan
        BY <3>1 DEF NotifyLook
      <4>2. QED
        BY <4>1 DEF TypeOK, LoopPlace
    <3>2. CASE NotifyPush(c)
      <4>1. scan' = [scan EXCEPT ![c] = @ + 1] /\ loop' = [loop EXCEPT ![c] = "notify"]
        BY <3>2 DEF NotifyPush
      <4>2. QED
        BY <4>1 DEF TypeOK, LoopPlace
    <3>3. QED
      BY <2>2, <3>1, <3>2
  <2>3. CASE RedialSucceeds(c) \/ TakeConn(c)
    BY <2>3 DEF TypeOK, LoopPlace, RedialSucceeds, TakeConn
  <2>4. CASE TakeContext(c)
    BY <2>4 DEF TypeOK, LoopPlace, TakeContext
  <2>5. QED
    BY <2>1, <2>2, <2>3, <2>4 DEF LoopNext
<1>2. CASE UNCHANGED <<loop, scan>>
  BY <1>2 DEF LoopPlace
<1>3. QED
  BY <1>1, <1>2, CallerFrame, OtherFrame DEF Next, OtherNext, vars, loopVars

\* The loops start one after the other.
LEMMA OneReaderKept ==
  ASSUME TypeOK, LoopPlace, OneReader, [Next]_vars
  PROVE  OneReader'
<1>1. CASE \E c \in Conns : LoopNext(c)
  <2> PICK c \in Conns : LoopNext(c)
    BY <1>1
  <2> SUFFICES ASSUME NEW a \in Conns, NEW b \in Conns, a < b, loop'[b] # "off"
               PROVE  loop'[a] \in {"resume", "done"}
    BY DEF OneReader
  <2>1. \A d \in Conns : /\ d < c => loop[d] \in {"resume", "done"}
                         /\ c < d /\ loop[c] # "resume" => loop[d] = "off"
    BY LoopMoves DEF OneReader
  <2>0. loop[c] # "off"
    BY LoopMoves
  <2>2. CASE \E to \in LoopAt \ {"off"} :
               loop' = [loop EXCEPT ![c] = to] /\ (loop[c] = "resume" => to = "done")
    <3>1. /\ \A d \in Conns : d # c => loop'[d] = loop[d]
          /\ loop[c] = "resume" => loop'[c] = "done"
      BY <2>2 DEF TypeOK
    <3>2. loop[b] # "off"
      BY <2>0, <3>1
    <3>3. loop[a] \in {"resume", "done"}
      BY <3>2 DEF OneReader
    <3>4. CASE a = c
      <4>1. loop[c] = "resume"
        BY <2>1, <3>2, <3>4
      <4>2. QED
        BY <3>1, <3>4, <4>1
    <3>5. QED
      BY <3>1, <3>3, <3>4
  <2>3. CASE loop[c] = "context" /\ loop' = [loop EXCEPT ![c] = "resume", ![c + 1] = "read"]
    <3>0. c \in Int /\ a \in Int /\ b \in Int /\ c # c + 1
      BY DEF Conns
    <3>1. /\ \A d \in Conns : d # c /\ d # c + 1 => loop'[d] = loop[d]
          /\ loop'[c] = "resume"
      BY <2>3, <3>0 DEF TypeOK
    <3>2. CASE b = c \/ b = c + 1
      <4>1. a < c \/ a = c
        BY <3>0, <3>2
      <4>2. CASE a < c
        <5>1. a # c /\ a # c + 1
          BY <3>0, <4>2
        <5>2. QED
          BY <2>1, <3>1, <4>2, <5>1
      <4>3. QED
        BY <3>1, <4>1, <4>2
    <3>3. CASE b # c /\ b # c + 1
      <4>1. b < c
        <5>1. loop[b] # "off"
          BY <3>1, <3>3
        <5>2. ~(c < b)
          BY <2>1, <2>3, <5>1
        <5>3. QED
          BY <3>0, <3>3, <5>2
      <4>2. a < c /\ a # c /\ a # c + 1
        BY <3>0, <4>1
      <4>3. QED
        BY <2>1, <3>1, <4>2
    <3>4. QED
      BY <3>2, <3>3
  <2>4. CASE loop' = loop
    BY <2>4 DEF OneReader
  <2>5. QED
    BY <2>2, <2>3, <2>4, LoopMoves
<1>2. CASE UNCHANGED loop
  BY <1>2 DEF OneReader
<1>3. QED
  BY <1>1, <1>2, CallerFrame, OtherFrame DEF Next, OtherNext, vars, loopVars

\* connErrLock is only unlocked by the one loop that is stopping.
LEMMA ErrLockKept ==
  ASSUME TypeOK, LoopPlace, OneReader, ErrLockHeld, [Next]_vars
  PROVE  ErrLockHeld'
<1>1. CASE connErrLock' = connErrLock \/ connErrLock' = TRUE
  <2>1. CASE \E c \in Conns : LoopNext(c)
    <3> PICK c \in Conns : LoopNext(c)
      BY <2>1
    <3>1. CASE ReadFails(c)
      BY <3>1 DEF ErrLockHeld, ReadFails, RecordErr
    <3>2. CASE StopUnlock(c)
      BY <3>2, <1>1 DEF TypeOK, ErrLockHeld, StopUnlock, Goto
    <3>3. CASE \/ ReadMessage(c) \/ Deliver(c) \/ StopLifecycle(c) \/ StopDetach(c) \/ NotifyLook(c)
               \/ NotifyPush(c) \/ NotifyDone(c) \/ RedialFails(c) \/ RedialSucceeds(c)
               \/ TakeConn(c) \/ TakeContext(c) \/ Resume(c)
      BY <3>3, <1>1 DEF TypeOK, ErrLockHeld, Goto, ReadMessage, Deliver, StopLifecycle, StopDetach,
         NotifyLook, NotifyPush, NotifyDone, RedialFails, RedialSucceeds, TakeConn, TakeContext,
         Resume
    <3>4. QED
      BY <3>1, <3>2, <3>3 DEF LoopNext
  <2>2. CASE UNCHANGED loop
    BY <1>1, <2>2 DEF ErrLockHeld
  <2>3. QED
    BY <2>1, <2>2, CallerFrame, OtherFrame DEF Next, OtherNext, vars, loopVars
<1>2. CASE \E c \in Conns : StopUnlock(c)
  <2> PICK c \in Conns : StopUnlock(c)
    BY <1>2
  <2>1. \A d \in Conns : d # c => loop[d] \in {"off", "resume", "done"}
    <3> SUFFICES ASSUME NEW d \in Conns, d # c PROVE loop[d] \in {"off", "resume", "done"}
      OBVIOUS
    <3>1. loop[c] = "unlock"
      BY DEF StopUnlock
    <3>2. c < d \/ d < c
      BY DEF Conns
    <3>3. QED
      BY <3>1, <3>2 DEF OneReader
  <2>2. QED
    BY <2>1 DEF TypeOK, ErrLockHeld, StopUnlock, Goto
<1>3. CASE UNCHANGED vars
  BY <1>3, <1>1 DEF vars, errVars
<1>4. ASSUME NEW p \in Callers, CallerNext(p) PROVE connErrLock' \in {connErrLock, TRUE}
  BY <1>4 DEF CallerNext, Admit, PickMark, SendCommand, SendOpen, SendData, SendEnd, CallerSend,
     Written, WriteBreaks, NoConnection, RecordErr, Receive, Release, Uncount, errVars
<1>5. ASSUME NEW c \in Conns, LoopNext(c), ~StopUnlock(c) PROVE connErrLock' \in {connErrLock, TRUE}
  BY <1>5 DEF LoopNext, ReadMessage, Deliver, ReadFails, StopLifecycle, StopDetach, NotifyLook,
     NotifyPush, NotifyDone, RedialFails, RedialSucceeds, TakeConn, TakeContext, Resume, RecordErr,
     errVars
<1>6. ASSUME OtherNext PROVE connErrLock' \in {connErrLock, TRUE}
  BY <1>6 DEF OtherNext, PingNext, CloserNext, PingFails, PingCancel, PingStops, Lose, CloseCheck,
     CloseNoConn, CloseHandshake, CloseFails, CloseReturns, RecordErr, errVars
<1>7. QED
  BY <1>1, <1>2, <1>3, <1>4, <1>5, <1>6 DEF Next, OtherNext

\* The set of counted commands is finite.
LEMMA CountedFinite == IsFiniteSet(Counted)
  BY ConstantsAssumption, FS_Subset DEF ConstantsAssumption, Counted

\* Admit and Uncount move the count with the set it counts.
LEMMA ActiveReqsKept ==
  ASSUME TypeOK, ActiveReqsCount, [Next]_vars
  PROVE  ActiveReqsCount'
<1>1. ASSUME NEW p \in Callers, CallerNext(p) PROVE ActiveReqsCount'
  <2>1. CASE Admit(p)
    <3>1. CASE Refused
      BY <2>1, <3>1 DEF Admit, ActiveReqsCount, Counted
    <3>2. CASE ~Refused
      <4>1. p \notin Counted /\ Counted' = Counted \cup {p}
        BY <2>1, <3>2 DEF Admit, Counted, TypeOK
      <4>2. Cardinality(Counted') = Cardinality(Counted) + 1
        BY <4>1, CountedFinite, FS_AddElement
      <4>3. QED
        BY <2>1, <3>2, <4>2 DEF Admit, CountUp, ActiveReqsCount
    <3>3. QED
      BY <3>1, <3>2
  <2>2. CASE Uncount(p)
    <3>1. p \in Counted /\ Counted' = Counted \ {p}
      BY <2>2 DEF Uncount, Step, Counted, TypeOK
    <3>2. Cardinality(Counted') = Cardinality(Counted) - 1
      BY <3>1, CountedFinite, FS_RemoveElement
    <3>3. QED
      BY <2>2, <3>2 DEF Uncount, ActiveReqsCount
  <2>3. CASE \/ PickMark(p) \/ SendCommand(p) \/ SendOpen(p) \/ SendData(p) \/ SendEnd(p)
             \/ Receive(p) \/ Release(p)
    <3>1. Counted' = Counted
      BY <2>3 DEF PickMark, SendCommand, SendOpen, SendData, SendEnd, CallerSend, Receive, Release,
         Step, Counted, TypeOK
    <3>2. activeReqs' = activeReqs
      BY <2>3 DEF PickMark, SendCommand, SendOpen, SendData, SendEnd, CallerSend, Receive, Release,
         lifeVars
    <3>3. QED
      BY <3>1, <3>2 DEF ActiveReqsCount
  <2>4. QED
    BY <1>1, <2>1, <2>2, <2>3 DEF CallerNext
<1>2. CASE UNCHANGED <<pc, activeReqs>>
  BY <1>2 DEF ActiveReqsCount, Counted
<1>3. QED
  BY <1>1, <1>2, LoopFrame, OtherFrame DEF Next, OtherNext, vars, callVars, lifeVars

\* Two callers that hold a mark hold different ones.
LEMMA MarksDiffer ==
  ASSUME MarksExclusive, NEW q \in Callers, NEW r \in Callers, Holding(q), Holding(r), q # r
  PROVE  req[q].mark # req[r].mark
  BY DEF MarksExclusive

\* A step that moves no caller in or out of its mark.
LEMMA MarksFrame ==
  ASSUME MarksExclusive, marks' = marks,
         \A q \in Callers : (Holding(q))' <=> Holding(q),
         \A q \in Callers : Holding(q) => req'[q].mark = req[q].mark
  PROVE  MarksExclusive'
<1>1. \A q, r \in Callers : (Holding(q))' /\ (Holding(r))' /\ q # r => req'[q].mark # req'[r].mark
  <2> SUFFICES ASSUME NEW q \in Callers, NEW r \in Callers, (Holding(q))', (Holding(r))', q # r
               PROVE  req'[q].mark # req'[r].mark
    OBVIOUS
  <2>1. Holding(q) /\ Holding(r)
    OBVIOUS
  <2>2. QED
    BY <2>1, MarksDiffer
<1>2. ASSUME NEW m \in Marks
      PROVE  marks'[m] <=> \E q \in Callers : (Holding(q))' /\ req'[q].mark = m
  <2>1. marks[m] <=> \E q \in Callers : Holding(q) /\ req[q].mark = m
    BY DEF MarksExclusive
  <2>2. QED
    BY <2>1
<1>3. QED
  BY <1>1, <1>2 DEF MarksExclusive

\* newClientMark takes a free mark, releaseClientMark gives back the caller's.
LEMMA MarksKept ==
  ASSUME TypeOK, MarksExclusive, [Next]_vars
  PROVE  MarksExclusive'
<1>1. ASSUME NEW p \in Callers, CallerNext(p) PROVE MarksExclusive'
  <2> USE DEF Holding
  <2>0. \A q \in Callers : req[q] \in Requests /\ req[q].mark \in Marks
    BY DEF TypeOK, Requests
  <2>1. CASE Admit(p)
    <3>1. \A q \in Callers : (Holding(q))' <=> Holding(q)
      BY <2>1 DEF Admit, TypeOK
    <3>2. \A q \in Callers : Holding(q) => req'[q] = req[q]
      BY <2>1 DEF Admit, TypeOK
    <3>3. marks' = marks
      BY <2>1 DEF Admit, markVars
    <3>4. QED
      BY <3>1, <3>2, <3>3, MarksFrame
  <2>2. CASE PickMark(p)
    <3> DEFINE v == (lastMark + 1) % NMarks
    <3>0. v \in Marks
      BY NextMark DEF TypeOK
    <3> HIDE DEF v
    <3>1. CASE Free(v)
      <4>1. /\ marks' = [marks EXCEPT ![v] = TRUE] /\ pc' = [pc EXCEPT ![p] = "send"]
            /\ req' = [req EXCEPT ![p].mark = v] /\ pc[p] = "pick"
        BY <2>2, <3>1 DEF PickMark, v
      <4>2. ~marks[v] /\ \A q \in Callers : Holding(q) => req[q].mark # v
        BY <3>0, <3>1 DEF Free, MarksExclusive
      <4>3. /\ (Holding(p))' /\ ~Holding(p) /\ req'[p].mark = v
            /\ \A q \in Callers \ {p} : ((Holding(q))' <=> Holding(q)) /\ req'[q] = req[q]
        BY <2>0, <4>1 DEF TypeOK, Requests
      <4>4. \A m \in Marks : marks'[m] <=> (m = v \/ marks[m])
        BY <4>1 DEF TypeOK
      <4> HIDE DEF Holding
      <4>5. \A q, r \in Callers : (Holding(q))' /\ (Holding(r))' /\ q # r
                                  => req'[q].mark # req'[r].mark
        <5> SUFFICES ASSUME NEW q \in Callers, NEW r \in Callers, (Holding(q))', (Holding(r))', q # r
                     PROVE  req'[q].mark # req'[r].mark
          OBVIOUS
        <5>1. CASE q = p
          BY <4>2, <4>3, <5>1
        <5>2. CASE r = p
          BY <4>2, <4>3, <5>2
        <5>3. CASE q # p /\ r # p
          <6>1. Holding(q) /\ Holding(r) /\ req'[q] = req[q] /\ req'[r] = req[r]
            BY <4>3, <5>3
          <6>2. req[q].mark # req[r].mark
            BY <6>1, MarksDiffer
          <6>3. QED
            BY <6>1, <6>2
        <5>4. QED
          BY <5>1, <5>2, <5>3
      <4>6. ASSUME NEW m \in Marks
            PROVE  marks'[m] <=> \E q \in Callers : (Holding(q))' /\ req'[q].mark = m
        <5>1. CASE m = v
          BY <4>3, <4>4, <5>1
        <5>2. CASE m # v
          <6>1. marks'[m] <=> \E q \in Callers : Holding(q) /\ req[q].mark = m
            BY <4>4, <5>2 DEF MarksExclusive
          <6>2. QED
            BY <4>3, <5>2, <6>1
        <5>3. QED
          BY <5>1, <5>2
      <4>7. QED
        BY <4>5, <4>6 DEF MarksExclusive
    <3>2. CASE ~Free(v)
      BY <2>2, <3>2 DEF PickMark, MarksExclusive, v
    <3>3. QED
      BY <3>1, <3>2
  <2>3. CASE SendCommand(p) \/ SendOpen(p) \/ SendData(p) \/ SendEnd(p)
    <3>1. /\ marks' = marks /\ pc[p] \in {"send", "stream"}
          /\ \E to \in {"wait", "stream", "release"} : pc' = [pc EXCEPT ![p] = to]
          /\ \/ req' = req
             \/ \E kind \in ReqKinds : req' = [req EXCEPT ![p].conn = conn, ![p].kind = kind]
      BY <2>0, <2>3 DEF SendCommand, SendOpen, SendData, SendEnd, CallerSend, Step, markVars,
         Requests, ReqKinds, AllKinds
    <3>2. \A q \in Callers : ((Holding(q))' <=> Holding(q)) /\ req'[q].mark = req[q].mark
      BY <2>0, <3>1 DEF TypeOK, Requests
    <3>3. QED
      BY <3>1, <3>2, MarksFrame
  <2>4. CASE Receive(p)
    <3>1. \A q \in Callers : ((Holding(q))' <=> Holding(q)) /\ req'[q] = req[q]
      BY <2>4 DEF Receive, Step, TypeOK
    <3>2. QED
      BY <2>4, <3>1, MarksFrame DEF Receive
  <2>5. CASE Release(p)
    <3>1. /\ Holding(p) /\ ~(Holding(p))'
          /\ \A q \in Callers : (q # p => ((Holding(q))' <=> Holding(q))) /\ req'[q] = req[q]
      BY <2>5 DEF Release, Step, TypeOK
    <3>2. \A m \in Marks : marks'[m] <=> (m # req[p].mark /\ marks[m])
      BY <2>0, <2>5 DEF Release, TypeOK
    <3> HIDE DEF Holding
    <3>3. \A q, r \in Callers : (Holding(q))' /\ (Holding(r))' /\ q # r
                                => req'[q].mark # req'[r].mark
      <4> SUFFICES ASSUME NEW q \in Callers, NEW r \in Callers, (Holding(q))', (Holding(r))', q # r
                   PROVE  req'[q].mark # req'[r].mark
        OBVIOUS
      <4>1. Holding(q) /\ Holding(r) /\ req'[q] = req[q] /\ req'[r] = req[r]
        BY <3>1
      <4>2. req[q].mark # req[r].mark
        BY <4>1, MarksDiffer
      <4>3. QED
        BY <4>1, <4>2
    <3>4. ASSUME NEW m \in Marks
          PROVE  marks'[m] <=> \E q \in Callers : (Holding(q))' /\ req'[q].mark = m
      <4>1. CASE m = req[p].mark
        <5>1. \A q \in Callers : q # p /\ Holding(q) => req[q].mark # m
          BY <3>1, <4>1 DEF MarksExclusive
        <5>2. QED
          BY <3>1, <3>2, <4>1, <5>1
      <4>2. CASE m # req[p].mark
        <5>1. marks'[m] <=> \E q \in Callers : Holding(q) /\ req[q].mark = m
          BY <3>2, <4>2 DEF MarksExclusive
        <5>2. QED
          BY <3>1, <4>2, <5>1
      <4>3. QED
        BY <4>1, <4>2
    <3>5. QED
      BY <3>3, <3>4 DEF MarksExclusive
  <2>6. CASE Uncount(p)
    <3>1. \A q \in Callers : ((Holding(q))' <=> Holding(q)) /\ (Holding(q) => req'[q] = req[q])
      BY <2>6 DEF Uncount, Step, TypeOK
    <3>2. marks' = marks
      BY <2>6 DEF Uncount, markVars
    <3>3. QED
      BY <3>1, <3>2, MarksFrame
  <2>7. QED
    BY <1>1, <2>1, <2>2, <2>3, <2>4, <2>5, <2>6 DEF CallerNext
<1>2. CASE UNCHANGED <<pc, req, marks>>
  BY <1>2 DEF MarksExclusive, Holding
<1>3. QED
  BY <1>1, <1>2, LoopFrame, OtherFrame DEF Next, OtherNext, vars, callVars, markVars

\* stopConn found the session closing: it has no commands any more, and it
\* will not run again.
GraceClosing == \A c \in Conns : grace[c] => Counted = {} /\ state \in {"Closing", "Closed"}

\* No peer sends the synthetic "Session closed" response.
NoClosedHand == \A c \in Conns : hand[c].code # "CLOSED"

\* exit sets exitErr and state together.
ExitClosed == exitErr # "none" => state = "Closed"

\* How state moves: closed is final, closing only leads to closed, Close
\* starts closing with no command counted, and exit is the only end.
LEMMA StateMoves ==
  ASSUME TypeOK, ExitClosed, [Next]_vars
  PROVE  /\ state = "Closed" => state' = "Closed"
         /\ state = "Closing" => state' \in {"Closing", "Closed"}
         /\ state' = "Closing" => state = "Closing" \/ (activeReqs = 0 /\ UNCHANGED <<pc, grace>>)
         /\ exitErr # "none" => exitErr' = exitErr
         /\ exitErr' # "none" => state' = "Closed"
<1> USE DEF Exit, lifeVars, callVars, loopVars, ExitClosed
<1>1. ASSUME NEW c \in Conns, StopLifecycle(c) \/ NotifyDone(c) \/ RedialFails(c) \/ Resume(c)
      PROVE  /\ state = "Closed" => state' = "Closed"
             /\ state = "Closing" => state' \in {"Closing", "Closed"}
             /\ state' = "Closing" => state = "Closing"
             /\ exitErr # "none" => exitErr' = exitErr
             /\ exitErr' # "none" => state' = "Closed"
  BY <1>1 DEF StopLifecycle, NotifyDone, RedialFails, Resume
<1>2. ASSUME NEW c \in Conns,
             \/ ReadMessage(c) \/ Deliver(c) \/ ReadFails(c) \/ StopDetach(c) \/ StopUnlock(c)
             \/ NotifyLook(c) \/ NotifyPush(c) \/ RedialSucceeds(c) \/ TakeConn(c) \/ TakeContext(c)
             \/ PingNext(c) \/ Lose(c)
      PROVE  UNCHANGED <<state, exitErr>>
  BY <1>2 DEF ReadMessage, Deliver, ReadFails, StopDetach, StopUnlock, NotifyLook, NotifyPush,
     RedialSucceeds, TakeConn, TakeContext, PingNext, PingFails, PingCancel, PingStops, Lose
<1>3. ASSUME NEW k \in Closers, CloserNext(k)
      PROVE  /\ state = "Closed" => state' = "Closed"
             /\ state = "Closing" => state' \in {"Closing", "Closed"}
             /\ state' = "Closing" => state = "Closing" \/ (activeReqs = 0 /\ UNCHANGED <<pc, grace>>)
             /\ exitErr # "none" => exitErr' = exitErr
             /\ exitErr' # "none" => state' = "Closed"
  BY <1>3 DEF CloserNext, CloseCheck, CloseNoConn, CloseHandshake, CloseFails, CloseReturns, Drained
<1>4. CASE UNCHANGED <<state, exitErr>>
  BY <1>4
<1>5. QED
  BY <1>1, <1>2, <1>3, <1>4, CallerFrame DEF Next, LoopNext, vars

\* No command starts once the session is closing.
LEMMA NoneAdmitted ==
  ASSUME TypeOK, [Next]_vars, state \in {"Closing", "Closed"}, Counted = {}
  PROVE  Counted' = {}
<1>1. ASSUME NEW p \in Callers, CallerNext(p) PROVE pc' = pc
  BY <1>1 DEF CallerNext, Counted, Admit, Refused, PickMark, SendCommand, SendOpen, SendData,
     SendEnd, Receive, Release, Uncount
<1>2. QED
  BY <1>1, LoopFrame, OtherFrame DEF Next, OtherNext, Counted, vars, callVars

\* Close turns to closing with every command finished, and it stays so.
LEMMA ClosingKept ==
  ASSUME TypeOK, ActiveReqsCount, ClosingDrained, GraceClosing, ExitClosed, [Next]_vars
  PROVE  ClosingDrained' /\ GraceClosing'
<1>1. ClosingDrained'
  <2> SUFFICES ASSUME state' = "Closing" PROVE Counted' = {}
    BY DEF ClosingDrained
  <2>1. CASE state = "Closing"
    BY <2>1, NoneAdmitted DEF ClosingDrained
  <2>2. CASE activeReqs = 0 /\ UNCHANGED pc
    <3>1. Counted = {}
      BY <2>2, CountedFinite, FS_EmptySet DEF ActiveReqsCount
    <3>2. QED
      BY <2>2, <3>1 DEF Counted
  <2>3. QED
    BY <2>1, <2>2, StateMoves
<1>2. GraceClosing'
  <2> SUFFICES ASSUME NEW c \in Conns, grace'[c]
               PROVE  Counted' = {} /\ state' \in {"Closing", "Closed"}
    BY DEF GraceClosing
  <2>1. grace[c] \/ state = "Closing"
    <3>1. ASSUME NEW d \in Conns, LoopNext(d) PROVE grace[c] \/ state = "Closing"
      BY <3>1 DEF TypeOK, LoopNext, ReadMessage, Deliver, ReadFails, StopLifecycle, StopDetach,
         StopUnlock, NotifyLook, NotifyPush, NotifyDone, RedialFails, RedialSucceeds, TakeConn,
         TakeContext, Resume, loopVars
    <3>2. QED
      BY <3>1, CallerFrame, OtherFrame DEF Next, OtherNext, vars, loopVars
  <2>2. Counted = {} /\ state \in {"Closing", "Closed"}
    BY <2>1 DEF GraceClosing, ClosingDrained
  <2>3. QED
    BY <2>2, NoneAdmitted, StateMoves
<1>3. QED
  BY <1>1, <1>2

\* A graceful stopConn finds every mark free, and so pushes nothing.
LEMMA NoticeKept ==
  ASSUME TypeOK, MarksExclusive, GraceClosing, NoClosedHand, NoClosedNotice, LoopPlace, [Next]_vars
  PROVE  NoClosedHand' /\ NoClosedNotice'
<1>0. \A c \in Conns, m \in Marks : grace[c] => Free(m)
  BY DEF GraceClosing, MarksExclusive, Holding, Counted, Free
<1>1. ASSUME NEW c \in Conns, LoopNext(c) PROVE NoClosedHand' /\ NoClosedNotice'
  <2>1. CASE ReadMessage(c)
    <3>1. \A r \in wire[c] : \A a \in Answers(r) : a[1] # "CLOSED"
      BY ConstantsAssumption DEF Answers, ConstantsAssumption
    <3>2. PICK r \in wire[c] : \E a \in Answers(r) :
               hand' = [hand EXCEPT ![c] = Rsp(r.mark, r.id, r.conn, a[1])]
      BY <2>1 DEF ReadMessage
    <3>3. PICK a \in Answers(r) : hand' = [hand EXCEPT ![c] = Rsp(r.mark, r.id, r.conn, a[1])]
      BY <3>2
    <3>4. Rsp(r.mark, r.id, r.conn, a[1]).code # "CLOSED"
      BY <3>1, <3>3 DEF Rsp
    <3>5. NoClosedHand'
      BY <3>3, <3>4 DEF NoClosedHand, TypeOK
    <3>6. NoClosedNotice'
      BY <2>1 DEF ReadMessage, NoClosedNotice, TypeOK, Goto, markVars
    <3>7. QED
      BY <3>5, <3>6
  <2>2. CASE Deliver(c)
    <3>1. /\ hand' = [hand EXCEPT ![c] = Empty] /\ UNCHANGED grace
          /\ responses' = [responses EXCEPT ![hand[c].mark] = hand[c]]
          /\ loop' = [loop EXCEPT ![c] = "read"]
      BY <2>2 DEF Deliver, Goto
    <3>2. NoClosedHand'
      BY <3>1 DEF NoClosedHand, TypeOK, Empty
    <3>3. hand[c].code # "CLOSED"
      BY DEF NoClosedHand
    <3>4. \A m \in Marks : responses'[m].code # "CLOSED"
      BY <3>1, <3>3 DEF NoClosedNotice, TypeOK
    <3>5. \A d \in Conns : grace'[d] => loop'[d] # "push"
      BY <3>1 DEF NoClosedNotice, TypeOK
    <3>6. QED
      BY <3>2, <3>4, <3>5 DEF NoClosedNotice
  <2>3. CASE NotifyLook(c)
    <3>1. scan[c] \in Marks
      <4>1. scan[c] \in 0 .. NMarks /\ scan[c] < NMarks
        BY <2>3 DEF NotifyLook, TypeOK
      <4>2. QED
        BY <4>1, MarkBelow
    <3>2. /\ UNCHANGED <<responses, hand, grace>>
          /\ loop' = loop \/ (~Free(scan[c]) /\ loop' = [loop EXCEPT ![c] = "push"])
      BY <2>3 DEF NotifyLook, Goto, markVars
    <3>3. \A d \in Conns : grace'[d] => loop'[d] # "push"
      <4> SUFFICES ASSUME NEW d \in Conns, grace[d] PROVE loop'[d] # "push"
        BY <3>2
      <4>1. loop[d] # "push"
        BY DEF NoClosedNotice
      <4>2. Free(scan[c]) \/ d # c
        BY <1>0, <3>1
      <4>3. QED
        BY <3>2, <4>1, <4>2 DEF TypeOK
    <3>4. QED
      BY <3>2, <3>3 DEF NoClosedHand, NoClosedNotice
  <2>4. CASE NotifyPush(c)
    <3>1. scan[c] \in Marks /\ ~grace[c]
      <4>1. loop[c] = "push" /\ scan[c] \in 0 .. NMarks
        BY <2>4 DEF NotifyPush, TypeOK
      <4>2. scan[c] < NMarks /\ ~grace[c]
        BY <4>1 DEF LoopPlace, NoClosedNotice
      <4>3. QED
        BY <4>1, <4>2, MarkBelow
    <3>2. QED
      BY <2>4, <3>1 DEF NotifyPush, NoClosedHand, NoClosedNotice, TypeOK, Goto, Rsp
  <2>5. CASE StopLifecycle(c)
    BY <2>5 DEF StopLifecycle, NoClosedHand, NoClosedNotice, TypeOK, Goto, markVars
  <2>6. CASE \/ ReadFails(c) \/ StopDetach(c) \/ StopUnlock(c) \/ NotifyDone(c) \/ RedialFails(c)
             \/ RedialSucceeds(c) \/ TakeConn(c) \/ TakeContext(c) \/ Resume(c)
    BY <2>6 DEF ReadFails, StopDetach, StopUnlock, NotifyDone, RedialFails, RedialSucceeds, TakeConn,
       TakeContext, Resume, NoClosedHand, NoClosedNotice, TypeOK, Goto, markVars
  <2>7. QED
    BY <1>1, <2>1, <2>2, <2>3, <2>4, <2>5, <2>6 DEF LoopNext
<1>2. ASSUME NEW p \in Callers, CallerNext(p) PROVE NoClosedHand' /\ NoClosedNotice'
  <2>1. \A m \in Marks : responses'[m] \in {responses[m], Empty}
    BY <1>2 DEF TypeOK, CallerNext, Admit, PickMark, SendCommand, SendOpen, SendData, SendEnd,
       CallerSend, Receive, Release, Uncount, markVars
  <2>2. UNCHANGED <<loop, grace, hand>>
    BY <1>2, CallerFrame
  <2>3. NoClosedHand'
    BY <2>2 DEF NoClosedHand
  <2>4. Empty.code # "CLOSED"
    BY DEF Empty
  <2>5. \A m \in Marks : responses'[m].code # "CLOSED"
    BY <2>1, <2>4 DEF NoClosedNotice
  <2>6. NoClosedNotice'
    BY <2>2, <2>5 DEF NoClosedNotice
  <2>7. QED
    BY <2>3, <2>6
<1>3. CASE UNCHANGED <<responses, loop, grace, hand>>
  BY <1>3 DEF NoClosedHand, NoClosedNotice
<1>4. QED
  BY <1>1, <1>2, <1>3, OtherFrame DEF Next, OtherNext, vars, markVars, loopVars

-----------------------------------------------------------------------------
(***************************************************************************)
(* The inductive invariant and what follows from it.                       *)
(***************************************************************************)
IInv ==
  /\ TypeOK /\ LoopPlace
  /\ OneReader /\ ErrLockHeld
  /\ ActiveReqsCount /\ MarksExclusive
  /\ ClosingDrained /\ GraceClosing /\ ExitClosed
  /\ NoClosedHand /\ NoClosedNotice

LEMMA IInvInit == Init => IInv
<1> SUFFICES ASSUME Init PROVE IInv
  OBVIOUS
<1>1. TypeOK
  BY TypeInit
<1>2. LoopPlace /\ OneReader /\ ErrLockHeld
  <2>1. \A c \in Conns : loop[c] = (IF c = 1 THEN "read" ELSE "off")
    BY DEF Init
  <2>2. LoopPlace
    BY <2>1 DEF LoopPlace
  <2>3. \A c \in Conns : ~(c < 1)
    BY ConstantsAssumption DEF Conns, ConstantsAssumption
  <2>4. OneReader
    BY <2>1, <2>3 DEF OneReader
  <2>5. ErrLockHeld
    BY <2>1 DEF ErrLockHeld
  <2>6. QED
    BY <2>2, <2>4, <2>5
<1>3. Counted = {}
  BY DEF Init, Counted
<1>4. ActiveReqsCount
  BY <1>3, FS_EmptySet DEF Init, ActiveReqsCount
<1>5. MarksExclusive
  BY DEF Init, MarksExclusive, Holding
<1>6. ClosingDrained /\ GraceClosing /\ ExitClosed /\ NoClosedHand /\ NoClosedNotice
  BY DEF Init, ClosingDrained, GraceClosing, ExitClosed, NoClosedHand, NoClosedNotice, Empty
<1>7. QED
  BY <1>1, <1>2, <1>4, <1>5, <1>6 DEF IInv

LEMMA IInvNext == IInv /\ [Next]_vars => IInv'
<1> SUFFICES ASSUME IInv, [Next]_vars PROVE IInv'
  OBVIOUS
<1> USE DEF IInv
<1>1. TypeOK'
  <2>1. CASE UNCHANGED vars
    BY <2>1 DEF TypeOK, vars, lifeVars, markVars, errVars, linkVars, callVars, loopVars, closeVars
  <2>2. QED
    BY <2>1, TypeCaller, TypeLoop, TypeOther DEF Next, OtherNext
<1>2. LoopPlace' /\ OneReader' /\ ErrLockHeld'
  BY LoopPlaceKept, OneReaderKept, ErrLockKept
<1>3. ActiveReqsCount' /\ MarksExclusive'
  BY ActiveReqsKept, MarksKept
<1>4. ClosingDrained' /\ GraceClosing' /\ ExitClosed'
  BY ClosingKept, StateMoves DEF ExitClosed
<1>5. NoClosedHand' /\ NoClosedNotice'
  BY NoticeKept
<1>6. QED
  BY <1>1, <1>2, <1>3, <1>4, <1>5

\* The invariant holds in every behaviour of the session.
THEOREM Invariance == Spec => []IInv
  BY IInvInit, IInvNext, PTL DEF Spec

\* The session's fields keep their types, for any number of callers, of
\* marks and of reconnections.
THEOREM TypeCorrect == Spec => []TypeOK
<1>1. IInv => TypeOK
  BY DEF IInv
<1>2. QED
  BY <1>1, Invariance, PTL

\* newClientMark and releaseClientMark give every command in flight a mark
\* of its own, and lock exactly the marks in use.
THEOREM MarksAreExclusive == Spec => []MarksExclusive
<1>1. IInv => MarksExclusive
  BY DEF IInv
<1>2. QED
  BY <1>1, Invariance, PTL

\* activeReqs is the number of commands in flight, whatever recovery and
\* Close do meanwhile.
THEOREM CountIsExact == Spec => []ActiveReqsCount
<1>1. IInv => ActiveReqsCount
  BY DEF IInv
<1>2. QED
  BY <1>1, Invariance, PTL

\* Close starts its handshake with every command finished, and no command is
\* admitted afterwards.
THEOREM CloseDrains == Spec => []ClosingDrained
<1>1. IInv => ClosingDrained
  BY DEF IInv
<1>2. QED
  BY <1>1, Invariance, PTL

\* stopConn never unlocks a connErrLock that is not locked.
THEOREM UnlockIsPaired == Spec => []ErrLockHeld
<1>1. IInv => ErrLockHeld
  BY DEF IInv
<1>2. QED
  BY <1>1, Invariance, PTL

\* At most one connection's loop reads, stops or recovers.
THEOREM ReadersAreSequential == Spec => []OneReader
<1>1. IInv => OneReader
  BY DEF IInv
<1>2. QED
  BY <1>1, Invariance, PTL

\* Nobody is handed the "Session closed" response that WriteStream.Close
\* would wait past.
THEOREM ClosedNoticeUnused == Spec => []NoClosedNotice
<1>1. IInv => NoClosedNotice
  BY DEF IInv
<1>2. QED
  BY <1>1, Invariance, PTL

\* exit takes effect once: the first result stays and the session is closed.
THEOREM ExitIsFinal == Spec => ExitOnce
<1>1. IInv /\ [Next]_vars =>
        [exitErr # "none" => exitErr' = exitErr /\ state = "Closed" /\ state' = "Closed"]_vars
  BY StateMoves DEF IInv, ExitClosed
<1>2. QED
  BY <1>1, Invariance, PTL DEF Spec, ExitOnce

=============================================================================
