--------------------------- MODULE ClientSession ---------------------------
(***************************************************************************)
(* The mount client's session: callers that multiplex requests over one    *)
(* websocket with client marks, the read loop of each connection, its      *)
(* keepalive loop, the recovery the read loop performs when its connection *)
(* fails, and Close.  One action per critical section or blocking point of *)
(* src/internal/client/session/{session,writeStream}.go.                   *)
(*                                                                         *)
(* The websocket library and the server are the environment: a link is up  *)
(* until it is lost, cancelled or closed, and the server answers the       *)
(* requests it got as server/wsfs/{commands,session}.go do, in any order.  *)
(* Connections are numbered in the order they are dialed; the loop of      *)
(* connection c is the one that dials c + 1.                               *)
(***************************************************************************)
EXTENDS Naturals, FiniteSets

CONSTANTS
  Callers,    \* goroutines that issue commands (FUSE or WinFsp operations)
  Closers,    \* goroutines that call Close
  NMarks,     \* number of client marks, 256 in the code
  MaxConns,   \* bound: connections dialed in a behaviour
  MaxLosses,  \* bound: connection failures not caused by the client
  MaxCalls,   \* bound: commands issued
  Kinds,      \* the shapes of command in use, a subset of AllKinds
  PingOn,     \* pingInterval > 0
  StreamErrs  \* the codes a write stream's chunk may fail with

AllKinds == {"cmd", "read", "stream"}

ASSUME ConstantsAssumption ==
  /\ IsFiniteSet(Callers)
  /\ NMarks \in Nat \ {0}
  /\ MaxConns \in Nat \ {0}
  /\ MaxLosses \in Nat
  /\ MaxCalls \in Nat
  /\ Kinds \subseteq AllKinds
  /\ PingOn \in BOOLEAN
  /\ StreamErrs \subseteq {"ERR", "UNKNOWN"}

Marks == 0 .. NMarks - 1
Conns == 1 .. MaxConns
NoConn == 0

VARIABLES
  state,        \* Session.state
  activeReqs,   \* Session.activeReqs
  exitErr,      \* Session.exitErr, "none" until exit has run
  lastMark,     \* Session.lastMark
  marks,        \* Session.marks[m] is locked
  responses,    \* Session.responses[m], a channel of capacity one
  conn,         \* Session.conn
  ctx,          \* the connection whose context Session.connCtxCancel cancels
  connErr,      \* Session.connErr: "none", "normal" (close status) or "io"
  connErrLock,  \* Session.connErrLock is locked
  cancelled,    \* the connections whose context has been cancelled
  link,         \* state of each websocket
  wire,         \* requests each connection's peer has still to answer
  pc,           \* where each caller is
  req,          \* the caller's request
  nextId,       \* number of the next command
  loop,         \* where the read loop of each connection is
  hand,         \* the message that loop has read and not yet delivered
  scan,         \* the mark notifyAllMarks looks at
  grace,        \* gracefulClose of stopConn
  ping,         \* where the ping loop of each connection is
  closer,       \* where each caller of Close is
  closing,      \* the connection that call of Close closes
  losses,       \* connection failures so far
  early         \* history: a WriteStream.Close has returned at ErrorUnknown

lifeVars  == <<state, activeReqs, exitErr>>
markVars  == <<lastMark, marks, responses>>
errVars   == <<connErr, connErrLock>>
linkVars  == <<cancelled, link, wire>>
callVars  == <<pc, req, nextId, early>>
loopVars  == <<loop, hand, scan, grace>>
closeVars == <<closer, closing>>
vars == <<lifeVars, markVars, conn, ctx, errVars, linkVars, callVars,
          loopVars, ping, closeVars, losses>>

(***************************************************************************)
(* Requests and responses.  id and conn are the model's: the command a     *)
(* message answers, and the connection it was written to; kind tells what  *)
(* the server makes of it, and "refused" is the stream it did not open.    *)
(***************************************************************************)
ReqKinds == AllKinds \cup {"open", "openErr", "end", "stray", "refused"}
Requests == [mark : Marks, id : 0 .. MaxCalls, kind : ReqKinds, conn : Conns \cup {NoConn}]
NoReq == [mark |-> 0, id |-> 0, kind |-> "cmd", conn |-> NoConn]

\* OK ends a command, PARTIAL is ErrorPartialResponse, ERR any other error
\* code, UNKNOWN is ErrorUnknown, IOERR the synthetic "Session error mode"
\* response and CLOSED the synthetic "Session closed" response.
Codes == {"OK", "PARTIAL", "ERR", "UNKNOWN", "IOERR", "CLOSED"}
Rsp(m, i, c, code) == [mark |-> m, id |-> i, conn |-> c, code |-> code]
Responses == [mark : Marks, id : 0 .. MaxCalls, conn : Conns \cup {NoConn}, code : Codes]
Empty == [mark |-> 0, id |-> 0, conn |-> NoConn, code |-> "none"]

\* Where the goroutines can be, and what a websocket can be.
CallerAt == {"idle", "pick", "send", "stream", "wait", "release", "uncount"}
LoopAt == {"off", "read", "deliver", "stop", "detach", "unlock", "notify", "push", "redial",
           "take", "context", "resume", "done"}
PingAt == {"off", "run", "cancel", "done"}
CloserAt == {"idle", "check", "asleep", "close", "fail", "wait", "done"}
LinkStates == {"none", "up", "lost", "normal"}

TypeOK ==
  /\ state \in {"Running", "Recovering", "Closing", "Closed"}
  /\ activeReqs \in Nat
  /\ exitErr \in {"none", "nil", "err"}
  /\ lastMark \in Marks
  /\ marks \in [Marks -> BOOLEAN]
  /\ responses \in [Marks -> Responses \cup {Empty}]
  /\ conn \in Conns \cup {NoConn}
  /\ ctx \in Conns
  /\ connErr \in {"none", "normal", "io"}
  /\ connErrLock \in BOOLEAN
  /\ cancelled \in SUBSET Conns
  /\ link \in [Conns -> LinkStates]
  /\ wire \in [Conns -> SUBSET Requests]
  /\ pc \in [Callers -> CallerAt]
  /\ req \in [Callers -> Requests]
  /\ nextId \in 1 .. MaxCalls + 1
  /\ loop \in [Conns -> LoopAt]
  /\ hand \in [Conns -> Responses \cup {Empty}]
  /\ scan \in [Conns -> 0 .. NMarks]
  /\ grace \in [Conns -> BOOLEAN]
  /\ ping \in [Conns -> PingAt]
  /\ closer \in [Closers -> CloserAt]
  /\ closing \in [Closers -> Conns \cup {NoConn}]
  /\ losses \in 0 .. MaxLosses
  /\ early \in BOOLEAN

\* After NewSession and Start: the first connection is taken, its loops run.
Init ==
  /\ state = "Running" /\ activeReqs = 0 /\ exitErr = "none"
  /\ lastMark = 0
  /\ marks = [m \in Marks |-> FALSE]
  /\ responses = [m \in Marks |-> Empty]
  /\ conn = 1 /\ ctx = 1
  /\ connErr = "none" /\ connErrLock = FALSE
  /\ cancelled = {}
  /\ link = [c \in Conns |-> IF c = 1 THEN "up" ELSE "none"]
  /\ wire = [c \in Conns |-> {}]
  /\ pc = [p \in Callers |-> "idle"]
  /\ req = [p \in Callers |-> NoReq]
  /\ nextId = 1
  /\ loop = [c \in Conns |-> IF c = 1 THEN "read" ELSE "off"]
  /\ hand = [c \in Conns |-> Empty]
  /\ scan = [c \in Conns |-> 0]
  /\ grace = [c \in Conns |-> FALSE]
  /\ ping = [c \in Conns |-> IF c = 1 /\ PingOn THEN "run" ELSE "off"]
  /\ closer = [k \in Closers |-> "idle"]
  /\ closing = [k \in Closers |-> NoConn]
  /\ losses = 0 /\ early = FALSE

(***************************************************************************)
(* Shared steps.                                                           *)
(***************************************************************************)
\* lifecycleCond.Broadcast wakes every sleeping Close, which looks again.
Wake_Nobody(cl) == cl
Wake(cl) == [k \in Closers |-> IF cl[k] = "asleep" THEN "check" ELSE cl[k]]
Broadcast == closer' = Wake(closer)

\* if connErrLock.TryLock() { connErr = err }: the first error is kept.
RecordErr_NoLock(e) == connErr' = e /\ UNCHANGED connErrLock
RecordErr(e) ==
  /\ connErrLock' = TRUE
  /\ connErr' = IF connErrLock THEN connErr ELSE e

\* The connections of C that are up go down; what they carried is lost.
Sever(C, how) ==
  /\ link' = [c \in Conns |-> IF c \in C /\ link[c] = "up" THEN how ELSE link[c]]
  /\ wire' = [c \in Conns |-> IF c \in C THEN {} ELSE wire[c]]

\* connCtxCancel: the websocket of the current context closes.  C are other
\* connections that close with it.
Cancel(C) ==
  /\ cancelled' = cancelled \cup {ctx}
  /\ Sever({ctx} \cup C, "lost")

\* exitOnce.Do: the first call decides exitErr and closes the session.  cl
\* is where the calls of Close are after the step.
Exit_Again(e, cl) ==
  exitErr' = e /\ state' = "Closed" /\ closer' = Wake(cl) /\ UNCHANGED activeReqs
Exit(e, cl) ==
  /\ UNCHANGED activeReqs
  /\ IF exitErr = "none"
     THEN exitErr' = e /\ state' = "Closed" /\ closer' = Wake(cl)
     ELSE closer' = cl /\ UNCHANGED <<exitErr, state>>

(***************************************************************************)
(* Callers: newClientMark, send, receive, releaseClientMark.               *)
(***************************************************************************)
Refused_Closed == state = "Closed"
Refused == state \in {"Closing", "Closed"}

CountUp_Running == activeReqs' = IF state = "Running" THEN activeReqs + 1 ELSE activeReqs
CountUp == activeReqs' = activeReqs + 1

\* marks[m].TryLock() succeeds.
Free_Always(m) == TRUE
Free(m) == ~marks[m]

\* newClientMark, the lifecycle section: refused once closing, else counted.
Admit(p) ==
  /\ pc[p] = "idle"
  /\ nextId <= MaxCalls
  /\ nextId' = nextId + 1
  /\ \/ /\ Refused
        /\ UNCHANGED <<activeReqs, pc, req>>
     \/ /\ ~Refused
        /\ CountUp
        /\ pc' = [pc EXCEPT ![p] = "pick"]
        /\ \E k \in Kinds :
             req' = [req EXCEPT ![p] = [mark |-> 0, id |-> nextId, kind |-> k, conn |-> NoConn]]
  /\ UNCHANGED <<state, exitErr, markVars, conn, ctx, errVars, linkVars, loopVars, ping, closeVars,
                 losses, early>>

\* One turn of newClientMark's loop: the next mark, taken when it is free.
PickMark(p) ==
  LET v == (lastMark + 1) % NMarks IN
  /\ pc[p] = "pick"
  /\ lastMark' = v
  /\ IF Free(v)
     THEN /\ marks' = [marks EXCEPT ![v] = TRUE]
          /\ pc' = [pc EXCEPT ![p] = "send"]
          /\ req' = [req EXCEPT ![p].mark = v]
     ELSE UNCHANGED <<marks, pc, req>>
  /\ UNCHANGED <<lifeVars, responses, conn, ctx, errVars, linkVars, nextId, loopVars, ping,
                 closeVars, losses, early>>

\* A write to the connection can reach the peer.
Alive == link[conn] = "up" /\ ctx \notin cancelled

\* The write succeeds, here: wire gets what the peer will have to answer,
\* but a peer that is gone sees nothing.  A websocket that writes a frame
\* under a cancelled context closes.
Written(r) ==
  /\ conn # NoConn
  /\ IF Alive THEN wire' = [wire EXCEPT ![conn] = r] /\ UNCHANGED link
              ELSE Sever({conn}, "lost")
  /\ UNCHANGED <<cancelled, conn, errVars>>

\* A write fails: the error is recorded, the connection dropped and the
\* current context cancelled.
WriteBreaks ==
  /\ conn # NoConn
  /\ ~Alive
  /\ RecordErr("io")
  /\ conn' = NoConn

\* requireWrite finds no connection.
NoConnection == conn = NoConn /\ UNCHANGED <<conn, errVars, linkVars>>

Step(p, to) == pc' = [pc EXCEPT ![p] = to]

\* A send and where it leads.  When closing the writer fails the caller does
\* not see it and goes on as if it had sent its message.  A caller that sees
\* its write fail may not have reached the websocket at all: under the
\* cancelled context of an earlier connection the library can refuse first.
CallerSend(p, r, to, kind) ==
  /\ \/ /\ Written(r) \/ (WriteBreaks /\ Cancel({conn}))
        /\ Step(p, to)
        /\ req' = [req EXCEPT ![p].conn = conn, ![p].kind = kind]
     \/ /\ NoConnection \/ (WriteBreaks /\ (Cancel({}) \/ Cancel({conn})))
        /\ Step(p, "release")
        /\ UNCHANGED req
  /\ UNCHANGED <<lifeVars, markVars, ctx, nextId, loopVars, ping, closeVars, losses, early>>

Outstanding(r, kind) == [r EXCEPT !.kind = kind, !.conn = conn]

\* beginRequest, the payload and writeDone of a one-message command.
SendCommand(p) ==
  /\ pc[p] = "send"
  /\ req[p].kind # "stream"
  /\ CallerSend(p, wire[conn] \cup {Outstanding(req[p], req[p].kind)}, "wait", req[p].kind)

\* OpenWriteStream: the stream's first message, no response is awaited.
\* cmdWriteStreamOpen opens the stream, or refuses it with an error (the
\* descriptor is bad, or the mark's last stream has not removed itself yet).
SendOpen(p) ==
  /\ pc[p] = "send"
  /\ req[p].kind = "stream"
  /\ \E opens \in BOOLEAN :
       CallerSend(p, wire[conn] \cup {Outstanding(req[p], IF opens THEN "open" ELSE "stray")},
                  "stream", IF opens THEN "stream" ELSE "refused")

\* cmdWriteStreamData: a message goes to the stream of its mark, which goes
\* on or ends.  Where none is open it is answered by an error of its own; a
\* refused stream's may also be left, unanswered, in the input of the stream
\* that was in its way.
StreamEntries(p, kinds) == {r \in wire[conn] : r.id = req[p].id /\ r.kind \in kinds}
AfterStreamData(p, isEnd, answered) ==
  LET open == StreamEntries(p, {"open", "openErr"})
      ended == {Outstanding(req[p], IF r.kind = "open" THEN "end" ELSE "cmd") : r \in open}
      stray == Outstanding(req[p], "stray")
  IN  IF open = {} THEN IF answered THEN wire[conn] \cup {stray} ELSE wire[conn]
      ELSE IF isEnd THEN (wire[conn] \ open) \cup ended
      ELSE wire[conn]
Answered(p) == IF req[p].kind = "refused" THEN BOOLEAN ELSE {TRUE}

\* WriteStream.Write: one data message; a failure ends the stream's use.
SendData(p) ==
  /\ pc[p] = "stream"
  /\ \E a \in Answered(p) : CallerSend(p, AfterStreamData(p, FALSE, a), "stream", req[p].kind)

\* WriteStream.Close sends the final message and then waits.
SendEnd(p) ==
  /\ pc[p] = "stream"
  /\ \E a \in Answered(p) : CallerSend(p, AfterStreamData(p, TRUE, a), "wait", req[p].kind)

\* What ends the wait: for a stream OK, ErrorUnknown and the session error
\* notice, for a read everything but a partial response, else anything.
IsStream(kind) == kind \in {"stream", "refused"}
Ends_FirstPart(kind, code) == IsStream(kind) => code \in {"OK", "UNKNOWN", "IOERR"}
Ends_NoNotice(kind, code) ==
  CASE IsStream(kind) -> code \in {"OK", "UNKNOWN"}
    [] kind = "read"  -> code # "PARTIAL"
    [] OTHER          -> TRUE
Ends(kind, code) ==
  CASE IsStream(kind) -> code \in {"OK", "UNKNOWN", "IOERR"}
    [] kind = "read"  -> code # "PARTIAL"
    [] OTHER          -> TRUE

Receive(p) ==
  LET m == req[p].mark IN
  /\ pc[p] = "wait"
  /\ responses[m] # Empty
  /\ responses' = [responses EXCEPT ![m] = Empty]
  /\ Step(p, IF Ends(req[p].kind, responses[m].code) THEN "release" ELSE "wait")
  /\ early' = (early \/ (IsStream(req[p].kind) /\ responses[m].code = "UNKNOWN"))
  /\ UNCHANGED <<lifeVars, lastMark, marks, conn, ctx, errVars, linkVars, req, nextId, loopVars,
                 ping, closeVars, losses>>

\* releaseClientMark unlocks the mark, then counts down under the lock.
Release(p) ==
  /\ pc[p] = "release"
  /\ marks' = [marks EXCEPT ![req[p].mark] = FALSE]
  /\ Step(p, "uncount")
  /\ UNCHANGED <<lifeVars, lastMark, responses, conn, ctx, errVars, linkVars, req, nextId,
                 loopVars, ping, closeVars, losses, early>>

Uncount(p) ==
  /\ pc[p] = "uncount"
  /\ activeReqs' = activeReqs - 1
  /\ Broadcast
  /\ Step(p, "idle")
  /\ req' = [req EXCEPT ![p] = NoReq]
  /\ UNCHANGED <<state, exitErr, markVars, conn, ctx, errVars, linkVars, nextId, loopVars, ping,
                 closing, losses, early>>

(***************************************************************************)
(* The read loop of connection c.                                          *)
(***************************************************************************)
Goto(c, to) == loop' = [loop EXCEPT ![c] = to]

\* What the server may send next for r, and what it then still owes.  A
\* read is sent as at most one partial response and its end.  writeStream.run
\* sends an error for the first chunk that fails and the close response at
\* the end.  A "stray" entry stands for every message of its stream that
\* found none open, so one error may leave more to come.
Answers(r) ==
  CASE r.kind = "cmd"     -> {<<"OK", {}>>}
    [] r.kind = "read"    -> {<<"OK", {}>>, <<"PARTIAL", {[r EXCEPT !.kind = "cmd"]}>>}
    [] r.kind = "open"    -> {<<e, {[r EXCEPT !.kind = "openErr"]}>> : e \in StreamErrs}
    [] r.kind = "openErr" -> {}
    [] r.kind = "end"     -> {<<"OK", {}>>} \cup
                             {<<e, {[r EXCEPT !.kind = "cmd"]}>> : e \in StreamErrs}
    [] OTHER              -> {<<"ERR", {}>>, <<"ERR", {r}>>}

\* conn.Reader and io.Copy return the peer's next response.
ReadMessage(c) ==
  /\ loop[c] = "read"
  /\ link[c] = "up"
  /\ \E r \in wire[c] : \E a \in Answers(r) :
       /\ hand' = [hand EXCEPT ![c] = Rsp(r.mark, r.id, r.conn, a[1])]
       /\ wire' = [wire EXCEPT ![c] = (@ \ {r}) \cup a[2]]
  /\ Goto(c, "deliver")
  /\ UNCHANGED <<lifeVars, markVars, conn, ctx, errVars, cancelled, link, callVars, scan, grace,
                 ping, closeVars, losses>>

\* responses[mark] <- buf blocks until the channel is empty.
Deliver(c) ==
  /\ loop[c] = "deliver"
  /\ responses[hand[c].mark] = Empty
  /\ responses' = [responses EXCEPT ![hand[c].mark] = hand[c]]
  /\ hand' = [hand EXCEPT ![c] = Empty]
  /\ Goto(c, "read")
  /\ UNCHANGED <<lifeVars, lastMark, marks, conn, ctx, errVars, linkVars, callVars, scan, grace,
                 ping, closeVars, losses>>

\* conn.Reader fails: the error is recorded and stopConn begins.
ReadFails(c) ==
  /\ loop[c] = "read"
  /\ link[c] # "up"
  /\ RecordErr(IF link[c] = "normal" THEN "normal" ELSE "io")
  /\ Goto(c, "stop")
  /\ UNCHANGED <<lifeVars, markVars, conn, ctx, linkVars, callVars, hand, scan, grace, ping,
                 closeVars, losses>>

\* stopConn: the lifecycle section, then connCtxCancel.
StopLifecycle_Drains(c) ==
  /\ loop[c] = "stop"
  /\ activeReqs = 0
  /\ grace' = [grace EXCEPT ![c] = state = "Closing"]
  /\ state' = IF state \in {"Closing", "Closed"} THEN state ELSE "Recovering"
  /\ IF state # "Closed" THEN Broadcast ELSE UNCHANGED closer
  /\ Cancel({})
  /\ Goto(c, "detach")
  /\ UNCHANGED <<activeReqs, exitErr, markVars, conn, ctx, errVars, callVars, hand, scan, ping,
                 closing, losses>>

StopLifecycle(c) ==
  /\ loop[c] = "stop"
  /\ grace' = [grace EXCEPT ![c] = state = "Closing"]
  /\ state' = IF state \in {"Closing", "Closed"} THEN state ELSE "Recovering"
  /\ IF state # "Closed" THEN Broadcast ELSE UNCHANGED closer
  /\ Cancel({})
  /\ Goto(c, "detach")
  /\ UNCHANGED <<activeReqs, exitErr, markVars, conn, ctx, errVars, callVars, hand, scan, ping,
                 closing, losses>>

\* stopConn: the writeLock section, then CloseNow unless closing.
StopDetach(c) ==
  /\ loop[c] = "detach"
  /\ conn' = NoConn
  /\ IF grace[c] THEN UNCHANGED <<link, wire>> ELSE Sever({conn}, "lost")
  /\ Goto(c, "unlock")
  /\ UNCHANGED <<lifeVars, markVars, ctx, errVars, cancelled, callVars, hand, scan, grace, ping,
                 closeVars, losses>>

\* stopConn: connErrLock.Unlock, after which the marks are notified.
StopUnlock(c) ==
  /\ loop[c] = "unlock"
  /\ connErrLock' = FALSE
  /\ Goto(c, "notify")
  /\ UNCHANGED <<lifeVars, markVars, conn, ctx, connErr, linkVars, callVars, hand, scan, grace,
                 ping, closeVars, losses>>

\* notifyAllMarksWithDesc: a mark that can be locked is free and skipped.
NotifyLook_Skips(c) ==
  /\ loop[c] = "notify"
  /\ scan[c] < NMarks
  /\ IF scan[c] = 0 \/ Free(scan[c])
     THEN scan' = [scan EXCEPT ![c] = @ + 1] /\ UNCHANGED loop
     ELSE Goto(c, "push") /\ UNCHANGED scan
  /\ UNCHANGED <<lifeVars, markVars, conn, ctx, errVars, linkVars, callVars, hand, grace, ping,
                 closeVars, losses>>

NotifyLook(c) ==
  /\ loop[c] = "notify"
  /\ scan[c] < NMarks
  /\ IF Free(scan[c])
     THEN scan' = [scan EXCEPT ![c] = @ + 1] /\ UNCHANGED loop
     ELSE Goto(c, "push") /\ UNCHANGED scan
  /\ UNCHANGED <<lifeVars, markVars, conn, ctx, errVars, linkVars, callVars, hand, grace, ping,
                 closeVars, losses>>

\* ... and one in use is sent the synthetic response, which may block.
NotifyPush_Twice(c) ==
  /\ loop[c] = "push"
  /\ responses[scan[c]] = Empty
  /\ responses' = [responses EXCEPT ![scan[c]] =
                     Rsp(scan[c], 0, c, IF grace[c] THEN "CLOSED" ELSE "IOERR")]
  /\ scan' = [scan EXCEPT ![c] = @ + 2]
  /\ Goto(c, "notify")
  /\ UNCHANGED <<lifeVars, lastMark, marks, conn, ctx, errVars, linkVars, callVars, hand, grace,
                 ping, closeVars, losses>>

NotifyPush(c) ==
  /\ loop[c] = "push"
  /\ responses[scan[c]] = Empty
  /\ responses' = [responses EXCEPT ![scan[c]] =
                     Rsp(scan[c], 0, c, IF grace[c] THEN "CLOSED" ELSE "IOERR")]
  /\ scan' = [scan EXCEPT ![c] = @ + 1]
  /\ Goto(c, "notify")
  /\ UNCHANGED <<lifeVars, lastMark, marks, conn, ctx, errVars, linkVars, callVars, hand, grace,
                 ping, closeVars, losses>>

\* stopConn's end: exit when closing, else errorMode.
NotifyDone(c) ==
  /\ loop[c] = "notify"
  /\ scan[c] = NMarks
  /\ IF grace[c]
     THEN Exit(IF connErr = "normal" THEN "nil" ELSE "err", closer) /\ Goto(c, "done")
     ELSE Goto(c, "redial") /\ UNCHANGED <<lifeVars, closer>>
  /\ UNCHANGED <<markVars, conn, ctx, errVars, linkVars, callVars, hand, scan, grace, ping,
                 closing, losses>>

\* errorMode: reDial is absent or gives up.
RedialFails(c) ==
  /\ loop[c] = "redial"
  /\ Exit("err", closer)
  /\ Goto(c, "done")
  /\ UNCHANGED <<markVars, conn, ctx, errVars, linkVars, callVars, hand, scan, grace, ping,
                 closing, losses>>

\* errorMode: reDial returns the next connection.
RedialSucceeds(c) ==
  /\ loop[c] = "redial"
  /\ c < MaxConns
  /\ link' = [link EXCEPT ![c + 1] = "up"]
  /\ Goto(c, "take")
  /\ UNCHANGED <<lifeVars, markVars, conn, ctx, errVars, cancelled, wire, callVars, hand, scan,
                 grace, ping, closeVars, losses>>

\* takeConn publishes the connection without the write lock ...
TakeConn(c) ==
  /\ loop[c] = "take"
  /\ conn' = c + 1
  /\ Goto(c, "context")
  /\ UNCHANGED <<lifeVars, markVars, ctx, errVars, linkVars, callVars, hand, scan, grace, ping,
                 closeVars, losses>>

\* ... then its context, and starts its loops.
TakeContext(c) ==
  /\ loop[c] = "context"
  /\ ctx' = c + 1
  /\ loop' = [loop EXCEPT ![c] = "resume", ![c + 1] = "read"]
  /\ ping' = [ping EXCEPT ![c + 1] = IF PingOn THEN "run" ELSE "off"]
  /\ UNCHANGED <<lifeVars, markVars, conn, errVars, linkVars, callVars, hand, scan, grace,
                 closeVars, losses>>

\* errorMode's end: a session still recovering runs again.
Resume(c) ==
  /\ loop[c] = "resume"
  /\ IF state = "Recovering"
     THEN state' = "Running" /\ Broadcast
     ELSE UNCHANGED <<state, closer>>
  /\ Goto(c, "done")
  /\ UNCHANGED <<activeReqs, exitErr, markVars, conn, ctx, errVars, linkVars, callVars, hand, scan,
                 grace, ping, closing, losses>>

(***************************************************************************)
(* The ping loop of connection c.                                          *)
(***************************************************************************)
\* Ping returns an error, which is recorded; the cancel is a step of its own.
\* The connection is down, or the pong did not come within pingTimeout: a
\* failure of a connection that is up.
PingFails(c) ==
  /\ ping[c] = "run"
  /\ \/ link[c] # "up" /\ UNCHANGED losses
     \/ link[c] = "up" /\ losses < MaxLosses /\ losses' = losses + 1
  /\ RecordErr("io")
  /\ ping' = [ping EXCEPT ![c] = "cancel"]
  /\ UNCHANGED <<lifeVars, markVars, conn, ctx, linkVars, callVars, loopVars, closeVars>>

\* s.connCtxCancel() cancels whatever context is current by now.
PingCancel_Stops(c) ==
  /\ ping[c] = "cancel"
  /\ Cancel({})
  /\ ping' = [ping EXCEPT ![c] = "done"]
  /\ Goto(c, "stop")
  /\ UNCHANGED <<lifeVars, markVars, conn, ctx, errVars, callVars, hand, scan, grace, closeVars, losses>>

PingCancel(c) ==
  /\ ping[c] = "cancel"
  /\ Cancel({})
  /\ ping' = [ping EXCEPT ![c] = "done"]
  /\ UNCHANGED <<lifeVars, markVars, conn, ctx, errVars, callVars, loopVars, closeVars, losses>>

\* The loop sees its context done.
PingStops(c) ==
  /\ ping[c] = "run"
  /\ c \in cancelled
  /\ ping' = [ping EXCEPT ![c] = "done"]
  /\ UNCHANGED <<lifeVars, markVars, conn, ctx, errVars, linkVars, callVars, loopVars, closeVars,
                 losses>>

(***************************************************************************)
(* Close.                                                                  *)
(***************************************************************************)
Drained_Ignored == TRUE
Drained == activeReqs = 0

\* One turn of Close's loop under lifecycleLock.
CloseCheck(k) ==
  /\ closer[k] \in {"idle", "check"}
  /\ \/ /\ state \in {"Closed", "Closing"}
        /\ closer' = [closer EXCEPT ![k] = "wait"]
        /\ UNCHANGED <<state, closing>>
     \/ /\ state = "Recovering" \/ (state = "Running" /\ ~Drained)
        /\ closer' = [closer EXCEPT ![k] = "asleep"]
        /\ UNCHANGED <<state, closing>>
     \/ /\ state = "Running" /\ Drained
        /\ state' = "Closing"
        /\ closer' = Wake([closer EXCEPT ![k] = "close"])
        /\ closing' = [closing EXCEPT ![k] = conn]
  /\ UNCHANGED <<activeReqs, exitErr, markVars, conn, ctx, errVars, linkVars, callVars, loopVars,
                 ping, losses>>

\* There is no connection to close: the session exits at once.
CloseNoConn(k) ==
  /\ closer[k] = "close"
  /\ closing[k] = NoConn
  /\ Exit("nil", [closer EXCEPT ![k] = "wait"])
  /\ UNCHANGED <<markVars, conn, ctx, errVars, linkVars, callVars, loopVars, ping, closing,
                 losses>>

\* conn.Close(StatusNormalClosure): the handshake succeeds or it fails, and
\* the connection is down either way.
CloseHandshake(k) ==
  LET c == closing[k] IN
  /\ closer[k] = "close"
  /\ c # NoConn
  /\ \/ /\ link[c] = "up"
        /\ Sever({c}, "normal")
        /\ closer' = [closer EXCEPT ![k] = "wait"]
     \/ /\ Sever({c}, "lost")
        /\ closer' = [closer EXCEPT ![k] = "fail"]
  /\ UNCHANGED <<lifeVars, markVars, conn, ctx, errVars, cancelled, callVars, loopVars, ping,
                 closing, losses>>

CloseFails(k) ==
  /\ closer[k] = "fail"
  /\ RecordErr("io")
  /\ Cancel({})
  /\ closer' = [closer EXCEPT ![k] = "wait"]
  /\ UNCHANGED <<lifeVars, markVars, conn, ctx, callVars, loopVars, ping, closing, losses>>

\* Wait returns exitErr.
CloseReturns(k) ==
  /\ closer[k] = "wait"
  /\ exitErr # "none"
  /\ closer' = [closer EXCEPT ![k] = "done"]
  /\ UNCHANGED <<lifeVars, markVars, conn, ctx, errVars, linkVars, callVars, loopVars, ping,
                 closing, losses>>

(***************************************************************************)
(* The environment: the network, or the server, drops a connection.        *)
(***************************************************************************)
Lose(c) ==
  /\ link[c] = "up"
  /\ losses < MaxLosses
  /\ losses' = losses + 1
  /\ Sever({c}, "lost")
  /\ UNCHANGED <<lifeVars, markVars, conn, ctx, errVars, cancelled, callVars, loopVars, ping,
                 closeVars>>

CallerNext(p) ==
  \/ Admit(p) \/ PickMark(p) \/ SendCommand(p) \/ SendOpen(p) \/ SendData(p) \/ SendEnd(p)
  \/ Receive(p) \/ Release(p) \/ Uncount(p)

LoopNext(c) ==
  \/ ReadMessage(c) \/ Deliver(c) \/ ReadFails(c)
  \/ StopLifecycle(c) \/ StopDetach(c) \/ StopUnlock(c)
  \/ NotifyLook(c) \/ NotifyPush(c) \/ NotifyDone(c)
  \/ RedialFails(c) \/ RedialSucceeds(c)
  \/ TakeConn(c) \/ TakeContext(c) \/ Resume(c)

PingNext(c) == PingFails(c) \/ PingCancel(c) \/ PingStops(c)

CloserNext(k) ==
  \/ CloseCheck(k) \/ CloseNoConn(k) \/ CloseHandshake(k) \/ CloseFails(k) \/ CloseReturns(k)

Next ==
  \/ \E p \in Callers : CallerNext(p)
  \/ \E c \in Conns : LoopNext(c) \/ PingNext(c) \/ Lose(c)
  \/ \E k \in Closers : CloserNext(k)

Spec == Init /\ [][Next]_vars

(***************************************************************************)
(* Fairness.  Go schedules every runnable goroutine, so a goroutine that   *)
(* can take its next step takes it; the server answers (ReadMessage) and   *)
(* reDial returns, either way, because it tries a bounded number of times. *)
(* Nothing forces a caller to issue a command, a connection to fail, or    *)
(* anyone to call Close.                                                   *)
(***************************************************************************)
Fairness ==
  /\ \A p \in Callers :
       /\ WF_vars(PickMark(p)) /\ WF_vars(SendCommand(p) \/ SendOpen(p))
       /\ WF_vars(SendEnd(p)) /\ WF_vars(Receive(p)) /\ WF_vars(Release(p) \/ Uncount(p))
  /\ \A c \in Conns : WF_vars(LoopNext(c)) /\ WF_vars(PingNext(c))
  /\ \A k \in Closers : WF_vars(CloserNext(k) /\ closer[k] # "idle")

FairSpec == Spec /\ Fairness

-----------------------------------------------------------------------------
(***************************************************************************)
(* Safety.                                                                 *)
(***************************************************************************)
Counted == {p \in Callers : pc[p] # "idle"}
Holding(p) == pc[p] \in {"send", "stream", "wait", "release"}

\* No two commands in flight share a client mark, and a mark is locked
\* exactly while a command uses it (newClientMark, releaseClientMark).
MarksExclusive ==
  /\ \A p, q \in Callers : Holding(p) /\ Holding(q) /\ p # q => req[p].mark # req[q].mark
  /\ \A m \in Marks : marks[m] <=> \E p \in Callers : Holding(p) /\ req[p].mark = m

\* activeReqs counts the commands between newClientMark and the end of
\* releaseClientMark, however the session is recovered or closed meanwhile.
ActiveReqsCount == activeReqs = Cardinality(Counted)

\* Close sends the closing handshake only when every command has finished,
\* and none starts after: usage.md says it waits for all ongoing requests.
ClosingDrained == state = "Closing" => Counted = {}

\* A graceful stopConn finds no mark in use, so nobody is ever handed the
\* "Session closed" response, which WriteStream.Close would not stop at.
NoClosedNotice ==
  /\ \A m \in Marks : responses[m].code # "CLOSED"
  /\ \A c \in Conns : grace[c] => loop[c] # "push"

\* stopConn unlocks connErrLock only while it is locked (unlocking a free
\* sync.Mutex ends the process).
ErrLockHeld == \A c \in Conns : loop[c] \in {"stop", "detach", "unlock"} => connErrLock

\* Only one connection's goroutine reads, stops or recovers at a time; the
\* earlier ones have at most the last step of errorMode before them.
OneReader ==
  \A c, d \in Conns : c < d /\ loop[d] # "off" => loop[c] \in {"resume", "done"}

\* A caller that waits is never forgotten: a response that ends its wait is
\* in its channel, in the read loop's hands or still owed by the server, or
\* the loop of the connection it wrote to has yet to notify its mark.  The
\* exception is a write stream the server refused to open: while its
\* connection is up nothing that WriteStream.Close stops at will come.
Concludes(p, r) == r.id = req[p].id /\ r.kind \in {"cmd", "read", "end"}
NoForgottenWaiter ==
  \A p \in Callers : pc[p] = "wait" =>
    LET c == req[p].conn
        m == req[p].mark
        ending(r) == r # Empty /\ r.mark = m /\ Ends(req[p].kind, r.code)
    IN  \/ ending(responses[m])
        \/ ending(hand[c])
        \/ /\ loop[c] \in {"off", "read", "deliver", "stop", "detach", "unlock"}
           /\ \/ link[c] # "up"
              \/ req[p].kind = "refused"
              \/ \E r \in wire[c] : Concludes(p, r)
        \/ loop[c] \in {"notify", "push"} /\ scan[c] <= m

\* What a caller finds in its channel answers the command it sent: the
\* server's response to it, or the error notice of the connection it was
\* sent on (technical.md: "callers must rely on returned byte counts and
\* errors").
OwnResponse ==
  \A p \in Callers : pc[p] = "wait" /\ responses[req[p].mark] # Empty =>
    LET r == responses[req[p].mark] IN
    IF r.code = "IOERR" THEN r.conn = req[p].conn ELSE r.id = req[p].id

\* While no connection has failed it does, until a WriteStream.Close returns
\* at ErrorUnknown: the close response it leaves behind is then received by
\* the next command with its mark.
OwnWhileUp == losses = 0 /\ ~early => OwnResponse

\* exit decides once: a closed session stays closed with the same result.
ExitOnce == [][exitErr # "none" => exitErr' = exitErr /\ state = "Closed" /\ state' = "Closed"]_vars

(***************************************************************************)
(* Liveness, under FairSpec.                                               *)
(***************************************************************************)
\* The session has been reconnected at least once.
Reconnected == loop[1] \in {"resume", "done"} /\ exitErr = "none"

\* A command that was admitted finishes, whether its connection is lost or
\* not and whether recovery succeeds or fails; once the session has been
\* reconnected a later failure may keep it, because notifyAllMarks then
\* blocks on a channel that still holds an earlier notice.
CallsFinish == \A p \in Callers : pc[p] = "pick" ~> pc[p] = "idle" \/ Reconnected

\* A command waiting on the first connection is answered or notified,
\* whatever happens to the connections after it.
FirstWaitEnds ==
  \A p \in Callers : pc[p] = "wait" /\ req[p].conn = 1 ~> pc[p] # "wait"

\* The first recovery gets through notifyAllMarks and reDial.
FirstRecoveryEnds == loop[1] = "stop" ~> loop[1] = "done"

\* A call of Close returns, with the same reservation.
CloseEnds == \A k \in Closers : closer[k] # "idle" ~> closer[k] = "done" \/ Reconnected

=============================================================================
