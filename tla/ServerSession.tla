--------------------------- MODULE ServerSession ---------------------------
(***************************************************************************)
(* The server's sessions: the websocket handshakes that create and resume  *)
(* them, the read loop and the command goroutines of each connection, the  *)
(* registry, and the collector of sessions nobody resumes.  Source:        *)
(* src/internal/server/wsfs/{handler,registry,session,commandCalls}.go.    *)
(*                                                                         *)
(* A connection is named by the handshake that made it.  The peer is the   *)
(* environment: it sends commands, closes the connection with a close      *)
(* frame or loses it.  Session ids are 128 random bits: a fresh id is      *)
(* taken to be unused.                                                     *)
(***************************************************************************)
EXTENDS Naturals, FiniteSets

CONSTANTS
  Ids,          \* session ids
  Handshakes,   \* websocket handshakes, each a connection at most
  Users,
  None,
  InactiveMax,  \* sessionInactiveMaxCount, 5 in the code
  Limit,        \* limit of cmdGroup, 64 in the code
  Kinds,        \* the kinds of command in use, a subset of AllKinds
  MaxCmds,      \* bound: commands read
  MaxScans      \* bound: scans of the collector

\* Most commands are "plain"; "open" and "close" change the session's file
\* descriptors, "lockwait" waits for a lock another process holds, "stream"
\* stays until its last data message, and "bad" is refused by the read loop
\* itself (unknown command, bad format, a stream that cannot be opened).
AllKinds == {"plain", "open", "close", "lockwait", "stream", "bad"}

ASSUME ConstantsAssumption ==
  /\ IsFiniteSet(Ids) /\ IsFiniteSet(Handshakes)
  /\ None \notin Ids \cup Handshakes \cup Users
  /\ InactiveMax \in Nat \ {0} /\ Limit \in Nat \ {0}
  /\ Kinds \subseteq AllKinds
  /\ MaxCmds \in Nat /\ MaxScans \in Nat

VARIABLES
  reg,        \* the registry's entry: "closed" and "collected" are absent
  owner,      \* session.Username
  lock,       \* session.Lock is locked
  inactive,   \* session.inactiveCount
  conn,       \* session.conn
  ctx,        \* the connection whose context session.connCtxCancel cancels
  connErr,    \* session.connErr: "none", "normal" (close status) or "io"
  errLock,    \* session.connErrLock is locked
  fds,        \* session.fds
  tasks,      \* goroutines of the session's cmdGroup
  cmds,       \* commands read so far
  hs,         \* where each handshake's handler is
  sid,        \* the session it is about
  who,        \* the authenticated user
  link,       \* state of each websocket
  loop,       \* where its read loop is
  hand,       \* the command the loop waits to start
  grace,      \* gracefulClose of stopConn
  collector,  \* where CollectInactiveSessions is
  todo,       \* sessions the scan has still to visit
  seen,       \* existsSession of the scan
  scans,      \* scans so far
  stopped,    \* the registry was told to stop
  visits,     \* scans that found the session since its last connection ended
  crashed     \* sync.WaitGroup panicked, and with it the process

regVars  == <<reg, owner, inactive>>
sessVars == <<conn, ctx, connErr, errLock>>
taskVars == <<tasks, cmds, fds>>
hsVars   == <<hs, sid, who>>
loopVars == <<loop, hand, grace>>
scanVars == <<collector, todo, seen, scans, stopped, visits>>
vars == <<regVars, lock, sessVars, taskVars, hsVars, link, loopVars, scanVars, crashed>>

Tasks == [h : Handshakes, n : 1 .. MaxCmds, kind : AllKinds,
          at : {"run", "input", "reply", "return"}]
TasksOf(id) == {t \in tasks : sid[t.h] = id}
Present(id) == reg[id] = "present"

TypeOK ==
  /\ reg \in [Ids -> {"fresh", "reserved", "present", "closed", "collected"}]
  /\ owner \in [Ids -> Users \cup {None}]
  /\ lock \in [Ids -> BOOLEAN]
  /\ inactive \in [Ids -> 0 .. InactiveMax]
  /\ conn \in [Ids -> Handshakes \cup {None}]
  /\ ctx \in [Ids -> Handshakes \cup {None}]
  /\ connErr \in [Ids -> {"none", "normal", "io"}]
  /\ errLock \in [Ids -> BOOLEAN]
  /\ fds \in [Ids -> SUBSET (1 .. MaxCmds)]
  /\ tasks \in SUBSET Tasks
  /\ cmds \in 0 .. MaxCmds
  /\ hs \in [Handshakes -> {"new", "store", "load", "lock", "upgrade", "served",
                            "refused", "busy", "failed"}]
  /\ sid \in [Handshakes -> Ids \cup {None}]
  /\ who \in [Handshakes -> Users \cup {None}]
  /\ link \in [Handshakes -> {"none", "up", "lost", "normal"}]
  /\ loop \in [Handshakes -> {"off", "read", "go", "cancel", "detach", "wait", "delete",
                              "release", "drain", "parked", "woken", "done"}]
  /\ hand \in [Handshakes -> AllKinds \cup {None}]
  /\ grace \in [Handshakes -> BOOLEAN]
  /\ collector \in Ids \cup {"sleep", "range", "ended"}
  /\ todo \in SUBSET Ids
  /\ seen \in BOOLEAN /\ stopped \in BOOLEAN /\ crashed \in BOOLEAN
  /\ scans \in 0 .. MaxScans
  /\ visits \in [Ids -> 0 .. MaxScans]

Init ==
  /\ reg = [i \in Ids |-> "fresh"] /\ owner = [i \in Ids |-> None]
  /\ lock = [i \in Ids |-> FALSE] /\ inactive = [i \in Ids |-> 0]
  /\ conn = [i \in Ids |-> None] /\ ctx = [i \in Ids |-> None]
  /\ connErr = [i \in Ids |-> "none"] /\ errLock = [i \in Ids |-> FALSE]
  /\ fds = [i \in Ids |-> {}] /\ tasks = {} /\ cmds = 0
  /\ hs = [h \in Handshakes |-> "new"]
  /\ sid = [h \in Handshakes |-> None] /\ who = [h \in Handshakes |-> None]
  /\ link = [h \in Handshakes |-> "none"]
  /\ loop = [h \in Handshakes |-> "off"] /\ hand = [h \in Handshakes |-> None]
  /\ grace = [h \in Handshakes |-> FALSE]
  /\ collector = "sleep" /\ todo = {} /\ seen = FALSE /\ scans = 0 /\ stopped = FALSE
  /\ visits = [i \in Ids |-> 0]
  /\ crashed = FALSE

(***************************************************************************)
(* Handler.ServeHTTP.                                                      *)
(***************************************************************************)
\* session.Lock.TryLock() succeeds.
LockFree_Always(i) == TRUE
LockFree(i) == ~lock[i]

Answer(h, to) == hs' = [hs EXCEPT ![h] = to]

\* No X-Wsfs-Resume header: registry.newSession reserves an unused id ...
Reserve(h) ==
  /\ hs[h] = "new"
  /\ \E i \in Ids, u \in Users :
       /\ reg[i] = "fresh"
       /\ reg' = [reg EXCEPT ![i] = "reserved"]
       /\ sid' = [sid EXCEPT ![h] = i]
       /\ who' = [who EXCEPT ![h] = u]
  /\ Answer(h, "store")
  /\ UNCHANGED <<owner, inactive, lock, sessVars, taskVars, link, loopVars, scanVars, crashed>>

\* ... and stores the new session under it.
Publish(h) ==
  /\ hs[h] = "store"
  /\ reg' = [reg EXCEPT ![sid[h]] = "present"]
  /\ owner' = [owner EXCEPT ![sid[h]] = who[h]]
  /\ Answer(h, "load")
  /\ UNCHANGED <<inactive, lock, sessVars, taskVars, sid, who, link, loopVars, scanVars, crashed>>

\* The header names a session.
ResumeRequest(h) ==
  /\ hs[h] = "new"
  /\ \E i \in Ids, u \in Users :
       /\ sid' = [sid EXCEPT ![h] = i]
       /\ who' = [who EXCEPT ![h] = u]
  /\ Answer(h, "load")
  /\ UNCHANGED <<regVars, lock, sessVars, taskVars, link, loopVars, scanVars, crashed>>

Allowed_Anyone(h) == TRUE
Allowed(h) == owner[sid[h]] = who[h]

\* registry.getSession and the check of the user: 400 unless both succeed.
GetSession(h) ==
  /\ hs[h] = "load"
  /\ Answer(h, IF Present(sid[h]) /\ Allowed(h) THEN "lock" ELSE "refused")
  /\ UNCHANGED <<regVars, lock, sessVars, taskVars, sid, who, link, loopVars, scanVars, crashed>>

\* session.Lock.TryLock: 412 while the session is in use.
TryLock_Blocks(h) ==
  /\ hs[h] = "lock"
  /\ LockFree(sid[h])
  /\ Answer(h, "upgrade") /\ lock' = [lock EXCEPT ![sid[h]] = TRUE]
  /\ UNCHANGED <<regVars, sessVars, taskVars, sid, who, link, loopVars, scanVars, crashed>>
TryLock(h) ==
  /\ hs[h] = "lock"
  /\ IF LockFree(sid[h])
     THEN Answer(h, "upgrade") /\ lock' = [lock EXCEPT ![sid[h]] = TRUE]
     ELSE Answer(h, "busy") /\ UNCHANGED lock
  /\ UNCHANGED <<regVars, sessVars, taskVars, sid, who, link, loopVars, scanVars, crashed>>

\* The upgrade fails, or panics: the deferred Unlock.
UpgradeFails(h) ==
  /\ hs[h] = "upgrade"
  /\ lock' = [lock EXCEPT ![sid[h]] = FALSE]
  /\ Answer(h, "failed")
  /\ UNCHANGED <<regVars, sessVars, taskVars, sid, who, link, loopVars, scanVars, crashed>>

\* The upgrade succeeds and takeConn starts the read loop.
TakeConn(h) ==
  /\ hs[h] = "upgrade"
  /\ conn' = [conn EXCEPT ![sid[h]] = h]
  /\ ctx' = [ctx EXCEPT ![sid[h]] = h]
  /\ link' = [link EXCEPT ![h] = "up"]
  /\ loop' = [loop EXCEPT ![h] = "read"]
  /\ Answer(h, "served")
  /\ UNCHANGED <<regVars, lock, connErr, errLock, taskVars, sid, who, hand, grace, scanVars,
                 crashed>>

(***************************************************************************)
(* The read loop of connection h.                                          *)
(***************************************************************************)
Goto(h, to) == loop' = [loop EXCEPT ![h] = to]

\* if connErrLock.TryLock() { connErr = err }
RecordErr_NoLock(i, e) == connErr' = [connErr EXCEPT ![i] = e] /\ UNCHANGED errLock
RecordErr(i, e) ==
  /\ errLock' = [errLock EXCEPT ![i] = TRUE]
  /\ connErr' = IF errLock[i] THEN connErr ELSE [connErr EXCEPT ![i] = e]

Sever(C) == link' = [h \in Handshakes |-> IF h \in C /\ link[h] = "up" THEN "lost" ELSE link[h]]

\* beginRsp ... writeDone: written, or there is no connection any more, or
\* the write fails and the connection is dropped.
Respond(i) ==
  \/ UNCHANGED <<conn, connErr, errLock, link>>
  \/ /\ conn[i] # None
     /\ link[conn[i]] # "up"
     /\ RecordErr(i, "io")
     /\ conn' = [conn EXCEPT ![i] = None]
     /\ Sever({ctx[i]})

\* dispatchCommand reads a command, and has to start a goroutine for it or
\* to refuse it.
ReadCommand(h) ==
  /\ loop[h] = "read" /\ link[h] = "up"
  /\ cmds < MaxCmds
  /\ cmds' = cmds + 1
  /\ \E k \in Kinds : hand' = [hand EXCEPT ![h] = k]
  /\ Goto(h, "go")
  /\ UNCHANGED <<regVars, lock, sessVars, tasks, fds, hsVars, link, grace, scanVars, crashed>>

\* cmdGroup.Go blocks while Limit commands run.
Go(h) ==
  /\ loop[h] = "go"
  /\ hand[h] # "bad"
  /\ Cardinality(TasksOf(sid[h])) < Limit
  /\ tasks' = tasks \cup {[h |-> h, n |-> cmds, kind |-> hand[h],
                           at |-> IF hand[h] = "stream" THEN "input" ELSE "run"]}
  /\ hand' = [hand EXCEPT ![h] = None]
  /\ Goto(h, "read")
  /\ UNCHANGED <<regVars, lock, sessVars, cmds, fds, hsVars, link, grace, scanVars, crashed>>

\* doCommandCall answers a command it cannot start.
Refuse(h) ==
  /\ loop[h] = "go"
  /\ hand[h] = "bad"
  /\ Respond(sid[h])
  /\ hand' = [hand EXCEPT ![h] = None]
  /\ Goto(h, "read")
  /\ UNCHANGED <<regVars, lock, ctx, taskVars, hsVars, grace, scanVars, crashed>>

\* The last data message of a write stream.
StreamEnd(h) ==
  /\ loop[h] = "read" /\ link[h] = "up"
  /\ \E t \in tasks :
       /\ t.h = h /\ t.at = "input"
       /\ tasks' = (tasks \ {t}) \cup {[t EXCEPT !.at = "reply"]}
  /\ UNCHANGED <<regVars, lock, sessVars, cmds, fds, hsVars, link, loopVars, scanVars, crashed>>

\* conn.Reader fails.
ReadFails(h) ==
  /\ loop[h] = "read" /\ link[h] # "up"
  /\ RecordErr(sid[h], IF link[h] = "normal" THEN "normal" ELSE "io")
  /\ Goto(h, "cancel")
  /\ UNCHANGED <<regVars, lock, conn, ctx, taskVars, hsVars, link, hand, grace, scanVars, crashed>>

\* A message without a command header ends the connection.
BadCommand(h) ==
  /\ loop[h] = "read" /\ link[h] = "up"
  /\ RecordErr(sid[h], "io")
  /\ Goto(h, "cancel")
  /\ UNCHANGED <<regVars, lock, conn, ctx, taskVars, hsVars, link, hand, grace, scanVars, crashed>>

\* stopConn: connCtxCancel.
StopCancel(h) ==
  /\ loop[h] = "cancel"
  /\ Sever({ctx[sid[h]]})
  /\ Goto(h, "detach")
  /\ UNCHANGED <<regVars, lock, sessVars, taskVars, hsVars, hand, grace, scanVars, crashed>>

\* clearWriteStreams closes the inputs of the write streams.
ClearWriteStreams_Not(i) == tasks' = tasks
ClearWriteStreams(i) ==
  tasks' = {IF t \in TasksOf(i) /\ t.at = "input" THEN [t EXCEPT !.at = "return"] ELSE t :
              t \in tasks}

\* stopConn: conn is dropped, and closed unless the peer closed it.
StopDetach(h) ==
  LET i == sid[h] IN
  /\ loop[h] = "detach"
  /\ conn' = [conn EXCEPT ![i] = None]
  /\ grace' = [grace EXCEPT ![h] = connErr[i] = "normal"]
  /\ IF connErr[i] = "normal" THEN UNCHANGED link ELSE Sever({conn[i]})
  /\ ClearWriteStreams(i)
  /\ Goto(h, "wait")
  /\ UNCHANGED <<regVars, lock, ctx, connErr, errLock, cmds, fds, hsVars, hand, scanVars, crashed>>

\* stopConn: cmdGroup.Wait, then connErrLock.Unlock.
AllReturned_Skipped(i) == TRUE
AllReturned(i) == TasksOf(i) = {}
StopWait(h) ==
  /\ loop[h] = "wait"
  /\ AllReturned(sid[h])
  /\ errLock' = [errLock EXCEPT ![sid[h]] = FALSE]
  /\ Goto(h, IF grace[h] THEN "delete" ELSE "release")
  /\ UNCHANGED <<regVars, lock, conn, ctx, connErr, taskVars, hsVars, link, hand, grace, scanVars,
                 crashed>>

\* delSession closes the descriptors of a registered session and removes it.
DelSession(i, as) ==
  /\ fds' = IF Present(i) THEN [fds EXCEPT ![i] = {}] ELSE fds
  /\ reg' = IF Present(i) THEN [reg EXCEPT ![i] = as] ELSE reg

StopDelete(h) ==
  /\ loop[h] = "delete"
  /\ DelSession(sid[h], "closed")
  /\ Goto(h, "release")
  /\ UNCHANGED <<owner, inactive, lock, sessVars, tasks, cmds, hsVars, link, hand, grace, scanVars,
                 crashed>>

\* stopConn's end: a hibernated session's count starts again; Lock.Unlock.
Hibernate_KeepCount(h) == UNCHANGED inactive
Hibernate(h) == inactive' = IF grace[h] THEN inactive ELSE [inactive EXCEPT ![sid[h]] = 0]
StopRelease(h) ==
  /\ loop[h] = "release"
  /\ Hibernate(h)
  /\ lock' = [lock EXCEPT ![sid[h]] = FALSE]
  /\ visits' = [visits EXCEPT ![sid[h]] = 0]
  /\ Goto(h, "drain")
  /\ UNCHANGED <<reg, owner, sessVars, taskVars, hsVars, link, hand, grace, collector, todo, seen,
                 scans, stopped, crashed>>

\* readLoop's second cmdGroup.Wait, after the session has been released:
\* it parks when commands of the next connection already run.
Drain(h) ==
  /\ loop[h] = "drain"
  /\ Goto(h, IF AllReturned(sid[h]) THEN "done" ELSE "parked")
  /\ UNCHANGED <<regVars, lock, sessVars, taskVars, hsVars, link, hand, grace, scanVars, crashed>>

\* sync.WaitGroup.Wait, woken, panics when the group is in use again.
Woken(h) ==
  /\ loop[h] = "woken"
  /\ Goto(h, "done")
  /\ crashed' = ~AllReturned(sid[h])
  /\ UNCHANGED <<regVars, lock, sessVars, taskVars, hsVars, link, hand, grace, scanVars>>

(***************************************************************************)
(* The goroutine of command t.                                             *)
(***************************************************************************)
\* The command's syscalls; it then has its response to write.
TaskWork(t) ==
  LET i == sid[t.h] IN
  /\ t.at = "run"
  /\ tasks' = (tasks \ {t}) \cup {[t EXCEPT !.at = "reply"]}
  /\ CASE t.kind = "open"  -> fds' = [fds EXCEPT ![i] = @ \cup {t.n}]
       [] t.kind = "close" -> \E f \in fds[i] \cup {t.n} : fds' = [fds EXCEPT ![i] = @ \ {f}]
       [] OTHER            -> UNCHANGED fds
  /\ UNCHANGED <<regVars, lock, sessVars, cmds, hsVars, link, loopVars, scanVars, crashed>>

\* cmdGroup's goroutine ends; the last one wakes who waits for the group.
Return(t) ==
  /\ tasks' = tasks \ {t}
  /\ loop' = IF TasksOf(sid[t.h]) = {t}
             THEN [h \in Handshakes |-> IF loop[h] = "parked" /\ sid[h] = sid[t.h] THEN "woken"
                                        ELSE loop[h]]
             ELSE loop

\* The command writes its response and returns.
TaskReply(t) ==
  /\ t.at = "reply"
  /\ Return(t)
  /\ Respond(sid[t.h])
  /\ UNCHANGED <<regVars, lock, ctx, cmds, fds, hsVars, hand, grace, scanVars, crashed>>

\* A stream whose input was closed returns without a response.
TaskReturn(t) ==
  /\ t.at = "return"
  /\ Return(t)
  /\ UNCHANGED <<regVars, lock, sessVars, cmds, fds, hsVars, link, hand, grace, scanVars, crashed>>

(***************************************************************************)
(* CollectInactiveSessions.                                                *)
(***************************************************************************)
ScanStart ==
  /\ collector = "sleep"
  /\ scans < MaxScans
  /\ scans' = scans + 1
  /\ todo' = {i \in Ids : reg[i] \in {"reserved", "present"}}
  /\ seen' = (todo' # {})
  /\ collector' = "range"
  /\ UNCHANGED <<regVars, lock, sessVars, taskVars, hsVars, link, loopVars, stopped, visits,
                 crashed>>

\* A session in use, or not there, is passed by.
VisitPasses(i) ==
  /\ collector = "range"
  /\ i \in todo
  /\ ~Present(i) \/ ~LockFree(i)
  /\ todo' = todo \ {i}
  /\ UNCHANGED <<regVars, lock, sessVars, taskVars, hsVars, link, loopVars, collector, seen, scans,
                 stopped, visits, crashed>>

\* Lock.TryLock succeeds: the session was inactive for one more scan.
VisitLocks(i) ==
  /\ collector = "range"
  /\ i \in todo
  /\ Present(i) /\ LockFree(i)
  /\ lock' = [lock EXCEPT ![i] = TRUE]
  /\ inactive' = [inactive EXCEPT ![i] = @ + 1]
  /\ visits' = [visits EXCEPT ![i] = @ + 1]
  /\ todo' = todo \ {i}
  /\ collector' = i
  /\ UNCHANGED <<reg, owner, sessVars, taskVars, hsVars, link, loopVars, seen, scans, stopped,
                 crashed>>

\* A session inactive for too long is removed, and its Lock never released.
Expired_Late(i) == inactive[i] > InactiveMax
Expired(i) == inactive[i] >= InactiveMax
VisitEnds(i) ==
  /\ collector = i
  /\ IF Expired(i)
     THEN DelSession(i, "collected") /\ UNCHANGED lock
     ELSE lock' = [lock EXCEPT ![i] = FALSE] /\ UNCHANGED <<reg, fds>>
  /\ collector' = "range"
  /\ UNCHANGED <<owner, inactive, sessVars, tasks, cmds, hsVars, link, loopVars, todo, seen, scans,
                 stopped, visits, crashed>>

ScanEnds ==
  /\ collector = "range"
  /\ todo = {}
  /\ collector' = IF stopped /\ ~seen THEN "ended" ELSE "sleep"
  /\ UNCHANGED <<regVars, lock, sessVars, taskVars, hsVars, link, loopVars, todo, seen, scans,
                 stopped, visits, crashed>>

Stop ==
  /\ ~stopped
  /\ stopped' = TRUE
  /\ UNCHANGED <<regVars, lock, sessVars, taskVars, hsVars, link, loopVars, collector, todo, seen,
                 scans, visits, crashed>>

(***************************************************************************)
(* The peer and the network.                                               *)
(***************************************************************************)
PeerCloses(h) ==
  /\ link[h] = "up"
  /\ link' = [link EXCEPT ![h] = "normal"]
  /\ UNCHANGED <<regVars, lock, sessVars, taskVars, hsVars, loopVars, scanVars, crashed>>

Lose(h) ==
  /\ link[h] = "up"
  /\ link' = [link EXCEPT ![h] = "lost"]
  /\ UNCHANGED <<regVars, lock, sessVars, taskVars, hsVars, loopVars, scanVars, crashed>>

HandlerNext(h) ==
  \/ Publish(h) \/ GetSession(h) \/ TryLock(h) \/ UpgradeFails(h) \/ TakeConn(h)

\* What the read loop does once its connection has ended.
StopNext(h) ==
  \/ ReadFails(h) \/ StopCancel(h) \/ StopDetach(h) \/ StopWait(h) \/ StopDelete(h)
  \/ StopRelease(h) \/ Drain(h) \/ Woken(h)

TaskNext(t) == TaskWork(t) \/ TaskReply(t) \/ TaskReturn(t)

ScanNext == ScanEnds \/ \E i \in Ids : VisitPasses(i) \/ VisitLocks(i) \/ VisitEnds(i)

Next ==
  /\ ~crashed
  /\ \/ \E h \in Handshakes :
          \/ Reserve(h) \/ ResumeRequest(h) \/ HandlerNext(h)
          \/ ReadCommand(h) \/ Go(h) \/ Refuse(h) \/ StreamEnd(h) \/ BadCommand(h) \/ StopNext(h)
          \/ PeerCloses(h) \/ Lose(h)
     \/ \E t \in tasks : TaskNext(t)
     \/ ScanStart \/ ScanNext \/ Stop

Spec == Init /\ [][Next]_vars

(***************************************************************************)
(* Fairness: runnable goroutines run and syscalls return, except the wait  *)
(* for a lock somebody else may keep.  Nothing forces the peer to do       *)
(* anything, nor the collector to scan.                                    *)
(***************************************************************************)
Fairness ==
  /\ \A h \in Handshakes :
       /\ WF_vars(~crashed /\ HandlerNext(h)) /\ WF_vars(~crashed /\ (Go(h) \/ Refuse(h) \/ StopNext(h)))
       /\ WF_vars(~crashed /\ \E t \in tasks :
                    t.h = h /\ (t.kind = "lockwait" => t.at # "run") /\ TaskNext(t))
  /\ WF_vars(~crashed /\ ScanNext)

FairSpec == Spec /\ Fairness

-----------------------------------------------------------------------------
(***************************************************************************)
(* Safety.                                                                 *)
(***************************************************************************)
Running(h) == loop[h] \in {"read", "go", "cancel", "detach", "wait", "delete", "release"}
Upgrading(h) == hs[h] = "upgrade"

\* session.Lock says who has the session: a handshake being upgraded, the
\* read loop of one connection, the collector, or, for good, nobody after
\* the collector has removed it.  Two of them never have it at once.
OneHolder ==
  \A i \in Ids :
    LET holders == {h \in Handshakes : sid[h] = i /\ (Upgrading(h) \/ Running(h))}
    IN  /\ lock[i] <=> holders # {} \/ collector = i \/ reg[i] = "collected"
        /\ \A g, h \in holders : g = h
        /\ holders # {} => collector # i /\ reg[i] # "collected"

\* A command runs only while the loop of the connection it came on does, so
\* that its response can never go to a later connection: stopConn waits for
\* the commands before it lets the next connection in.
NoStrayCommand ==
  \A t \in tasks : Running(t.h) /\ ctx[sid[t.h]] = t.h /\ conn[sid[t.h]] \in {t.h, None}

\* stopConn unlocks connErrLock only while it is locked, and a new
\* connection finds it free: its first error is the one recorded.
ErrLockPaired ==
  /\ \A h \in Handshakes : loop[h] \in {"cancel", "detach", "wait"} => errLock[sid[h]]
  /\ \A i \in Ids : ~lock[i] => ~errLock[i]

\* The collector removes a session only when nothing of it runs, and only
\* after it found the session idle InactiveMax times since it hibernated:
\* technical.md has disconnected sessions kept in a hibernated state.
CollectedIdle ==
  [][\A i \in Ids : reg'[i] = "collected" /\ reg[i] # "collected" =>
       TasksOf(i) = {} /\ visits[i] >= InactiveMax /\ fds'[i] = {}]_vars

\* A connection runs only on a session of the user who made the handshake.
OwnSession == \A h \in Handshakes : Running(h) => owner[sid[h]] = who[h]

\* The process survives the reuse of a session's WaitGroup.
NoCrash == ~crashed

(***************************************************************************)
(* Liveness, under FairSpec.                                               *)
(***************************************************************************)
\* When its connection ends a session is released, to be resumed by the
\* next handshake (usage.md: it "may be unavailable briefly while the
\* server finishes handling the previous connection"), with two exceptions
\* that last: a command that goes on waiting for a file lock, for which
\* stopConn waits; and open write streams that fill cmdGroup while the read
\* loop waits for a place in it, and so never sees the connection's end.
LockWaits(h) == \E t \in TasksOf(sid[h]) : t.kind = "lockwait" /\ t.at = "run"
FullOfStreams(h) ==
  /\ loop[h] = "go"
  /\ Cardinality({t \in TasksOf(sid[h]) : t.at = "input"}) >= Limit
Released ==
  \A h \in Handshakes :
    [](Running(h) /\ link[h] # "up" =>
         <>(~Running(h) \/ crashed) \/ <>[](LockWaits(h) \/ FullOfStreams(h)))

\* A handshake is answered.
HandshakeEnds ==
  \A h \in Handshakes :
    hs[h] # "new" ~> hs[h] \in {"served", "refused", "busy", "failed"} \/ crashed

=============================================================================
