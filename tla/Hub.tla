-------------------------------- MODULE Hub --------------------------------
(***************************************************************************)
(* The server's hub (server/hub.go, server/listen.go): the HTTP server and *)
(* its listener, reload on SIGHUP and shutdown on SIGINT or SIGTERM.  Each *)
(* signal is handled by a goroutine of its own.  A behaviour begins where  *)
(* Run has started the first HTTP server and waits for exitErrorChan.      *)
(*                                                                         *)
(* WSFS sessions are hijacked connections: http.Server.Shutdown does not   *)
(* wait for them, and they end with the process.                           *)
(***************************************************************************)
EXTENDS Naturals, FiniteSets

CONSTANTS
  Hups,       \* SIGHUPs, each handled by IssueReload
  Stops,      \* SIGINTs and SIGTERMs, each handled by IssueShutdown
  Configs,    \* contents the configuration file can have
  First,      \* the configuration Run was given
  MaxEdits    \* bound: edits of the file

Listeners == [net : {"tcp", "unix"}, addr : {"a", "b", "s"}, tls : BOOLEAN]

ASSUME ConstantsAssumption ==
  /\ Configs \subseteq [listener : Listeners, wsfs : BOOLEAN, decodes : BOOLEAN, valid : BOOLEAN]
  /\ First \in Configs /\ First.decodes /\ First.valid
  /\ MaxEdits \in Nat

Servers == 0 .. Cardinality(Hups)   \* HTTP servers in the order they start
Addrs == {"a", "b", "s"}
NoServer == Cardinality(Hups) + 1

VARIABLES
  file,       \* the configuration file
  edits,
  inst,       \* the configuration of Hub.inst
  lconf,      \* Hub.listenerConfig
  http,       \* Hub.httpServer
  lock,       \* Hub.lock
  reentrant,  \* Hub.reloadReentrant
  registry,   \* the configuration the session registry was last given, none without one
  pc,         \* where each signal's goroutine is
  conf,       \* the configuration its reload works with
  old,        \* the HTTP server it shuts down
  serving,    \* state of each HTTP server
  at,         \* the listener of each
  reqs,       \* servers with a request in flight
  bound,      \* the server an address leads to
  exitChan,   \* exitErrorChan holds an error
  proc,       \* "running" while Run waits
  stopped,    \* SessionRegistry.Stop was called
  owed,       \* history: a reload was refused the lock since the file was last read
  taken,      \* history: sockets listen was to replace while a server was at them
  shutdown    \* a shutdown was issued

admin == <<file, edits, shutdown>>
hubVars == <<inst, lconf, http>>
sync == <<lock, reentrant, owed>>
job == <<conf, old>>
netVars == <<serving, at, reqs, bound, taken>>
out == <<exitChan, proc, stopped>>
vars == <<admin, hubVars, sync, registry, pc, job, netVars, out>>

Init ==
  /\ file = First /\ edits = 0
  /\ inst = First /\ lconf = First.listener /\ http = 0
  /\ lock = FALSE /\ reentrant = FALSE
  /\ registry = IF First.wsfs THEN {First} ELSE {}
  /\ pc = [p \in Hups \cup Stops |-> "idle"]
  /\ conf = [p \in Hups |-> First] /\ old = [p \in Hups \cup Stops |-> 0]
  /\ serving = [s \in Servers |-> IF s = 0 THEN "serving" ELSE "off"]
  /\ at = [s \in Servers |-> First.listener]
  /\ reqs = {} /\ bound = [a \in Addrs |-> IF a = First.listener.addr THEN 0 ELSE NoServer]
  /\ exitChan = FALSE /\ proc = "running" /\ stopped = FALSE
  /\ owed = FALSE /\ taken = {} /\ shutdown = FALSE

Goto(p, to) == pc' = [pc EXCEPT ![p] = to]

\* The administrator edits the file, and signals the process.
Edit ==
  /\ edits < MaxEdits
  /\ edits' = edits + 1
  /\ file' \in Configs \ {file}
  /\ UNCHANGED <<hubVars, sync, job, netVars, out, registry, pc, shutdown>>

Signal(p) ==
  /\ pc[p] = "idle"
  /\ Goto(p, IF p \in Hups THEN "try" ELSE "shutdown")
  /\ shutdown' = (shutdown \/ p \in Stops)
  /\ UNCHANGED <<hubVars, sync, job, netVars, out, file, edits, registry>>

(***************************************************************************)
(* IssueReload and doReload.                                               *)
(***************************************************************************)
TryLock_Always(p) == Goto(p, "conf") /\ lock' = TRUE
TryLock(p) ==
  /\ Goto(p, IF lock THEN "mark" ELSE "conf")
  /\ lock' = TRUE

IssueReload(p) ==
  /\ pc[p] = "try"
  /\ TryLock(p)
  /\ owed' = (owed \/ lock)
  /\ UNCHANGED <<admin, hubVars, job, netVars, out, reentrant, registry>>

\* Another reload runs, or ran: it is told to reload once more.
Postpone(p) ==
  /\ pc[p] = "mark"
  /\ reentrant' = TRUE
  /\ Goto(p, "done")
  /\ UNCHANGED <<admin, hubVars, job, netVars, out, lock, registry, owed>>

GetConfig(p) ==
  /\ pc[p] = "conf"
  /\ conf' = [conf EXCEPT ![p] = file]
  /\ Goto(p, IF file.decodes THEN "registry" ELSE "unlock")
  /\ owed' = FALSE
  /\ UNCHANGED <<admin, hubVars, netVars, out, lock, reentrant, registry, old>>

\* ensureWSFSRegistry: with WSFS enabled the registry is made, or stays and
\* is given the configuration.
EnsureRegistry(p) ==
  /\ pc[p] = "registry"
  /\ registry' = IF conf[p].wsfs THEN {conf[p]} ELSE registry
  /\ Goto(p, "server")
  /\ UNCHANGED <<admin, hubVars, sync, job, netVars, out>>

ListenerEquals(p) == lconf = conf[p].listener

\* NewServer; with the same listener the new instance is all there is.
NewServer_Early(p) ==
  /\ pc[p] = "server"
  /\ IF conf[p].valid
     THEN /\ inst' = conf[p]
          /\ Goto(p, IF ListenerEquals(p) THEN "unlock" ELSE "listen")
     ELSE Goto(p, "unlock") /\ UNCHANGED inst
  /\ UNCHANGED <<admin, sync, job, netVars, out, lconf, http, registry>>
NewServer(p) ==
  /\ pc[p] = "server"
  /\ \/ /\ ~conf[p].valid
        /\ Goto(p, "unlock") /\ UNCHANGED inst
     \/ /\ conf[p].valid /\ ListenerEquals(p)
        /\ inst' = conf[p]
        /\ Goto(p, "unlock")
     \/ /\ conf[p].valid /\ ~ListenerEquals(p)
        /\ Goto(p, "listen") /\ UNCHANGED inst
  /\ UNCHANGED <<admin, sync, job, netVars, out, lconf, http, registry>>

Fresh == CHOOSE s \in Servers : serving[s] = "off"

\* listen.  For a unix socket it first removes the one at the path, unless
\* something else is there or it cannot be removed.  Then the key pair may be
\* unreadable or net.Listen fail, as it does for a TCP address in use.
Cleared(l) == IF l.net = "unix" THEN [bound EXCEPT ![l.addr] = NoServer] ELSE bound
Listen(p) ==
  LET l == conf[p].listener IN
  /\ pc[p] = "listen"
  /\ \/ l.net = "unix" /\ Goto(p, "unlock") /\ UNCHANGED <<at, bound, taken>>
     \/ /\ bound' = Cleared(l)
        /\ taken' = IF bound' = bound THEN taken ELSE taken \cup {l.addr}
        /\ Goto(p, "unlock") /\ UNCHANGED at
     \/ /\ Cleared(l)[l.addr] = NoServer
        /\ bound' = [bound EXCEPT ![l.addr] = Fresh]
        /\ taken' = IF bound[l.addr] = NoServer THEN taken ELSE taken \cup {l.addr}
        /\ at' = [at EXCEPT ![Fresh] = l]
        /\ Goto(p, "swap")
  /\ UNCHANGED <<admin, hubVars, sync, job, out, registry, serving, reqs>>

\* The new instance, listener and HTTP server take over.
Swap_KeepServer(p) ==
  /\ pc[p] = "swap"
  /\ inst' = conf[p] /\ lconf' = conf[p].listener /\ UNCHANGED http
  /\ serving' = [serving EXCEPT ![Fresh] = "serving"]
  /\ old' = [old EXCEPT ![p] = http]
  /\ Goto(p, "drain")
  /\ UNCHANGED <<admin, sync, out, registry, conf, at, reqs, bound, taken>>
Swap(p) ==
  /\ pc[p] = "swap"
  /\ inst' = conf[p] /\ lconf' = conf[p].listener /\ http' = Fresh
  /\ serving' = [serving EXCEPT ![Fresh] = "serving"]
  /\ old' = [old EXCEPT ![p] = http]
  /\ Goto(p, "drain")
  /\ UNCHANGED <<admin, sync, out, registry, conf, at, reqs, bound, taken>>

\* IssueShutdown reads h.httpServer.
ReadServer(p) ==
  /\ pc[p] = "shutdown"
  /\ old' = [old EXCEPT ![p] = http]
  /\ Goto(p, "drain")
  /\ UNCHANGED <<admin, hubVars, sync, netVars, out, registry, conf>>

\* Shutdown closes the listener, which removes a unix socket ...
Unbound(s) == [bound EXCEPT ![at[s].addr] = IF at[s].net = "unix" \/ @ = s THEN NoServer ELSE @]
CloseListener(p) ==
  /\ pc[p] = "drain" /\ serving[old[p]] = "serving"
  /\ serving' = [serving EXCEPT ![old[p]] = "closed"]
  /\ bound' = Unbound(old[p])
  /\ UNCHANGED <<admin, hubVars, sync, job, out, registry, pc, at, reqs, taken>>

\* ... and waits for the requests in flight.  IssueShutdown then stops the
\* session registry.
Drained(p) == old[p] \notin reqs
Drain(p) ==
  /\ pc[p] = "drain" /\ serving[old[p]] # "serving" /\ Drained(p)
  /\ Goto(p, IF p \in Hups THEN "clean" ELSE "done")
  /\ stopped' = (stopped \/ p \in Stops)
  /\ UNCHANGED <<admin, hubVars, sync, job, netVars, exitChan, proc, registry>>

\* cleanListen removes the old socket.
CleanListen(p) ==
  /\ pc[p] = "clean"
  /\ bound' = Unbound(old[p])
  /\ Goto(p, "unlock")
  /\ UNCHANGED <<admin, hubVars, sync, job, out, registry, serving, at, reqs, taken>>

\* The deferred end of doReload.
Unlock(p) ==
  /\ pc[p] = "unlock"
  /\ lock' = FALSE
  /\ Goto(p, "cas")
  /\ UNCHANGED <<admin, hubVars, job, netVars, out, reentrant, registry, owed>>

Reissue_Dropped(p) == Goto(p, "done")
Reissue(p) == Goto(p, IF reentrant THEN "try" ELSE "done")
CompareAndSwap(p) ==
  /\ pc[p] = "cas"
  /\ reentrant' = FALSE
  /\ Reissue(p)
  /\ UNCHANGED <<admin, hubVars, job, netVars, out, lock, registry, owed>>

(***************************************************************************)
(* The HTTP servers, and Run.                                              *)
(***************************************************************************)
Request(s) ==
  /\ serving[s] = "serving" /\ s \notin reqs
  /\ reqs' = reqs \cup {s}
  /\ UNCHANGED <<admin, hubVars, sync, job, out, registry, pc, serving, at, bound, taken>>

RequestEnds(s) ==
  /\ s \in reqs
  /\ reqs' = reqs \ {s}
  /\ UNCHANGED <<admin, hubVars, sync, job, out, registry, pc, serving, at, bound, taken>>

\* Serve returns ErrServerClosed as soon as Shutdown has begun.
ServeReturns(s) ==
  /\ serving[s] = "closed" /\ ~exitChan
  /\ serving' = [serving EXCEPT ![s] = "returned"]
  /\ exitChan' = TRUE
  /\ UNCHANGED <<admin, hubVars, sync, job, registry, pc, at, reqs, bound, taken, proc, stopped>>

\* Run receives it, removes the first listener's socket, stops the session
\* registry, and the process ends.
RunReturns ==
  /\ exitChan
  /\ exitChan' = FALSE /\ proc' = "exited" /\ stopped' = TRUE
  /\ bound' = Unbound(0)
  /\ UNCHANGED <<admin, hubVars, sync, job, registry, pc, serving, at, reqs, taken>>

ReloadNext(p) ==
  \/ IssueReload(p) \/ Postpone(p) \/ GetConfig(p) \/ EnsureRegistry(p) \/ NewServer(p)
  \/ Listen(p) \/ Swap(p) \/ CleanListen(p) \/ Unlock(p) \/ CompareAndSwap(p)
ShutdownNext(p) == ReadServer(p) \/ CloseListener(p) \/ Drain(p)

Next ==
  /\ proc = "running"
  /\ \/ Edit
     \/ \E p \in Hups \cup Stops : Signal(p) \/ ShutdownNext(p)
     \/ \E p \in Hups : ReloadNext(p)
     \/ \E s \in Servers : Request(s) \/ RequestEnds(s) \/ ServeReturns(s)
     \/ RunReturns

Spec == Init /\ [][Next]_vars

\* Goroutines run on, and requests end: technical.md has the server wait for
\* them without a deadline.
FairSpec ==
  /\ Spec
  /\ \A p \in Hups : WF_vars(proc = "running" /\ ReloadNext(p))
  /\ \A p \in Hups \cup Stops : WF_vars(proc = "running" /\ ShutdownNext(p))
  /\ \A s \in Servers : WF_vars(proc = "running" /\ RequestEnds(s)) /\ WF_vars(proc = "running" /\ ServeReturns(s))
  /\ WF_vars(proc = "running" /\ RunReturns)

-----------------------------------------------------------------------------
Reloading(p) == pc[p] \in {"conf", "registry", "server", "listen", "swap", "drain", "clean", "unlock"}

\* doReload runs for one signal at a time, however many arrive ("The reload
\* operation is thread-safe", technical.md), and lock tells whether it does.
OneReload ==
  /\ lock <=> \E p \in Hups : Reloading(p)
  /\ \A p, q \in Hups : Reloading(p) /\ Reloading(q) => p = q

\* Between reloads the instance, the listener and the HTTP server are those
\* of one configuration that was accepted: a reload that is refused, at
\* whichever step, leaves these three ("continue using the old
\* configuration", technical.md).  An instance that serves WSFS has a
\* registry; that one may have been given a configuration refused later.
AllOfOneConfig ==
  ~lock => /\ inst.decodes /\ inst.valid /\ lconf = inst.listener /\ at[http] = lconf
           /\ inst.wsfs => registry # {}

\* As long as the process runs and no shutdown is issued there is an HTTP
\* server that accepts, and its address leads to it: usage.md has "the
\* replacement listener" started "before shutting down the old one".  The
\* exception is a unix socket that listen was once told to replace by
\* another one at the same path.  SurvivesReload is about the process going
\* on.
AlwaysServing ==
  proc = "running" /\ ~shutdown =>
    serving[http] = "serving" /\ (bound[lconf.addr] = http \/ lconf.addr \in taken)

\* The process ends only when told to: "long-lived WSFS sessions can survive
\* a listener reload" (technical.md).
SurvivesReload == proc = "exited" => shutdown

\* A reload that finds the lock taken ("Reload has been postponed") is made
\* up for: a reload reads the file after it.  The exception is a mark that is
\* stranded: IssueReload stored it when the reload it waits for had already
\* looked, and nobody is left to see it before the next SIGHUP.
Stranded ==
  reentrant /\ \A p \in Hups : ~Reloading(p) /\ pc[p] \notin {"try", "cas"}
PostponedRuns == owed ~> ~owed \/ Stranded \/ proc = "exited"

=============================================================================
