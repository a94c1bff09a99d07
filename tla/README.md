# A TLA+ model of wsfs-core

wsfs-core serves a directory over a websocket (WSFS), WebDAV and a web UI, and
mounts it on a client through FUSE or WinFsp.  This project models the parts of
it in which several goroutines, two machines or a lost connection meet, checks
them with TLC on small instances, and proves the core of the client session
with TLAPS for every size.

## The system

| part | state | operations | meets |
|---|---|---|---|
| client session (`client/session/session.go`, `writeStream.go`) | life-cycle state and count of requests, 256 client marks with a response channel each, the connection, its context and error | commands (`newClientMark`, `beginRequest`, receive, `releaseClientMark`), `readLoop`, `pingLoop`, `stopConn`, `errorMode`, `Close` | FUSE callers, the server |
| client commands (`client/session/commands.go`) | per call: parts, chunks, directory items with `childReady` | one function per command | session |
| server session and registry (`server/wsfs/session.go`, `registry.go`, `handler.go`) | registry of sessions, per session its lock, connection, descriptors, running commands, write streams, inactivity count | handshake, resume, `readLoop`, commands, `stopConn`, `CollectInactiveSessions` | HTTP server, clients |
| server commands (`server/wsfs/commands*.go`) | descriptors, files | one function per command | session, file system |
| hub and listener (`server/hub.go`, `listen.go`) | instance, HTTP server, listener, reload lock | `Run`, `IssueReload`, `doReload`, `IssueShutdown` | signals, configuration, registry |
| unix and windows mount clients (`client/unix`, `client/windows`) | caches of attributes, directories and data | FUSE / WinFsp operations | client commands |
| WebDAV, web UI (`server/webdav`, `server/webui`) | none of their own | HTTP methods | file system |
| the rest: configuration, users, storage, protocol encoding, conversions, command line | immutable or none | | |

A command takes a *mark*, writes one message and waits on the mark's channel of
capacity one; the client's read loop puts responses there.  Reads and directory
listings have several responses, write streams several requests.  When a
connection fails the client's read loop notifies every mark in use and dials
again with the session's id; the server refuses the handshake (412) until the
old connection's loop has waited for its commands and released the session.
Sessions nobody resumes are collected.

What is hard in it, and therefore what the properties are about: marks shared
between callers while a recovery walks over them; a lock that one goroutine
takes and another releases; responses that arrive for a mark that was given
back; the hand-over of a server session between two connections; a directory
listing whose two ends decide separately what is a directory; transfers cut off
in the middle; reloads that overlap.  PROJECT.json lists these hazards with the
lines where they bite and the properties that cover them, and those that no
property covers yet.

## Modules

**ClientSession** is `session.go` and the message pattern of `writeStream.go`
and `commands.go`.  Variables carry the names of the fields of `Session`; `pc`,
`loop`, `ping` and `closer` are where the callers, the read loop of each
connection, its ping loop and the callers of `Close` are.  There is an action
per critical section or blocking point: `newClientMark` is `Admit` and
`PickMark` because the count and the mark are taken under different locks,
`stopConn` is `StopLifecycle`, `StopDetach`, `StopUnlock`, `NotifyLook` and
`NotifyPush` per mark, `NotifyDone`, and then `errorMode`'s `RedialFails` or
`RedialSucceeds`, `TakeConn`, `TakeContext`, `Resume`.  Commands come in three
shapes: one response (`cmd`), several (`read`), several requests and one or more
responses (`stream`, or `refused` when the server does not open it: every
message is then answered with an error, and no close response comes).  The peer
is the server's `cmdWriteStream*` and `writeStream.run` as far as their
responses go; it answers every other request, in any order (responses on their
way are a set).  `early` remembers that a `WriteStream.Close` received
`ErrorUnknown`.  A ping fails on a broken connection, and by its timeout on one
that is up, which then counts as a loss.

**ClientSessionProofs** has the theorems about it.

**ServerSession** is the handshake (`ServeHTTP`), the registry, the read loop
and `stopConn` of each connection, the goroutines of `cmdGroup`, and the
collector.  The peer is the environment.  A command may wait for a file lock,
and a write stream keeps its place in `cmdGroup` until its last message, so that
a full group blocks the read loop.  `crashed` is the panic that
`sync.WaitGroup` raises when it is reused before a `Wait` has returned.

**DirListing** is `cmdReadDirPlus` and `parseReadDirPlus` with the messages
between them: the ROOT entries, a section per child directory, skipped sections,
limits, and the two-phase parser that returns the list early and releases those
who wait for a child's listing.

**FileTransfer** is how reads, writes, write streams and copies larger than a
message are cut up on the client and put together on the server, over a
connection that may be lost and resumed.  The file is a regular one: a read is
short only at its end.  A bad descriptor fails the command, or refuses the
stream.  **Transfer** is what each of them
promises its caller: bytes move in order, a success counts exactly what moved
and nothing moves after it, an error never counts more than what moved.
FileTransfer implements Transfer (`Implements`) with `moved` mapped to the bytes
in the caller's buffer or in the file.  The count of a *read* that failed is
left out of the mapping: `CmdRead` and `CmdReadAt` count the text of the error
response as data, and their callers ignore it.

**Hub** is the hub's reload, shutdown and exit, with the HTTP servers and the
addresses they are bound to.  `listen` may fail before it removes an old unix
socket (something else is at the path), after it (key pair, `net.Listen`), or on
a TCP address in use; `taken` remembers the addresses whose socket was removed.
`owed` is a reload that found the lock taken and has not been made up for, from
its failed `TryLock` on.

The modules `MC...` give the constants their values.  A definition whose name
is another's with a suffix (`Free_Always`) is that definition with a plausible
mistake in it; each property is violated when its mistake replaces the original.

## Runs

| run | shows | bounds |
|---|---|---|
| client_lifecycle | counting of requests, draining before `Close`, `connErrLock` paired, one reader at a time, no waiting caller forgotten, `exit` decides once | 2 commands of 2 callers, all of the one-response shape, 1 `Close`, 2 marks, 2 connections, 1 loss, keepalive |
| client_shapes | marks are exclusive; no waiting read or stream is forgotten, except a refused stream while its connection is up; each gets its own responses until a connection is lost or a `Close` of a stream has stopped at `ErrorUnknown` | 3 commands of 2 callers over 2 marks, 2 connections, 1 loss, all shapes, every stream error; no `Close`, no keepalive |
| client_liveness | one-response commands and `Close` finish unless the session was reconnected; the first recovery completes and answers everyone who waited | as client_lifecycle, without keepalive |
| client_misdelivery | *violated*: a response can go to another command | 3 one-response commands, 1 loss, keepalive |
| server_safety | one holder of a session, no command outlives its connection's loop, `connErrLock` paired, sessions stay with their user, only idle ones are collected and only after the full count | 1 session, 2 handshakes of 2 users, 2 commands of every kind, 3 scans |
| server_release | a session is released when its connection ends, unless a lock wait lasts or streams fill `cmdGroup` while the read loop waits for a place; handshakes are answered | 1 session, 2 handshakes, 2 commands and 1 place in `cmdGroup`, plain ones, lock waits and streams, 1 scan that may collect |
| server_crash | *violated*: the second `cmdGroup.Wait` can panic | 2 handshakes, 2 plain commands |
| listing | the list is complete or not returned; a prefetched child is its own directory's listing if both sides agree on what is a directory; each `childReady` is closed, once; no message is left for the next command, if the sides agree and the connection holds | all directories of up to 3 entries of 9 kinds, and those of 4 that are files or directories; at most 3 entries, 1 child entry, 2 prefetched directories, messages of 2 |
| listing_child | *violated*: a child can be given another directory's listing | links out of the storage |
| transfer | written bytes are an unbroken prefix at the right place; a read is exact; FileTransfer implements Transfer; every transfer returns, except a refused stream while the connection holds | sizes 1 to 6 with messages of 2 and 3 bytes, 1 loss |
| hub_reload | one reload at a time; a refused reload leaves instance, listener and server as they were; while the process runs and is not told to stop a server accepts, unless a reload removed the unix socket at its address; a postponed reload happens unless the process ends or its mark is stored after the running reload has looked | 2 SIGHUPs, 1 shutdown, 2 edits among 8 configurations, the first without WSFS |
| hub_survival | *violated*: a reload with another listener ends the process | 2 configurations, no shutdown |

The bounds are the smallest at which the cases above occur.  Two marks are
enough for a mark to be reused and for the notification to pass one that is
busy; a second connection is what makes a notice stale; a third command is the
one that finds it.  On the server a second handshake is the resumption, and in
server_release the second command finds `cmdGroup` full.  Sizes up to three messages contain one, a multiple, a
remainder, and a last chunk that has grown past a message through short writes.
Three entries, a limit of one child entry and two prefetched directories reach
every limit of the listing.  Deadlock is not checked: commands, handshakes,
signals and losses are bounded, and a behaviour may end.

Fairness is weak fairness of each goroutine's steps: the Go scheduler runs a
goroutine that can run, locks and channels are granted in the end, a dial ends
with a connection or an error.  Nothing is assumed of callers, signals, losses,
the collector, or of a command that waits for a file lock.  The peer of a connection that is up
answers.  A caller that opened a write stream closes it.  Requests in flight end
(hub.go waits for them without a deadline).  The liveness properties of the
server and the hub hold of a process that has not ended; the findings below are
ways in which it ends.

Six properties name an exception, because the code has the case and it does not
do better; TLC violates each of them as soon as the exception is dropped.

| property | exception |
|---|---|
| `NoForgottenWaiter`, `TransferEnds` | a refused write stream: `WriteStream.Close` (`writeStream.go:131`) keeps waiting for a close response; only the loss of the connection ends it |
| `OwnWhileUp` | a stream whose `Close` stops at `ErrorUnknown` (`writeStream.go:146`), the code of every unmapped errno, leaves its close response to the next command with the mark |
| `Released` | `stopConn` waits for a command that waits for a file lock; and streams that hold every place of `cmdGroup` block the read loop, which then sees neither their last messages nor the end of the connection |
| `AlwaysServing` | a unix socket that `listen` has removed, for a reload that then fails or whose old listener unlinks the new socket |
| `PostponedRuns` | `hub.go:97` stores its mark after the running reload's `CompareAndSwap` (`Stranded`); only the next SIGHUP makes up for it |

## Where the code does not do what is written

- *client_misdelivery*: a caller whose send failed gives its mark back without
  taking the notice pushed for it; the next command with the mark takes it for
  its response, and its own response goes to the one after.
- *server_crash*: after a session was released its old loop waits for `cmdGroup`
  again; if the next connection has started commands the `WaitGroup` may panic.
- *listing_child*: the server goes by `DirEntry.IsDir`, the client by the mode
  it is sent, and a link out of the storage differs.
- *hub_survival*: the old server's `ErrServerClosed` is taken for the end of the
  process.

Related cases that no property covers are kept as hazards with a note: a second
loss can leave the recovery blocked on a full channel; `takeConn` publishes the
connection before its context; `Close` may skip its handshake; a handshake may
run on a session that was just removed; a listing is dropped when a child cannot
be opened; a copy whose request could not be sent reports success with the bytes
copied before it.

Smaller hazards that PROJECT.json leaves out:

- `client/session/session.go:252` reads `connErr` after its lock was released; a
  late failure of the old connection can change what `Close` returns.
- `client/session/commands.go:866` counts the text of a failed read's response.
- `client/session/commands.go:194`: the connection is lost between two sections
  of a listing whose list was already returned (`listing` includes this).
- `server/wsfs/commands-unix.go:165` loads, deletes and closes a descriptor in
  three steps; `:114` leaks one until the session goes if its response is lost.
- `server/wsfs/upgrade.go:20`: a failed upgrade leaves its session to the
  collector.
- `server/hub.go:124` hands the registry the new configuration before the rest
  of it is found valid; `:184` may shut down a server a reload has just replaced.
- `cmd/serve/serve.go:59` installs the signal handlers before `Run` has set its
  fields.

## Proofs

`ClientSessionProofs` proves, for any set of callers and closers, any number of
marks, connections, losses and commands:

- `TypeCorrect`: `TypeOK`;
- `MarksAreExclusive`: no two commands in flight share a mark, and exactly the
  marks in use are locked;
- `CountIsExact`: `activeReqs` is the number of commands in flight;
- `CloseDrains`: a closing session has none, and admits none;
- `UnlockIsPaired`: `stopConn` never unlocks a free `connErrLock`;
- `ReadersAreSequential`: one connection's loop at a time;
- `ClosedNoticeUnused`: nobody is handed the "Session closed" notice;
- `ExitIsFinal`: `exit` decides once.

The assumptions are those of `ConstantsAssumption` in ClientSession: finitely
many callers, at least one mark and one connection, and the types of the bounds.
The argument is one inductive invariant, `IInv`: the seven invariants above and
four facts they need.

- `LoopPlace`: a loop that pushes a notice is at a mark of the array, and one
  that takes a new connection still has one to take.  With it the types and
  `OneReader` are kept; `ErrLockHeld` then uses that only one loop is in
  `stopConn`.
- `GraceClosing`: a loop that saw a graceful close finds no command in flight and
  the session closing or closed.  It is established from `ClosingDrained`, which
  in turn rests on `ActiveReqsCount`, because `Close` looks at the count and not
  at the commands; and it stays because a closing session admits nobody.
- `NoClosedHand`: no loop holds a "Session closed" response it read.  With
  `GraceClosing` and `MarksExclusive` (no command in flight, so every mark is
  free) the closing notification skips every mark, which is `NoClosedNotice`.
- `ExitClosed`: a result means a closed session; `ExitIsFinal` follows from it.

Each conjunct has a lemma with a case per group of actions that can disturb it,
and frame lemmas (`CallerFrame`, `LoopFrame`, `OtherFrame`, `MarksFrame`) for the
rest.

Only model-checked: the liveness properties (the prover has neither fairness nor
`ENABLED`), `NoForgottenWaiter`, `OwnWhileUp`, and everything about the other
modules.

## Not modelled, and the order to come

Left out for good: encoding of messages (generated), flag tables, the web UI's
rendering, configuration parsing, logging, command-line parsing.

Planned, in this order:

1. `ServerSessionProofs`: `OneHolder`, `NoStrayCommand`, `ErrLockPaired`; the
   invariants of Hub (`OneReload`) and of DirListing (`ClosedOnce`).
2. `NodeCache`: the unix client's attribute, directory and data caches with
   concurrent operations: what a cached answer may be older than; its windows
   counterpart.
3. A composition of client and server session: resumption with 401, 400 and 412
   and the redial limit of `mount.go`; commands are executed at most once.
4. The server's descriptors, OFD locks and the remaining file commands.
5. `XAttr`: setting a large attribute in pieces, and its rollback.
6. WebDAV COPY and MOVE of trees.
7. An abstract request/response specification that ClientSession implements
   while no connection is lost; `NoForgottenWaiter` as a theorem.
