----------------------------- MODULE DirListing -----------------------------
(***************************************************************************)
(* ReadDirPlus: one command that lists a directory and prefetches its      *)
(* child directories.  The server streams the ROOT entries and then a      *)
(* section per child directory (server/wsfs/commands.go); the client       *)
(* returns the ROOT list as soon as it is complete and attaches the        *)
(* sections to its entries in the background, closing an entry's           *)
(* childReady when its Child is final (client/session/commands.go).        *)
(*                                                                         *)
(* The directory does not change during the command, except as far as the  *)
(* entry's kind tells: what ReadDir said of it (isDir) and what stat says  *)
(* (sentDir) may differ.  An entry stands for its name; the items of its   *)
(* listing are <<entry, 1>>, <<entry, 2>> ...  A message holds MsgCap      *)
(* records.                                                                *)
(***************************************************************************)
EXTENDS Naturals, Sequences, SequencesExt

CONSTANTS
  Roots,     \* the directories to list: sequences of Entries
  RootMax,   \* maxRootEntriesForPrefetch, 500 in the code
  ChildMax,  \* maxPrefetchDirEntries, 1000 in the code
  MaxDirs,   \* maxPrefetchDirs, 32 in the code
  MsgCap     \* dirents in a message of MaxMsgSize bytes

\* isDir is DirEntry.IsDir, sentDir the ModeDir bit of the dirent sent,
\* size the number of entries of the directory, and opens tells whether it
\* can be opened and read to its end.
Entries == [isDir : BOOLEAN, sentDir : BOOLEAN, size : 0 .. ChildMax + 1,
            opens : {"ok", "noopen", "ioerr"}]

ASSUME ConstantsAssumption ==
  /\ Roots \subseteq Seq(Entries)
  /\ RootMax \in Nat \ {0} /\ ChildMax \in Nat \ {0} /\ MaxDirs \in Nat \ {0}
  /\ MsgCap \in Nat \ {0}

None == 0
Child(l) == [cached |-> TRUE, items |-> l]
NoChild == [cached |-> FALSE, items |-> <<>>]

VARIABLES
  root,     \* the directory
  fate,     \* how reading it goes: "ok", "noopen" or "ioerr"
  srv,      \* where cmdReadDirPlus is
  pos,      \* ROOT entries it has written
  idx,      \* the ROOT entry nextPrefetchDir starts from
  used,     \* prefetchCount
  dir,      \* the directory being streamed
  count,    \* prefetchDirState.count
  buf,      \* the records in rsp
  wire,     \* messages on their way to the client's response channel
  lost,     \* the connection is gone
  cli,      \* where parseReadDirPlus is
  msg,      \* the message it works on
  list,     \* ROOT entries received
  items,    \* items of the current section
  section,  \* "root" or "prefetch"
  current,  \* currentPrefetchIdx
  pending,  \* pendingDirs
  closes,   \* how often each entry's childReady was closed
  child,    \* each entry's Child
  result    \* what CmdReadDirPlus returned

srvVars == <<root, fate, srv, pos, idx, used, dir, count, buf>>
cliVars == <<cli, msg, list, items, section, current, pending, closes, child, result>>
vars == <<srvVars, wire, lost, cliVars>>

Codes == {"OK", "PARTIAL", "ERR"}
Idx == 1 .. Len(root)
Item(e, n) == <<e, n>>
Listing(e) == [n \in 1 .. root[e].size |-> Item(e, n)]

Record(kind, e, n) == [kind |-> kind, e |-> e, n |-> n]
Message(code, recs) == [code |-> code, recs |-> recs]
Records == [kind : {"root", "item", "prefetch", "skip"}, e : Idx \cup {None},
            n : 0 .. ChildMax + 1]

TypeOK ==
  /\ root \in Roots /\ fate \in {"ok", "noopen", "ioerr"}
  /\ srv \in {"open", "root", "prefetch", "stream", "done"}
  /\ pos \in 0 .. Len(root) /\ idx \in 1 .. Len(root) + 1 /\ used \in 0 .. MaxDirs
  /\ dir \in Idx \cup {None} /\ count \in 0 .. ChildMax
  /\ Len(buf) <= MsgCap /\ Range(buf) \subseteq Records
  /\ \A m \in Range(wire) :
       m.code \in Codes /\ Len(m.recs) <= MsgCap /\ Range(m.recs) \subseteq Records
  /\ lost \in BOOLEAN
  /\ cli \in {"recv", "parse", "done"}
  /\ Range(list) \subseteq Idx /\ Len(list) <= Len(root)
  /\ section \in {"root", "prefetch"}
  /\ current \in Idx \cup {None} /\ Range(pending) \subseteq Idx
  /\ closes \in [Idx -> Nat] /\ DOMAIN child = Idx
  /\ result \in {"none", "OK", "ERR"}

Init ==
  /\ root \in Roots /\ fate \in {"ok", "noopen", "ioerr"}
  /\ srv = "open" /\ pos = 0 /\ idx = 1 /\ used = 0 /\ dir = None /\ count = 0 /\ buf = <<>>
  /\ wire = <<>> /\ lost = FALSE
  /\ cli = "recv" /\ msg = Message("PARTIAL", <<>>) /\ list = <<>> /\ items = <<>>
  /\ section = "root" /\ current = None /\ pending = <<>>
  /\ closes = [i \in Idx |-> 0] /\ child = [i \in Idx |-> NoChild] /\ result = "none"

(***************************************************************************)
(* The server: cmdReadDirPlus.                                             *)
(***************************************************************************)
\* s.write: nothing is written once the connection is gone.
Sent(code, recs) == IF lost THEN wire ELSE Append(wire, Message(code, recs))

\* writeDirentChunk, writePrefetchIndicator: a full buffer is sent first.
Chunk_Overwrites(r) == buf' = (IF Len(buf) = MsgCap THEN <<r>> ELSE Append(buf, r)) /\ UNCHANGED wire
Chunk(r) ==
  IF Len(buf) = MsgCap
  THEN wire' = Sent("PARTIAL", buf) /\ buf' = <<r>>
  ELSE buf' = Append(buf, r) /\ UNCHANGED wire

\* writeRspError; what rsp still held is dropped.
Fail ==
  /\ wire' = Sent("ERR", <<>>)
  /\ srv' = "done" /\ buf' = <<>>

\* os.Open and the first ReadDir.
OpenRoot ==
  /\ srv = "open"
  /\ IF fate = "noopen" THEN Fail ELSE srv' = "root" /\ UNCHANGED <<wire, buf>>
  /\ UNCHANGED <<root, fate, pos, idx, used, dir, count, lost, cliVars>>

RootEntry ==
  /\ srv = "root" /\ pos < Len(root)
  /\ pos' = pos + 1
  /\ Chunk(Record("root", pos + 1, 0))
  /\ UNCHANGED <<root, fate, srv, idx, used, dir, count, lost, cliVars>>

\* A later ReadDir fails.
RootFails ==
  /\ srv = "root" /\ fate = "ioerr"
  /\ Fail
  /\ UNCHANGED <<root, fate, pos, idx, used, dir, count, lost, cliVars>>

DisablePrefetch == Len(root) > RootMax

\* The end of the ROOT section: the final OK when the directory is large.
RootEnds_AlwaysOK ==
  /\ srv = "root" /\ fate = "ok" /\ pos = Len(root)
  /\ wire' = Sent("OK", buf)
  /\ srv' = IF DisablePrefetch THEN "done" ELSE "prefetch"
  /\ buf' = <<>>
  /\ UNCHANGED <<root, fate, pos, idx, used, dir, count, lost, cliVars>>
RootEnds ==
  /\ srv = "root" /\ fate = "ok" /\ pos = Len(root)
  /\ wire' = Sent(IF DisablePrefetch THEN "OK" ELSE "PARTIAL", buf)
  /\ srv' = IF DisablePrefetch THEN "done" ELSE "prefetch"
  /\ buf' = <<>>
  /\ UNCHANGED <<root, fate, pos, idx, used, dir, count, lost, cliVars>>

\* nextPrefetchDir: the next directory from entry idx on, unless MaxDirs
\* were used up.
NextDir_NoLimit ==
  LET dirs == {i \in idx .. Len(root) : root[i].isDir} IN
  IF dirs = {} THEN None ELSE CHOOSE i \in dirs : \A j \in dirs : i <= j
NextDir ==
  LET dirs == {i \in idx .. Len(root) : root[i].isDir} IN
  IF used = MaxDirs \/ dirs = {} THEN None ELSE CHOOSE i \in dirs : \A j \in dirs : i <= j
Opens(i) == i # None /\ root[i].opens # "noopen"

Use(i) == used' = used + 1 /\ idx' = i + 1
StreamOf(i) == dir' = i /\ count' = 0

NoMoreDirs_Silent ==
  /\ srv = "prefetch" /\ NextDir = None
  /\ srv' = "done"
  /\ UNCHANGED <<root, fate, pos, idx, used, dir, count, buf, wire, lost, cliVars>>
NoMoreDirs ==
  /\ srv = "prefetch" /\ NextDir = None
  /\ wire' = Sent("OK", <<>>)
  /\ srv' = "done"
  /\ UNCHANGED <<root, fate, pos, idx, used, dir, count, buf, lost, cliVars>>

DirUnreadable ==
  /\ srv = "prefetch" /\ NextDir # None /\ ~Opens(NextDir)
  /\ Use(NextDir)
  /\ Fail
  /\ UNCHANGED <<root, fate, pos, dir, count, lost, cliVars>>

DirStarts ==
  /\ srv = "prefetch" /\ Opens(NextDir)
  /\ Use(NextDir) /\ StreamOf(NextDir)
  /\ buf' = <<Record("prefetch", None, 0)>>
  /\ srv' = "stream"
  /\ UNCHANGED <<root, fate, pos, wire, lost, cliVars>>

\* streamPrefetchDir.
StreamEntry ==
  /\ srv = "stream" /\ count < root[dir].size /\ count < ChildMax
  /\ count' = count + 1
  /\ Chunk(Record("item", dir, count + 1))
  /\ UNCHANGED <<root, fate, srv, pos, idx, used, dir, lost, cliVars>>

StreamEnds ==
  /\ srv = "stream" /\ count = root[dir].size /\ root[dir].opens = "ok"
  /\ wire' = Sent("PARTIAL", buf)
  /\ buf' = <<>> /\ srv' = "prefetch"
  /\ UNCHANGED <<root, fate, pos, idx, used, dir, count, lost, cliVars>>

\* It failed, too many entries or a ReadDir error: the section is skipped,
\* and the next directory starts in its place.
StreamFailed ==
  /\ srv = "stream"
  /\ \/ count = ChildMax /\ count < root[dir].size
     \/ count = root[dir].size /\ root[dir].opens = "ioerr"

StreamSkips_Unmarked ==
  /\ StreamFailed /\ Opens(NextDir)
  /\ Use(NextDir) /\ StreamOf(NextDir)
  /\ Chunk(Record("prefetch", None, 0))
  /\ UNCHANGED <<root, fate, srv, pos, lost, cliVars>>
StreamSkips ==
  /\ StreamFailed /\ Opens(NextDir)
  /\ Use(NextDir) /\ StreamOf(NextDir)
  /\ Chunk(Record("skip", None, 0))
  /\ UNCHANGED <<root, fate, srv, pos, lost, cliVars>>

StreamGivesUp ==
  /\ StreamFailed /\ ~Opens(NextDir)
  /\ IF NextDir = None THEN UNCHANGED <<used, idx>> ELSE Use(NextDir)
  /\ Fail
  /\ UNCHANGED <<root, fate, pos, dir, count, lost, cliVars>>

(***************************************************************************)
(* The client: parseReadDirPlus.                                           *)
(***************************************************************************)
\* flushPrefetch and closeAllRemainingChildReady: the current entry's Child
\* is set or left nil, its childReady closed, and so are those of C.
Settle_NotRest(commit, C) ==
  /\ closes' = [i \in Idx |-> closes[i] + IF i = current THEN 1 ELSE 0]
  /\ child' = IF commit /\ current # None THEN [child EXCEPT ![current] = Child(items)] ELSE child
Settle(commit, C) ==
  /\ closes' = [i \in Idx |-> closes[i] + (IF i = current THEN 1 ELSE 0)
                                        + (IF i \in C THEN 1 ELSE 0)]
  /\ child' = IF commit /\ current # None THEN [child EXCEPT ![current] = Child(items)] ELSE child

\* rootCh: the first result is the command's.
Return(code) == result' = IF result = "none" THEN code ELSE result

Finish(commit, code) ==
  /\ Settle(commit, Range(pending))
  /\ Return(code)
  /\ cli' = "done"
  /\ items' = <<>> /\ current' = None

\* The end of the response: an error, from the server or the session.
ReceiveError ==
  /\ cli = "recv" /\ wire # <<>> /\ Head(wire).code = "ERR"
  /\ wire' = Tail(wire) /\ msg' = Head(wire)
  /\ Finish(FALSE, "ERR")
  /\ UNCHANGED <<srvVars, lost, list, section, pending>>

Receive ==
  /\ cli = "recv" /\ wire # <<>> /\ Head(wire).code # "ERR"
  /\ wire' = Tail(wire) /\ msg' = Head(wire)
  /\ cli' = "parse"
  /\ UNCHANGED <<srvVars, lost, list, items, section, current, pending, closes, child, result>>

Parsing(kind) == cli = "parse" /\ msg.recs # <<>> /\ Head(msg.recs).kind \in kind
Parsed == msg' = [msg EXCEPT !.recs = Tail(@)]

\* CONTINUE in the ROOT section: a directory gets a childReady.
ParseRoot ==
  LET e == Head(msg.recs).e IN
  /\ Parsing({"root"})
  /\ Parsed
  /\ list' = Append(list, e)
  /\ pending' = IF root[e].sentDir THEN Append(pending, e) ELSE pending
  /\ UNCHANGED <<srvVars, wire, lost, cli, items, section, current, closes, child, result>>

\* CONTINUE in a prefetch section.
ParseItem ==
  /\ Parsing({"item"})
  /\ Parsed
  /\ items' = Append(items, Item(Head(msg.recs).e, Head(msg.recs).n))
  /\ UNCHANGED <<srvVars, wire, lost, cli, list, section, current, pending, closes, child, result>>

\* PREFETCH and PREFETCH_SKIP: the list is returned, the section before is
\* settled, and the section goes to the next entry with a childReady.
NextPending_Stays == pending' = pending
NextPending == pending' = Tail(pending)

ParseSection ==
  /\ Parsing({"prefetch", "skip"}) /\ pending # <<>>
  /\ Parsed
  /\ Return("OK")
  /\ Settle(Head(msg.recs).kind = "prefetch", {})
  /\ items' = <<>> /\ section' = "prefetch"
  /\ current' = Head(pending) /\ NextPending
  /\ UNCHANGED <<srvVars, wire, lost, cli, list>>

\* "prefetch ordering mismatch": there is no such entry.
ParseMismatch ==
  /\ Parsing({"prefetch", "skip"}) /\ pending = <<>>
  /\ Parsed
  /\ Finish(Head(msg.recs).kind = "prefetch", "OK")
  /\ section' = "prefetch"
  /\ UNCHANGED <<srvVars, wire, lost, list, pending>>

ParseEnd ==
  /\ cli = "parse" /\ msg.recs = <<>> /\ msg.code = "PARTIAL"
  /\ cli' = "recv"
  /\ UNCHANGED <<srvVars, wire, lost, msg, list, items, section, current, pending, closes, child,
                 result>>

ParseOK ==
  /\ cli = "parse" /\ msg.recs = <<>> /\ msg.code = "OK"
  /\ Finish(TRUE, "OK")
  /\ UNCHANGED <<srvVars, wire, lost, msg, list, section, pending>>

(***************************************************************************)
(* The connection is lost: some of what was on its way arrives, and then   *)
(* the session's error notice.                                             *)
(***************************************************************************)
Lose ==
  /\ ~lost /\ cli # "done"
  /\ lost' = TRUE
  /\ \E n \in 0 .. Len(wire) : wire' = Append(SubSeq(wire, 1, n), Message("ERR", <<>>))
  /\ UNCHANGED <<srvVars, cliVars>>

ServerNext ==
  \/ OpenRoot \/ RootEntry \/ RootFails \/ RootEnds
  \/ NoMoreDirs \/ DirUnreadable \/ DirStarts
  \/ StreamEntry \/ StreamEnds \/ StreamSkips \/ StreamGivesUp

ClientNext ==
  \/ ReceiveError \/ Receive \/ ParseRoot \/ ParseItem \/ ParseSection \/ ParseMismatch
  \/ ParseEnd \/ ParseOK

Next == ServerNext \/ ClientNext \/ Lose

Spec == Init /\ [][Next]_vars

\* The server's goroutine and the client's parser run while they can.
FairSpec == Spec /\ WF_vars(ServerNext) /\ WF_vars(ClientNext)

-----------------------------------------------------------------------------
\* stat agrees with ReadDir on what is a directory.  They differ when the
\* entry is a link out of the storage, which is sent as what it points to,
\* or changed in between.
Agree == \A i \in Idx : root[i].isDir = root[i].sentDir

\* No childReady is closed twice (closing a closed channel panics), however
\* the response ends.
ClosedOnce == \A i \in Idx : closes[i] <= 1

\* A list is returned complete and in ROOT order, or not at all: an error in
\* the middle of the ROOT section never passes for the end of the directory.
RootComplete == result = "OK" => list = [i \in Idx |-> i]

\* A prefetched Child is the whole listing of the entry's own directory:
\* skipped, oversized and broken sections leave it nil, and each section is
\* for "the next directory entry from the ROOT result, in ROOT order".
ChildIsOwn == \A i \in Idx : child[i].cached => child[i].items = Listing(i) /\ root[i].opens = "ok"

\* It is while the two sides agree on which entries are directories.
ChildIsOwnIfAgreed == Agree => ChildIsOwn

\* parseReadDirPlus releases its mark only when the server has nothing more
\* to send for it, so no late section is delivered to another command.
MarkClean == Agree /\ ~lost /\ cli = "done" => wire = <<>> /\ srv = "done"

\* Every childReady is closed in the end, so that no Lookup waits forever,
\* even if the connection is lost or the server gives up.
PrefetchResolves ==
  \A i \in 1 .. RootMax + 1 :
    i \in Range(pending) ~> i \in DOMAIN closes /\ closes[i] > 0

\* CmdReadDirPlus returns and its mark is released.
CommandEnds == <>(result # "none" /\ cli = "done")

=============================================================================
