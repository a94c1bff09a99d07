---------------------------- MODULE FileTransfer ----------------------------
(***************************************************************************)
(* How a read, write or copy larger than a message is carried out: partial *)
(* responses of CmdRead and CmdReadAt, the chunks of CmdWrite, the write   *)
(* stream of CmdWriteAt and the bounded steps of CmdCopyFileRange, on the  *)
(* client (client/session/{commands,writeStream}.go) and on the server     *)
(* (server/wsfs/{commands,commands-unix,session}.go), over a connection    *)
(* that may be lost at any moment.                                         *)
(*                                                                         *)
(* One operation on a regular file; its descriptor may turn out to be bad. *)
(* Bytes are numbered: byte k of the caller's data, or of the source of a  *)
(* copy, is k; a byte of the file is 0 until it is written.  What is read  *)
(* is the positions read.  A syscall may fail or write less than it was    *)
(* given; a read is short only at the end of the file.                     *)
(***************************************************************************)
EXTENDS Naturals, Sequences, FiniteSets

CONSTANTS
  Kinds,     \* operations in use
  Sizes,     \* sizes asked for
  Offset,    \* where in the file, and the descriptor's position
  Top,       \* bound: bytes in the file
  Payload,   \* of CmdRead, CmdWrite, CmdWriteAt and CmdWriteStreamOpen
  Data,      \* of CmdWriteStreamData, larger than Payload
  CopyMax    \* MaxCopyFileRangeChunk

AllKinds == {"read", "readat", "write", "writeat", "copy"}

ASSUME ConstantsAssumption ==
  /\ Kinds \subseteq AllKinds /\ Sizes \subseteq Nat \ {0} /\ Offset \in Nat
  /\ Payload \in Nat \ {0} /\ Data \in Nat \ {0} /\ CopyMax \in Nat \ {0}
  /\ \A n \in Sizes : Offset + n <= Top

VARIABLES
  op,      \* the operation: kind and size
  cl,      \* where the client is
  off,     \* bytes handed over, or done, so far
  full,    \* CmdWrite: full chunks to go
  last,    \* CmdWrite: a last chunk follows
  base,    \* CmdWrite: the count an error in a nested call reports
  want,    \* CmdCopyFileRange: the size of the step under way
  got,     \* what was read into the caller's buffer
  werr,    \* WriteStream.writeErrCode
  ret,     \* code and count returned
  up,      \* messages to the server
  down,    \* responses
  conn,    \* the first connection, its loss, and the one after it
  job,     \* the command the server works on
  str,     \* the server's write stream; refused records an open that was refused
  file, eof, pos, src

clVars == <<cl, off, full, last, base, want, got, werr, ret>>
srvVars == <<job, str>>
fileVars == <<file, eof, pos, src>>
vars == <<op, clVars, up, down, conn, srvVars, fileVars>>

Least_Second(a, b) == b
Least(a, b) == IF a < b THEN a ELSE b
Bytes(lo, n) == [k \in 1 .. n |-> lo + k]
NoJob == [kind |-> "none", at |-> 0, full |-> 0, tail |-> 0, data |-> <<>>]
Text == <<Top>>   \* the description in an error response, not a byte of the file
NoStream == [on |-> FALSE, refused |-> FALSE, at |-> 0, total |-> 0, failed |-> FALSE, data |-> <<>>]
Request(kind, at, data, n) == [kind |-> kind, at |-> at, data |-> data, n |-> n]
Response(code, data, n) == [code |-> code, data |-> data, n |-> n]

Init ==
  /\ op \in [kind : Kinds, size : Sizes]
  /\ cl = "start" /\ off = 0 /\ full = 0 /\ last = FALSE /\ base = 0 /\ want = 0
  /\ got = <<>> /\ werr = FALSE /\ ret = [code |-> "none", count |-> 0]
  /\ up = <<>> /\ down = <<>> /\ conn = "first" /\ job = NoJob /\ str = NoStream
  /\ file = [i \in 0 .. Top - 1 |-> 0] /\ eof \in 0 .. Top /\ pos = Offset
  /\ src \in 0 .. op.size

Return(code, count) == ret' = [code |-> code, count |-> count] /\ cl' = "done"

\* beginRequest ... writeDone.
Send(m) == conn # "lost" /\ up' = Append(up, m)

(***************************************************************************)
(* The client.                                                             *)
(***************************************************************************)
\* CmdRead, CmdReadAt.
StartRead ==
  /\ cl = "start" /\ op.kind \in {"read", "readat"}
  /\ \/ Send(Request(op.kind, Offset, <<>>, op.size)) /\ cl' = "reading" /\ UNCHANGED ret
     \/ conn = "lost" /\ Return("ERR", 0) /\ UNCHANGED up
  /\ UNCHANGED <<op, off, full, last, base, want, got, werr, down, conn, srvVars, fileVars>>

\* A response is copied behind what was read, an error's text included.
ReadPart_Overwrites(r) == got' = r.data
ReadPart(r) == got' = got \o r.data

ReceiveRead ==
  /\ cl = "reading" /\ down # <<>>
  /\ ReadPart(Head(down))
  /\ down' = Tail(down)
  /\ IF Head(down).code = "PARTIAL" THEN UNCHANGED <<cl, ret>>
     ELSE Return(Head(down).code, Len(got) + Len(Head(down).data))
  /\ UNCHANGED <<op, off, full, last, base, want, werr, up, conn, srvVars, fileVars>>

\* CmdWrite: one message, or full chunks and a last one.
Split(n) == full' = n \div Payload /\ last' = (n % Payload > 0)
StartWrite ==
  /\ cl = "start" /\ op.kind = "write"
  /\ IF op.size <= Payload THEN full' = 0 /\ last' = TRUE ELSE Split(op.size)
  /\ cl' = "chunk"
  /\ UNCHANGED <<op, off, base, want, got, werr, ret, up, down, conn, srvVars, fileVars>>

\* What is left is more than a message, after short writes: CmdWrite calls
\* itself, and drops the nested call's count if that fails.
Rest == op.size - off
Nest ==
  /\ cl = "chunk" /\ full = 0 /\ last /\ Rest > Payload
  /\ Split(Rest)
  /\ base' = IF base = 0 THEN off ELSE base
  /\ UNCHANGED <<op, cl, off, want, got, werr, ret, up, down, conn, srvVars, fileVars>>

Failed == IF base = 0 THEN off ELSE base
SendChunk ==
  /\ cl = "chunk" /\ (full = 0 /\ last => Rest <= Payload)
  /\ \/ /\ Send(Request("write", 0, Bytes(off, IF full > 0 THEN Payload ELSE Rest), 0))
        /\ cl' = "writing" /\ UNCHANGED ret
     \/ conn = "lost" /\ Return("ERR", Failed) /\ UNCHANGED up
  /\ UNCHANGED <<op, off, full, last, base, want, got, werr, down, conn, srvVars, fileVars>>

\* The next chunk starts behind what was written.  down holds the responses
\* of one mark, which the chunks may share: marks are handed out in turn.
ReceiveWritten ==
  LET r == Head(down) IN
  /\ cl = "writing" /\ down # <<>>
  /\ down' = Tail(down)
  /\ \/ /\ r.code # "OK"
        /\ Return("ERR", IF op.kind = "write" THEN Failed ELSE 0)
        /\ UNCHANGED <<off, full, last>>
     \/ /\ r.code = "OK"
        /\ off' = off + r.n
        /\ \/ /\ full + (IF last THEN 1 ELSE 0) > 1
              /\ full' = full - 1
              /\ cl' = "chunk" /\ UNCHANGED <<last, ret>>
           \/ /\ full + (IF last THEN 1 ELSE 0) <= 1
              /\ Return("OK", off') /\ UNCHANGED <<full, last>>
  /\ UNCHANGED <<op, base, want, got, werr, up, conn, srvVars, fileVars>>

\* CmdWriteAt: one message, or a write stream.
StartWriteAt ==
  /\ cl = "start" /\ op.kind = "writeat"
  /\ \/ /\ op.size <= Payload
        /\ Send(Request("writeat", Offset, Bytes(0, op.size), 0))
        /\ cl' = "writing" /\ UNCHANGED <<off, ret>>
     \/ /\ op.size > Payload
        /\ Send(Request("open", Offset, Bytes(0, Payload), 0))
        /\ off' = Payload /\ cl' = "stream" /\ UNCHANGED ret
     \/ conn = "lost" /\ Return("ERR", 0) /\ UNCHANGED <<off, up>>
  /\ UNCHANGED <<op, full, last, base, want, got, werr, down, conn, srvVars, fileVars>>

\* WriteStream.Write, and Close's last, empty message.
SendData ==
  LET n == Least(Rest, Data) IN
  /\ cl = "stream"
  /\ \/ /\ Send(Request(IF n = 0 THEN "end" ELSE "data", 0, Bytes(off, n), 0))
        /\ off' = off + n
        /\ cl' = (IF n = 0 THEN "closing" ELSE "stream") /\ UNCHANGED ret
     \/ conn = "lost" /\ Return("ERR", 0) /\ UNCHANGED <<off, up>>
  /\ UNCHANGED <<op, full, last, base, want, got, werr, down, conn, srvVars, fileVars>>

\* WriteStream.Close: an error is kept until the close response comes;
\* ErrorUnknown and the session's notice end the wait.
CloseResult_Sent(n) == Return(IF werr THEN "ERR" ELSE "OK", off)
CloseResult(n) == Return(IF werr THEN "ERR" ELSE "OK", n)

ReceiveClose ==
  LET r == Head(down) IN
  /\ cl = "closing" /\ down # <<>>
  /\ down' = Tail(down)
  /\ \/ r.code = "OK" /\ CloseResult(r.n) /\ UNCHANGED werr
     \/ r.code \in {"UNKNOWN", "SESSION"} /\ Return("ERR", 0) /\ UNCHANGED werr
     \/ r.code = "ERR" /\ werr' = TRUE /\ UNCHANGED <<cl, ret>>
  /\ UNCHANGED <<op, off, full, last, base, want, got, up, conn, srvVars, fileVars>>

\* CmdCopyFileRange, a step of at most CopyMax.  When the request cannot be
\* sent cmdCopyFileRangeOnce returns its zero values, 0 and ErrorOK.
SendCopy ==
  /\ op.kind = "copy" /\ cl \in {"start", "copy"}
  /\ want' = Least(Rest, CopyMax)
  /\ \/ Send(Request("copy", off, <<>>, want')) /\ cl' = "copying" /\ UNCHANGED ret
     \/ conn = "lost" /\ Return("OK", off) /\ UNCHANGED up
  /\ UNCHANGED <<op, off, full, last, base, got, werr, down, conn, srvVars, fileVars>>

ReceiveCopied ==
  LET r == Head(down) IN
  /\ cl = "copying" /\ down # <<>>
  /\ down' = Tail(down)
  /\ \/ r.code # "OK" /\ Return("ERR", off) /\ UNCHANGED off
     \/ /\ r.code = "OK"
        /\ off' = off + r.n
        /\ IF r.n < want \/ off' = op.size THEN Return("OK", off') ELSE cl' = "copy" /\ UNCHANGED ret
  /\ UNCHANGED <<op, full, last, base, want, got, werr, up, conn, srvVars, fileVars>>

(***************************************************************************)
(* The server.  Responses to a connection that is gone are dropped.        *)
(***************************************************************************)
Reply(r) == down' = IF conn = "lost" THEN down ELSE Append(down, r)
Fails == Reply(Response("ERR", Text, 0))

\* A command starts; the messages of a stream go to its goroutine in order.
Dispatch ==
  LET m == Head(up) IN
  /\ up # <<>> /\ job = NoJob /\ m.kind \in AllKinds
  /\ up' = Tail(up)
  /\ job' = [kind |-> m.kind, at |-> m.at, data |-> m.data,
             full |-> IF m.n < Payload THEN 0 ELSE m.n \div Payload,
             tail |-> IF m.n < Payload \/ m.kind = "copy" THEN m.n ELSE m.n % Payload]
  /\ UNCHANGED <<op, clVars, down, conn, str, fileVars>>

\* readAndSend, readAtAndSend: the bytes there are from the position, and
\* fewer than asked for only where the file ends.
Position == IF job.kind = "read" THEN pos ELSE job.at
Available(n) == IF Position >= eof THEN 0 ELSE Least(n, eof - Position)
ReadBytes(n) == [k \in 1 .. n |-> Position + k - 1]
Moves(n) == pos' = (IF job.kind = "read" THEN pos + n ELSE pos) /\ UNCHANGED <<file, eof, src>>

\* A full part: PARTIAL if more may follow, else the end of the file.
ShortPart_Partial(n) == "PARTIAL"
ShortPart(n) == IF n = Payload THEN "PARTIAL" ELSE "OK"

ReadFull ==
  LET n == Available(Payload) IN
  /\ job.kind \in {"read", "readat"} /\ job.full > 0
  /\ Reply(Response(ShortPart(n), ReadBytes(n), 0))
  /\ Moves(n)
  /\ job' = IF n < Payload THEN NoJob
            ELSE [job EXCEPT !.at = @ + n, !.full = @ - 1]
  /\ UNCHANGED <<op, clVars, up, conn, str>>

\* The remainder, or an empty OK when the size is a multiple of a part.
ReadTail ==
  LET n == Available(job.tail) IN
  /\ Reply(Response("OK", ReadBytes(n), 0))
  /\ Moves(n)
  /\ job' = NoJob

ReadLast ==
  /\ job.kind \in {"read", "readat"} /\ job.full = 0
  /\ ReadTail
  /\ UNCHANGED <<op, clVars, up, conn, str>>

\* The descriptor is bad, or a syscall fails before it does anything.
JobFails ==
  /\ job # NoJob
  /\ Fails /\ job' = NoJob
  /\ UNCHANGED <<op, clVars, up, conn, str, fileVars>>

Put(at, data) ==
  file' = [i \in DOMAIN file |->
             IF i \in at .. at + Len(data) - 1 THEN data[i - at + 1] ELSE file[i]]

\* cmdWrite, cmdWriteAt: one write of at least a byte.
DoWrite ==
  /\ job.kind \in {"write", "writeat"}
  /\ \E n \in 1 .. Len(job.data) :
       /\ Put(IF job.kind = "write" THEN pos ELSE job.at, SubSeq(job.data, 1, n))
       /\ pos' = (IF job.kind = "write" THEN pos + n ELSE pos)
       /\ Reply(Response("OK", <<>>, n))
  /\ job' = NoJob
  /\ UNCHANGED <<op, clVars, up, conn, str, eof, src>>

\* cmdCopyFileRange: what the source has from the offset, or less.
DoCopy ==
  LET there == IF job.at >= src THEN 0 ELSE Least(job.tail, src - job.at) IN
  /\ job.kind = "copy"
  /\ \E n \in (IF there = 0 THEN {0} ELSE 1 .. there) :
       Put(Offset + job.at, Bytes(job.at, n)) /\ Reply(Response("OK", <<>>, n))
  /\ job' = NoJob
  /\ UNCHANGED <<op, clVars, up, conn, str, eof, pos, src>>

\* cmdWriteStreamOpen and cmdWriteStreamData; writeStream.run takes the next
\* message when it is done with the last.  A refused open leaves no stream,
\* and each message after it is answered with an error, the last one too.
Ignored_Never == FALSE
Ignored == str.failed

StreamMessage ==
  LET m == Head(up) IN
  /\ up # <<>> /\ m.kind \in {"open", "data", "end"} /\ str.data = <<>>
  /\ up' = Tail(up)
  /\ \/ m.kind = "open" /\ str' = [NoStream EXCEPT !.on = TRUE, !.at = m.at, !.data = m.data]
        /\ UNCHANGED down
     \/ m.kind = "open" /\ Fails /\ str' = [NoStream EXCEPT !.refused = TRUE]
     \/ /\ m.kind = "data" /\ str.on
        /\ str' = [str EXCEPT !.data = IF Ignored THEN <<>> ELSE m.data]
        /\ UNCHANGED down
     \/ /\ m.kind = "end" /\ str.on
        /\ Reply(Response("OK", <<>>, str.total)) /\ str' = NoStream
     \/ m.kind # "open" /\ ~str.on /\ Fails /\ UNCHANGED str
  /\ UNCHANGED <<op, clVars, conn, job, fileVars>>

\* writeStreamWriteChunk: a Pwrite of what is left of the chunk.
StreamWrite ==
  /\ str.data # <<>>
  /\ \E n \in 1 .. Len(str.data) :
       /\ Put(str.at, SubSeq(str.data, 1, n))
       /\ str' = [str EXCEPT !.at = @ + n, !.total = @ + n,
                             !.data = SubSeq(@, n + 1, Len(@))]
  /\ UNCHANGED <<op, clVars, up, down, conn, job, eof, pos, src>>

\* ... that fails: the error is sent, later chunks are not written.
StreamFails ==
  /\ str.data # <<>>
  /\ \E c \in {"ERR", "UNKNOWN"} : Reply(Response(c, Text, 0))
  /\ str' = [str EXCEPT !.failed = TRUE, !.data = <<>>]
  /\ UNCHANGED <<op, clVars, up, conn, job, fileVars>>

(***************************************************************************)
(* The connection is lost, with what was on its way.  What the server has  *)
(* read it still does.  The client's session gives every call that waits   *)
(* its notice.  One loss: what a second does to a recovery is the subject  *)
(* of ClientSession.                                                       *)
(***************************************************************************)
Waiting == cl \in {"reading", "writing", "stream", "closing", "copying"}
Lose ==
  /\ conn = "first"
  /\ conn' = "lost"
  /\ \E k \in 0 .. Len(up) : up' = SubSeq(up, 1, k)
  /\ \E k \in 0 .. Len(down) :
       down' = SubSeq(down, 1, k) \o
               (IF Waiting THEN <<Response("SESSION", Text, 0)>> ELSE <<>>)
  /\ UNCHANGED <<op, clVars, srvVars, fileVars>>

\* The streams of a lost connection end once they wrote what they were given.
ClearStream ==
  /\ conn = "lost" /\ up = <<>> /\ str.on /\ str.data = <<>>
  /\ str' = NoStream
  /\ UNCHANGED <<op, clVars, up, down, conn, job, fileVars>>

\* The session is resumed when its commands returned.
Resume ==
  /\ conn = "lost" /\ up = <<>> /\ job = NoJob /\ ~str.on
  /\ conn' = "second"
  /\ UNCHANGED <<op, clVars, up, down, srvVars, fileVars>>

Client ==
  \/ StartRead \/ ReceiveRead
  \/ StartWrite \/ Nest \/ SendChunk \/ ReceiveWritten
  \/ StartWriteAt \/ SendData \/ ReceiveClose
  \/ SendCopy \/ ReceiveCopied

Server ==
  \/ Dispatch \/ ReadFull \/ ReadLast \/ JobFails \/ DoWrite \/ DoCopy
  \/ StreamMessage \/ StreamWrite \/ StreamFails \/ ClearStream

Next == Client \/ Server \/ Lose \/ Resume

\* Goroutines are scheduled; syscalls return.
FairSpec == Init /\ [][Next]_vars /\ WF_vars(Client) /\ WF_vars(Server)

(***************************************************************************)
(* Properties.                                                             *)
(***************************************************************************)
TypeOK ==
  /\ op \in [kind : Kinds, size : Sizes]
  /\ cl \in {"start", "reading", "chunk", "writing", "stream", "closing", "copy", "copying", "done"}
  /\ off \in 0 .. op.size /\ full \in 0 .. op.size /\ last \in BOOLEAN
  /\ base \in 0 .. op.size /\ want \in 0 .. CopyMax /\ werr \in BOOLEAN
  /\ ret.code \in {"none", "OK", "ERR", "SESSION"} /\ ret.count \in 0 .. op.size + 1
  /\ conn \in {"first", "lost", "second"}
  /\ pos \in 0 .. Top /\ eof \in 0 .. Top /\ src \in 0 .. Top

IsRead == op.kind \in {"read", "readat"}

\* What was written: the positions that no longer hold the old byte.
Written == {i \in DOMAIN file : file[i] # 0}

\* Wherever the client, the server or the connection stops, what a write, a
\* write stream or a copy has put into the file is an unbroken prefix of
\* the caller's data at the offset asked for: chunks are neither reordered,
\* repeated at another place nor written behind a gap left by a failed one
\* (CmdWrite, CmdWriteAt, writeStream.run, CmdCopyFileRange).
PrefixOnly ==
  \A i \in Written : /\ i >= Offset /\ file[i] = i - Offset + 1
                     /\ Offset .. i \subseteq Written

\* A read that reports success has put into the caller's buffer exactly the
\* bytes the file has at the offset, as many as asked for or up to its end,
\* and counts them, however many parts they came in (CmdRead, CmdReadAt,
\* cmdRead, cmdReadAt, on a regular file).
ReadExact ==
  LET n == IF Offset >= eof THEN 0 ELSE Least(op.size, eof - Offset) IN
  IsRead /\ ret.code = "OK" =>
    ret.count = n /\ got = [k \in 1 .. n |-> Offset + k - 1]

\* An error response is told from the bytes that came before it: a read that
\* failed has counted its text, so its count means nothing to the caller.
Moved == IF IsRead THEN Len(SelectSeq(got, LAMBDA b : b # Top)) ELSE Cardinality(Written)
Promise ==
  INSTANCE Transfer WITH
    size <- op.size, moved <- Moved,
    code <- (IF ret.code = "SESSION" THEN "ERR" ELSE ret.code),
    count <- (IF IsRead /\ ret.code # "OK" THEN 0 ELSE ret.count)

\* Every operation implements what Transfer promises: a success counts
\* exactly the bytes that moved, and nothing moves behind the caller's back
\* once it is reported; the error of a write or copy never counts more than
\* was moved.  The count of a failed read is left out: it includes the text.
Implements == Promise!Spec

\* Every operation returns, whatever syscall fails and wherever the
\* connection is lost: the server answers each command to its last part, and
\* the session wakes a call whose answer is lost.  The exception is a write
\* stream whose open was refused: no close response comes, and
\* WriteStream.Close waits until the connection is lost.
TransferEnds == <>(cl = "done") \/ <>[](str.refused /\ cl = "closing" /\ conn # "lost")
=============================================================================
