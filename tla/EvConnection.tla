---------------------------- MODULE EvConnection ----------------------------
(***************************************************************************)
(* One connection of the event-driven server of week 47 (evserver.c), from  *)
(* the accept on, with its client and the socket between them.              *)
(*                                                                          *)
(* The server is one thread.  A step is a system call on the connection     *)
(* with what the code does until the next one, or one round of the framing  *)
(* loop; the client may write, read or shut down between any two of them.   *)
(* The time a connection may stay idle belongs to EvLoop.                   *)
(*                                                                          *)
(* A reply occupies cells of the out buffer and of the socket, which send   *)
(* may split anywhere; "<n>: " and the newline of a numbered reply count as *)
(* two cells, the fixed replies as one.                                     *)
(***************************************************************************)
EXTENDS LineFraming

CONSTANTS
    SocketSize,    \* cells the socket takes before send says EAGAIN
    MaxInput       \* bound: bytes one client writes

ASSUME SocketAssumption == SocketSize \in Nat \ {0} /\ MaxInput \in Nat

VARIABLES
    input,      \* history: everything the client wrote
    taken,      \* how much of it recv has returned
    fin,        \* the client has shut down its side
    gone,       \* the client has reset the connection
    in,         \* c->in, in_used bytes of it
    start,      \* the local "start" of conn_process_input, from 1
    out,        \* c->out, out_used cells of it
    outSent,    \* c->out_sent
    lines,      \* c->lines
    closing,    \* c->closing
    wantOut,    \* EPOLLOUT is registered for the connection
    events,     \* the events epoll_wait reported
    pc,         \* where the server is with this connection
    socket,     \* sent cells the client has not read
    got,        \* history: what the client has read
    said        \* history: the replies conn_queue accepted

client == <<input, fin, gone>>
framing == <<in, start, lines>>
outgoing == <<out, outSent, said>>
wire == <<socket, got>>
vars == <<input, taken, fin, gone, in, start, out, outSent, lines, closing,
          wantOut, events, pc, socket, got, said>>

Size(reply) == IF reply.no = 0 THEN 1 ELSE 2 + Len(reply.text)

\* The cells of a reply.  A numbered reply is formatted into a buffer of
\* BufSize, so one of just that size ends in snprintf's NUL, not in a newline.
Cells(reply) ==
    [k \in 1 .. Size(reply) |->
        IF k = BufSize /\ reply.no # 0 THEN <<reply, 0>> ELSE <<reply, k>>]
AllCells(replies) == FlattenSeq([k \in 1 .. Len(replies) |-> Cells(replies[k])])

Received == SubSeq(input, 1, taken)    \* what recv has returned so far
Unread == Len(input) - taken           \* bytes waiting in the socket
Unsent == SubSeq(out, outSent + 1, Len(out))

\* conn_queue, with the "closing = true" of the caller that sets it as well.
Fits(n) == Len(out) + n <= BufSize
Queue(reply, callerCloses) ==
    /\ closing' = (closing \/ callerCloses \/ ~ Fits(Size(reply)))
    /\ IF Fits(Size(reply))
       THEN /\ out' = out \o Cells(reply)
            /\ said' = Append(said, reply)
       ELSE UNCHANGED <<out, said>>
    /\ UNCHANGED outSent

\* After accept_new: "ready" is queued and EPOLLOUT asked for.
Init ==
    /\ input = <<>> /\ taken = 0 /\ fin = FALSE /\ gone = FALSE
    /\ in = <<>> /\ start = 1 /\ lines = 0
    /\ out = Cells(Ready) /\ outSent = 0 /\ said = <<Ready>>
    /\ closing = FALSE /\ wantOut = TRUE
    /\ events = {} /\ pc = "wait"
    /\ socket = <<>> /\ got = <<>>

-----------------------------------------------------------------------------
\* The client.

ClientWrite(b) ==
    /\ ~ fin /\ ~ gone /\ Len(input) < MaxInput
    /\ input' = Append(input, b)
    /\ UNCHANGED <<taken, fin, gone, framing, outgoing, closing, wantOut,
                   events, pc, wire>>

ClientShutdown ==
    /\ ~ fin /\ ~ gone
    /\ fin' = TRUE
    /\ UNCHANGED <<input, taken, gone, framing, outgoing, closing, wantOut,
                   events, pc, wire>>

\* The connection is reset: what the client has not read is lost.
ClientReset ==
    /\ ~ gone
    /\ gone' = TRUE
    /\ socket' = <<>>
    /\ UNCHANGED <<input, taken, fin, framing, outgoing, closing, wantOut,
                   events, pc, got>>

ClientRead ==
    /\ socket # <<>>
    /\ \E n \in 1 .. Len(socket) :
         /\ got' = got \o SubSeq(socket, 1, n)
         /\ socket' = SubSeq(socket, n + 1, Len(socket))
    /\ UNCHANGED <<client, taken, framing, outgoing, closing, wantOut,
                   events, pc>>

-----------------------------------------------------------------------------
\* The server.

\* What a level-triggered epoll reports for the connection.
Reported ==
    {e \in {"in", "out", "hup"} :
        \/ e = "in" /\ (Unread > 0 \/ fin \/ gone)
        \/ e = "out" /\ wantOut /\ (Len(socket) < SocketSize \/ gone)
        \/ e = "hup" /\ gone}

\* epoll_wait returns with events for the connection; the loop handles
\* EPOLLHUP and EPOLLERR before anything else, by closing.
Wake ==
    /\ pc = "wait" /\ Reported # {}
    /\ events' = Reported
    /\ pc' = IF "hup" \in Reported THEN "closed"
             ELSE IF "in" \in Reported THEN "recv" ELSE "send"
    /\ UNCHANGED <<client, taken, framing, outgoing, closing, wantOut, wire>>

\* Leaving conn_readable.
AfterRead == IF "out" \in events THEN "send" ELSE "finish"

RecvSpace == BufSize - Len(in)

\* conn_readable: recv returned bytes, as many as there are or fewer.
\* Those that came before a reset may still be read.
RecvData ==
    /\ pc = "recv" /\ Len(in) # BufSize /\ Unread > 0
    /\ \E n \in 1 .. Min({RecvSpace, Unread}) :
         /\ in' = in \o SubSeq(input, taken + 1, taken + n)
         /\ taken' = taken + n
    /\ start' = 1
    /\ pc' = "lines"
    /\ UNCHANGED <<client, lines, outgoing, closing, wantOut, events, wire>>

\* conn_readable: the buffer is full, or recv said EAGAIN.
RecvNothing ==
    /\ pc = "recv"
    /\ Len(in) = BufSize \/ (Unread = 0 /\ ~ fin /\ ~ gone)
    /\ pc' = AfterRead
    /\ UNCHANGED <<client, taken, framing, outgoing, closing, wantOut, events,
                   wire>>

\* conn_readable: recv returned 0, and what was queued but not sent is given
\* up.
RecvEnd ==
    /\ pc = "recv" /\ Len(in) # BufSize /\ Unread = 0 /\ fin /\ ~ gone
    /\ closing' = TRUE
    /\ out' = SubSeq(out, 1, outSent)
    /\ pc' = AfterRead
    /\ UNCHANGED <<client, taken, framing, outSent, said, wantOut,
                   events, wire>>

\* conn_readable: recv failed.
RecvError ==
    /\ pc = "recv" /\ Len(in) # BufSize /\ gone
    /\ closing' = TRUE
    /\ pc' = AfterRead
    /\ UNCHANGED <<client, taken, framing, outgoing, wantOut, events, wire>>

\* The line the framing loop is at, when in holds all of it.
HasLine == Newlines(in, start) # {}
LineEnd == Min(Newlines(in, start))
CurrentLine == SubSeq(in, start, LineEnd - 1)

\* conn_process_input: one more line, not quit.
ProcessLine ==
    /\ pc = "lines" /\ HasLine /\ ~ IsQuit(CurrentLine)
    /\ lines' = lines + 1
    /\ Queue(Numbered(lines + 1, CurrentLine), FALSE)
    /\ start' = LineEnd + 1
    /\ UNCHANGED <<client, taken, in, wantOut, events, pc, wire>>

\* The memmove of what is left to the front of in.
Leftover == SubSeq(in, start, Len(in))

\* conn_process_input: the line is quit.  The loop ends with start in front
\* of it.
ProcessQuit ==
    /\ pc = "lines" /\ HasLine /\ IsQuit(CurrentLine)
    /\ lines' = lines + 1
    /\ Queue(Bye, TRUE)
    /\ pc' = "rest"
    /\ UNCHANGED <<client, taken, in, start, wantOut, events, wire>>

\* conn_process_input: after the loop.  A full buffer is an error, and
\* conn_readable goes on only while the connection is not closing.
ProcessRest ==
    /\ pc = "rest" \/ (pc = "lines" /\ ~ HasLine)
    /\ in' = Leftover
    /\ IF Len(Leftover) = BufSize
       THEN Queue(TooLong, TRUE)
       ELSE UNCHANGED <<closing, outgoing>>
    /\ pc' = IF closing' THEN AfterRead ELSE "recv"
    /\ UNCHANGED <<client, taken, start, lines, wantOut, events, wire>>

\* (A definition whose name starts with Bug is a mistake the code could have
\* made; no action uses it, and a property of this module refutes each.)
BugAfterSend(n) == Len(out)            \* ignores a short send
AfterSend(n) == outSent + n

\* conn_writable: send took some cells.
SendSome ==
    /\ pc = "send" /\ Unsent # <<>> /\ Len(socket) < SocketSize /\ ~ gone
    /\ \E n \in 1 .. Min({Len(Unsent), SocketSize - Len(socket)}) :
         /\ socket' = socket \o SubSeq(Unsent, 1, n)
         /\ outSent' = AfterSend(n)
    /\ UNCHANGED <<client, taken, framing, out, said, closing,
                   wantOut, events, pc, got>>

\* conn_writable: the socket is full.
SendRefused ==
    /\ pc = "send" /\ Unsent # <<>> /\ Len(socket) = SocketSize /\ ~ gone
    /\ pc' = "finish"
    /\ UNCHANGED <<client, taken, framing, outgoing, closing, wantOut, events,
                   wire>>

\* conn_writable: send failed.
SendError ==
    /\ pc = "send" /\ Unsent # <<>> /\ gone
    /\ closing' = TRUE
    /\ pc' = "finish"
    /\ UNCHANGED <<client, taken, framing, outgoing, wantOut, events, wire>>

\* conn_writable: everything is sent and the buffer is reset.
SendDone ==
    /\ pc = "send" /\ Unsent = <<>>
    /\ out' = <<>> /\ outSent' = 0
    /\ pc' = "finish"
    /\ UNCHANGED <<client, taken, framing, said, closing, wantOut,
                   events, wire>>

BugInterest == Unsent # <<>> /\ closing        \* only to flush at the end
Interest == Unsent # <<>>

\* The end of the event: close, or register what to wait for.
Finish ==
    /\ pc = "finish"
    /\ IF closing /\ Unsent = <<>>
       THEN pc' = "closed" /\ UNCHANGED wantOut
       ELSE pc' = "wait" /\ wantOut' = Interest
    /\ UNCHANGED <<client, taken, framing, outgoing, closing, events, wire>>

Server ==
    \/ Wake
    \/ RecvData \/ RecvNothing \/ RecvEnd \/ RecvError
    \/ ProcessLine \/ ProcessQuit \/ ProcessRest
    \/ SendSome \/ SendRefused \/ SendError \/ SendDone
    \/ Finish

Next ==
    \/ \E b \in Byte : ClientWrite(b)
    \/ ClientShutdown \/ ClientReset \/ ClientRead
    \/ Server

Spec == Init /\ [][Next]_vars

\* The loop serves a connection that has events, and the client reads what
\* arrives.  It need not write, shut down or reset.
FairSpec == Spec /\ WF_vars(Server) /\ WF_vars(ClientRead)

-----------------------------------------------------------------------------
Reply == {Ready, Bye, TooLong} \cup
         {Numbered(n, l) : n \in 1 .. MaxInput, l \in BoundedSeq({"x", "quit"}, BufSize)}

\* Every variable stays in its range; in particular in and out never hold
\* more than the buffers they stand for.
TypeOK ==
    /\ input \in Seq(Byte) /\ taken \in 0 .. Len(input)
    /\ fin \in BOOLEAN /\ gone \in BOOLEAN /\ closing \in BOOLEAN
    /\ wantOut \in BOOLEAN
    /\ in \in Seq(Byte) /\ Len(in) <= BufSize
    /\ start \in 1 .. BufSize + 1
    /\ Len(out) <= BufSize /\ outSent \in 0 .. Len(out)
    /\ lines \in Nat
    /\ events \subseteq {"in", "out", "hup"}
    /\ pc \in {"wait", "recv", "lines", "rest", "send", "finish",
              "closed"}
    /\ Len(socket) <= SocketSize
    /\ \A k \in 1 .. Len(said) : said[k] \in Reply

\* However recv cuts the stream, the numbered replies carry the client's own
\* lines under their own numbers, in ascending order.
RepliesAreTrue ==
    /\ \A k \in 1 .. Len(said) : said[k].no # 0 =>
         /\ said[k].no <= LineCount(Received)
         /\ said[k].text = Line(Received, said[k].no)
    /\ \A j, k \in 1 .. Len(said) :
         j < k /\ said[k].no # 0 => said[j].no < said[k].no

\* Between events an open conversation is up to date: every complete line
\* received has been answered exactly once, in keeps exactly the beginning of
\* the next line, and there is room to receive more, so that recv is never
\* called with a length of 0, whose result would look like the client's end.
UpToDate ==
    /\ TypeOK
    /\ pc \in {"wait", "recv"} /\ ~ closing =>
           /\ said = Replies(Received)
           /\ in = Unfinished(Received)
           /\ Len(in) < BufSize

\* Nothing the server accepted to say is garbled, duplicated or reordered by
\* partial sends; it is all on its way as long as the connection is open.
BytesInOrder ==
    /\ ~ gone => IsPrefix(got \o socket, AllCells(said))
    /\ ~ gone /\ ~ closing => got \o socket \o Unsent = AllCells(said)

\* An open connection answers exactly the lines it received, in order and once
\* each, however recv cuts the stream and send splits the replies.
AnswersItsLines == RepliesAreTrue /\ UpToDate /\ BytesInOrder

\* To a client that keeps reading, everything accepted is delivered or the
\* connection is closed; and one that is closing is closed in the end.
Delivery ==
    []<>(\/ pc = "closed"
         \/ /\ ~ closing
            /\ Unsent = <<>> /\ socket = <<>> /\ got = AllCells(said))

\* The comment at "flush before closing": the loop closes a connection only
\* when all it was told has been handed to the socket.
FlushBeforeClosing ==
    pc = "closed" /\ ~ gone => IsPrefix(AllCells(said), got \o socket)

\* The comment "Framing, exactly as in week 40", where the server answers
\* "bye" to the first quit and leaves.
ByeOnce == Cardinality({k \in 1 .. Len(said) : said[k] = Bye}) <= 1

-----------------------------------------------------------------------------
\* Where in begins in the stream, where the framing loop is in it, and the place
\* after the lines that were worked off.
Base == taken - Len(in)
From == IF pc \in {"lines", "rest"} THEN start ELSE 1
Place == Base + From - 1
WorkedOff == Ended(Received, Place)

\* The next line is a quit: it stays in the buffer, and is worked off again.
QuitNext ==
    /\ Newlines(in, From) # {}
    /\ IsQuit(SubSeq(in, From, Min(Newlines(in, From)) - 1))

\* in is the end of what was received, and outside the framing loop an open
\* conversation holds no whole line there and has room for more.
BufferInv ==
    /\ Len(input) <= MaxInput /\ Len(in) <= taken /\ From <= Len(in) + 1
    /\ \A j \in 1 .. Len(in) : in[j] = input[Base + j]
    /\ pc \notin {"lines", "rest"} /\ ~ closing =>
           Len(in) < BufSize /\ \A j \in 1 .. Len(in) : in[j] # "nl"

\* No line before Place was final.  An open conversation has answered each of
\* them; one that is closing, some of them, under their numbers and in order.
SaidInv ==
    /\ said \in Seq(AnyReply)
    /\ Framed(Received, Place, WorkedOff)
    /\ lines = WorkedOff \/ (closing /\ QuitNext)
    /\ pc = "rest" => closing /\ QuitNext
    /\ ~ closing => said = Told(Received, WorkedOff)
    /\ \A k \in 1 .. Len(said) : said[k].no # 0 =>
           said[k].no \in 1 .. WorkedOff /\ said[k].text = Line(Received, said[k].no)
    /\ \A j, k \in 1 .. Len(said) :
           j < k /\ said[k].no # 0 => said[j].no < said[k].no

Cell == AnyReply \X Nat

\* The end of input has been read, perhaps, and what was queued given up.
GivenUp == closing /\ fin /\ Unread = 0 /\ pc \notin {"lines", "rest"}

\* What was said is on its way, unless it was given up.
WireInv ==
    /\ out \in Seq(Cell) /\ socket \in Seq(Cell) /\ got \in Seq(Cell)
    /\ ~ gone /\ ~ GivenUp => got \o socket \o Unsent = AllCells(said)
    /\ ~ gone => IsPrefix(got \o socket \o Unsent, AllCells(said))

IInv == TypeOK /\ BufferInv /\ SaidInv /\ WireInv
=============================================================================
