--------------------------- MODULE EchoConnection ---------------------------
(***************************************************************************)
(* serve_connection of week 40 (echoserver.c): the child process that       *)
(* serves one client over a blocking socket, with that client.              *)
(*                                                                          *)
(* A step is a system call with what the code does until the next one, or   *)
(* one round of the framing loop.  recv gives up after 30 seconds without   *)
(* input; send has no such limit.  Calls that a signal interrupts are made  *)
(* again and change nothing.  "<n>: " and the newline of a numbered reply   *)
(* count as two cells, the other replies as one.                            *)
(***************************************************************************)
EXTENDS LineFraming

CONSTANTS
    SocketSize,    \* cells the socket takes before send blocks
    MaxInput       \* bound: bytes one client writes

ASSUME SocketAssumption == SocketSize \in Nat \ {0} /\ MaxInput \in Nat

VARIABLES
    input,      \* history: everything the client wrote
    taken,      \* how much of it recv has returned
    fin,        \* the client has shut down its side
    gone,       \* the client has reset the connection
    buffer,     \* the array "buffer", "used" bytes of it
    start,      \* the local "start", from 1
    lines,      \* the local "lines"
    sending,    \* the cells send_all still has to send
    pc,         \* where the child is, outside send_all
    socket,     \* sent cells the client has not read
    got,        \* history: what the client has read
    said        \* history: the replies given to send_all

client == <<input, fin, gone>>
framing == <<buffer, start, lines>>
wire == <<socket, got>>
vars == <<input, taken, fin, gone, buffer, start, lines, sending, pc, socket,
          got, said>>

TimedOut == [no |-> 0, text |-> <<"timeout">>]

Size(reply) == IF reply.no = 0 THEN 1 ELSE 2 + Len(reply.text)
Cells(reply) == [k \in 1 .. Size(reply) |-> <<reply, k>>]
AllCells(replies) == FlattenSeq([k \in 1 .. Len(replies) |-> Cells(replies[k])])

Received == SubSeq(input, 1, taken)
Unread == Len(input) - taken

\* Calling send_all.  (A definition whose name starts with Bug is a mistake the
\* code could have made; no action uses it, and a property refutes each.)
Say(reply) == sending' = Cells(reply) /\ said' = Append(said, reply)

Init ==
    /\ input = <<>> /\ taken = 0 /\ fin = FALSE /\ gone = FALSE
    /\ buffer = <<>> /\ start = 1 /\ lines = 0
    /\ sending = Cells(Ready) /\ said = <<Ready>>
    /\ pc = "recv"
    /\ socket = <<>> /\ got = <<>>

-----------------------------------------------------------------------------
\* The client.

ClientWrite(b) ==
    /\ ~ fin /\ ~ gone /\ Len(input) < MaxInput
    /\ input' = Append(input, b)
    /\ UNCHANGED <<taken, fin, gone, framing, sending, pc, wire, said>>

ClientShutdown ==
    /\ ~ fin /\ ~ gone
    /\ fin' = TRUE
    /\ UNCHANGED <<input, taken, gone, framing, sending, pc, wire, said>>

\* The connection is reset: what the client has not read is lost.
ClientReset ==
    /\ ~ gone
    /\ gone' = TRUE
    /\ socket' = <<>>
    /\ UNCHANGED <<input, taken, fin, framing, sending, pc, got, said>>

ClientRead ==
    /\ socket # <<>>
    /\ \E n \in 1 .. Len(socket) :
         /\ got' = got \o SubSeq(socket, 1, n)
         /\ socket' = SubSeq(socket, n + 1, Len(socket))
    /\ UNCHANGED <<client, taken, framing, sending, pc, said>>

-----------------------------------------------------------------------------
\* The child.

BugSentTo(n) == Len(sending)           \* takes a short send for a whole one
SentTo(n) == n

\* send_all: send took some cells, perhaps not all.
SendSome ==
    /\ sending # <<>> /\ Len(socket) < SocketSize /\ ~ gone
    /\ \E n \in 1 .. Min({Len(sending), SocketSize - Len(socket)}) :
         /\ socket' = socket \o SubSeq(sending, 1, n)
         /\ sending' = SubSeq(sending, SentTo(n) + 1, Len(sending))
    /\ UNCHANGED <<client, taken, framing, pc, got, said>>

\* send_all fails, which ends the conversation after every reply.
SendError ==
    /\ sending # <<>> /\ gone
    /\ sending' = <<>>
    /\ pc' = "done"
    /\ UNCHANGED <<client, taken, framing, wire, said>>

Here(label) == pc = label /\ sending = <<>>

RecvSpace == BufSize - Len(buffer)

\* recv returned bytes, as many as there are or fewer.
RecvData ==
    /\ Here("recv") /\ Unread > 0
    /\ \E n \in 1 .. Min({RecvSpace, Unread}) :
         /\ buffer' = buffer \o SubSeq(input, taken + 1, taken + n)
         /\ taken' = taken + n
    /\ start' = 1
    /\ pc' = "lines"
    /\ UNCHANGED <<client, lines, sending, wire, said>>

\* recv returned 0, or failed.
RecvEnd ==
    /\ Here("recv") /\ ((Unread = 0 /\ fin) \/ gone)
    /\ pc' = "done"
    /\ UNCHANGED <<client, taken, framing, sending, wire, said>>

BugReceiveTimeoutSet == FALSE
ReceiveTimeoutSet == TRUE

\* recv gave up waiting.
RecvTimeout ==
    /\ ReceiveTimeoutSet
    /\ Here("recv") /\ Unread = 0 /\ ~ fin /\ ~ gone
    /\ Say(TimedOut)
    /\ pc' = "done"
    /\ UNCHANGED <<client, taken, framing, wire>>

HasLine == Newlines(buffer, start) # {}
LineEnd == Min(Newlines(buffer, start))
CurrentLine == SubSeq(buffer, start, LineEnd - 1)

QuitLine == IsQuit(CurrentLine)

\* One more line, not quit.
ServeLine ==
    /\ Here("lines") /\ HasLine /\ ~ QuitLine
    /\ lines' = lines + 1
    /\ Say(Numbered(lines + 1, CurrentLine))
    /\ start' = LineEnd + 1
    /\ UNCHANGED <<client, taken, buffer, pc, wire>>

\* The line is quit: the last reply.
ServeQuit ==
    /\ Here("lines") /\ HasLine /\ QuitLine
    /\ lines' = lines + 1
    /\ Say(Bye)
    /\ pc' = "done"
    /\ UNCHANGED <<client, taken, buffer, start, wire>>

BugLeftover == buffer
Leftover == SubSeq(buffer, start, Len(buffer))

\* No further line: the rest moves to the front, and is an error if it fills
\* the buffer.
ServeRest ==
    /\ Here("lines") /\ ~ HasLine
    /\ buffer' = Leftover
    /\ IF Len(Leftover) = BufSize
       THEN Say(TooLong) /\ pc' = "done"
       ELSE pc' = "recv" /\ UNCHANGED <<sending, said>>
    /\ UNCHANGED <<client, taken, start, lines, wire>>

Child ==
    \/ SendSome \/ SendError
    \/ RecvData \/ RecvEnd \/ RecvTimeout
    \/ ServeLine \/ ServeQuit \/ ServeRest

Next ==
    \/ \E b \in Byte : ClientWrite(b)
    \/ ClientShutdown \/ ClientReset \/ ClientRead
    \/ Child

Spec == Init /\ [][Next]_vars

\* The child is scheduled, time passes, and the client reads what arrives.
FairSpec == Spec /\ WF_vars(Child) /\ WF_vars(ClientRead)

-----------------------------------------------------------------------------
Finished == pc = "done" /\ sending = <<>>

\* Every variable stays in its range, and nothing is stored past the buffer.
TypeOK ==
    /\ input \in Seq(Byte) /\ taken \in 0 .. Len(input)
    /\ fin \in BOOLEAN /\ gone \in BOOLEAN
    /\ buffer \in Seq(Byte) /\ Len(buffer) <= BufSize
    /\ start \in 1 .. BufSize + 1
    /\ lines \in Nat
    /\ pc \in {"recv", "lines", "done"}
    /\ Len(socket) <= SocketSize

\* However recv cuts the stream: when the child waits for input, it has
\* answered exactly the lines it received, it holds exactly the beginning of
\* the next one, and there is room to receive more, so that recv is never
\* called with a length of 0, whose result would look like the client's end.
UpToDate ==
    /\ TypeOK
    /\ Here("recv") =>
           /\ said = Replies(Received)
           /\ buffer = Unfinished(Received)
           /\ Len(buffer) < BufSize

\* Short sends neither lose nor repeat nor reorder a byte of a reply, and the
\* conversation ends with every line answered and every answer sent; after 30
\* seconds of silence it ends with "timeout".
WholeConversation ==
    ~ gone =>
        /\ got \o socket \o sending = AllCells(said)
        /\ Finished => said \in {Replies(Received), Append(Replies(Received), TimedOut)}

\* Every child ends, if its client reads: it does not wait for input for
\* ever.
ChildEnds == <>Finished

-----------------------------------------------------------------------------
\* Where the buffer begins in the stream, and the place after the lines that are
\* answered.
Base == taken - Len(buffer)
Place == IF pc = "lines" THEN Base + start - 1 ELSE Base

\* The buffer is the end of what was received; outside the framing loop it holds
\* no whole line and is not full.
BufferInv ==
    /\ Len(buffer) <= taken
    /\ \A j \in 1 .. Len(buffer) : buffer[j] = input[Base + j]
    /\ pc = "lines" => start <= Len(buffer) + 1
    /\ pc = "recv" => Len(buffer) < BufSize /\ \A j \in 1 .. Len(buffer) : buffer[j] # "nl"

\* The lines before Place are answered, one reply each, and none was final; a
\* child that is done has said everything.
SaidInv ==
    /\ said \in Seq(AnyReply)
    /\ pc # "done" => Framed(Received, Place, lines) /\ said = Told(Received, lines)
    /\ pc = "done" /\ ~ gone =>
           said \in {Replies(Received), Append(Replies(Received), TimedOut)}

Cell == AnyReply \X Nat

\* What was said is on its way.
WireInv ==
    /\ sending \in Seq(Cell) /\ socket \in Seq(Cell) /\ got \in Seq(Cell)
    /\ ~ gone => got \o socket \o sending = AllCells(said)

IInv == TypeOK /\ BufferInv /\ SaidInv /\ WireInv
=============================================================================
