------------------------------ MODULE EchoClient ------------------------------
(***************************************************************************)
(* The client of week 40 (echoclient.c) against the child of echoserver.c:  *)
(* EchoConnection's steps, with main's loop deciding when the client writes *)
(* and reads.  It sends what one fgets gives, a line or a piece of a long   *)
(* one, and then receives once, waiting 10 seconds at most; the greeting is *)
(* there before the first reply.                                            *)
(***************************************************************************)
EXTENDS EchoConnection

CONSTANT PieceSize     \* 1023: what fgets gives at most

VARIABLES
    at,                \* where main is
    piece              \* bytes of the piece that are sent

clientProgram == <<at, piece>>

ClientInit == Init /\ at = "fgets" /\ piece = 0

-----------------------------------------------------------------------------
\* close, with something unread or not.
Close ==
    /\ at' = "closed" /\ piece' = 0
    /\ IF socket = <<>> THEN ClientShutdown ELSE ClientReset

\* send_all, a byte at a time.
Send(b) ==
    /\ at \in {"fgets", "send"}
    /\ ClientWrite(b)
    /\ piece' = piece + 1
    /\ at' = IF b = "nl" \/ piece + 1 = PieceSize THEN "recv" ELSE "send"

\* stdin ends, in a line or after it.
EndOfInput ==
    \/ at = "fgets" /\ Close
    \/ at = "send" /\ at' = "recv" /\ UNCHANGED <<vars, piece>>

\* The server has closed the connection: send fails.
SendFails == at \in {"fgets", "send"} /\ Finished /\ Close

Receive == at = "recv" /\ ClientRead /\ at' = "fgets" /\ piece' = 0

\* recv returns 0, or gives up.
ServerClosed == at = "recv" /\ socket = <<>> /\ Finished /\ Close
GivesUp == at = "recv" /\ socket = <<>> /\ ~ Finished /\ Close

\* What is sent to a closed client.
Refused == at = "closed" /\ socket # <<>> /\ ClientReset /\ UNCHANGED clientProgram

Main ==
    \/ \E b \in Byte : Send(b)
    \/ EndOfInput \/ SendFails \/ Receive \/ ServerClosed \/ GivesUp

ClientNext == Main \/ Refused \/ (Child /\ UNCHANGED clientProgram)

-----------------------------------------------------------------------------
\* With one recv for each line and replies cut anywhere, the client never waits
\* for a server that waits for it, unless what it sent last was not the end of a
\* line.
NeverBothWait ==
    at = "recv" /\ Here("recv") /\ Unread = 0 /\ socket = <<>> =>
        Last(input) # "nl"
=============================================================================
