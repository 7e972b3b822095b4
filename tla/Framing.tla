------------------------------ MODULE Framing ------------------------------
(***************************************************************************)
(* How a miner's bytes become messages.  A session waits in one select!    *)
(* for the next message and for the next job broadcast, and the arm that   *)
(* is not taken is dropped.  An SV1 session reads its line inside that     *)
(* select!; an SV2 session has a task of its own that reads frames and     *)
(* hands them over through a bounded channel.                              *)
(***************************************************************************)
EXTENDS Naturals, Sequences, SequencesExt

CONSTANTS
    Lengths,            \* the messages the peer sends, as their lengths
    max_message_bytes,
    Slack,              \* what a frame may have over max_message_bytes
    InboundCap,         \* capacity of the SV2 reader's channel
    MaxJobs             \* bound: job broadcasts

VARIABLES
    proto, running, banned,     \* the session
    unsent, closed,             \* the peer: bytes still to send, and whether it hung up
    wire,                       \* bytes received and not consumed
    buf,                        \* the part of a message read so far
    reading, inbound,           \* SV2: the reader task is alive, its channel
    handed,                     \* the messages given to the handler
    jobs                        \* job broadcasts sent to the session

peer == <<unsent, closed>>
vars == <<proto, running, banned, peer, wire, buf, reading, inbound, handed, jobs>>

\* Byte k of message m; the last byte of a line is its newline.
Message(m) == [k \in 1..Lengths[m] |-> <<m, k>>]
Messages == {Message(m) : m \in DOMAIN Lengths}
EndsMessage(byte) == byte[2] = Lengths[byte[1]]
Text(bytes) == SelectSeq(bytes, LAMBDA byte : ~EndsMessage(byte))

Init ==
    /\ proto \in {"sv1", "sv2"}
    /\ running = TRUE /\ banned = FALSE /\ closed = FALSE
    /\ unsent = FlattenSeq([m \in DOMAIN Lengths |-> Message(m)])
    /\ wire = <<>> /\ buf = <<>> /\ inbound = <<>> /\ handed = <<>>
    /\ reading = (proto = "sv2")
    /\ jobs = 0

-----------------------------------------------------------------------------
(* The peer *)

Arrive ==
    /\ ~closed
    /\ \E n \in 1..Len(unsent) :
        /\ wire' = wire \o SubSeq(unsent, 1, n)
        /\ unsent' = SubSeq(unsent, n + 1, Len(unsent))
    /\ UNCHANGED <<proto, running, banned, closed, buf, reading, inbound, handed, jobs>>

HangUp ==
    /\ ~closed
    /\ closed' = TRUE
    /\ UNCHANGED <<proto, running, banned, unsent, wire, buf, reading, inbound, handed, jobs>>

-----------------------------------------------------------------------------
(* SV1: one turn of read_line_bounded, on the bytes that have arrived *)

\* handle_line: a line that is not a request ends the session, a request is
\* dispatched and a blank line ignored.  The next read starts with an empty
\* buffer.
handle_line(bytes) ==
    /\ handed' = Append(handed, bytes)
    /\ running' = (Text(bytes) = <<>> \/ \E m \in Messages : Text(m) = Text(bytes))
    /\ buf' = <<>>
    /\ UNCHANGED banned

TooLong ==
    /\ running' = FALSE /\ banned' = TRUE
    /\ UNCHANGED <<handed, buf>>

FillLine ==
    /\ proto = "sv1" /\ running /\ wire # <<>>
    /\ LET newlines == {i \in DOMAIN wire : EndsMessage(wire[i])}
       IN  \/ /\ newlines # {}
              /\ LET pos == CHOOSE i \in newlines : \A j \in newlines : i <= j
                     line == buf \o SubSeq(wire, 1, pos)
                 IN  /\ wire' = SubSeq(wire, pos + 1, Len(wire))
                     /\ IF Len(line) - 1 > max_message_bytes THEN TooLong ELSE handle_line(line)
           \/ /\ newlines = {}
              /\ wire' = <<>>
              /\ IF Len(buf \o wire) > max_message_bytes
                 THEN TooLong
                 ELSE buf' = buf \o wire /\ UNCHANGED <<running, banned, handed>>
    /\ UNCHANGED <<proto, peer, reading, inbound, jobs>>

\* The end of the stream: what was read of a last line is handed over as one.
EndOfLines ==
    /\ proto = "sv1" /\ running /\ closed /\ wire = <<>>
    /\ IF buf = <<>>
       THEN running' = FALSE /\ UNCHANGED <<banned, handed, buf>>
       ELSE handle_line(buf)
    /\ UNCHANGED <<proto, peer, wire, reading, inbound, jobs>>

-----------------------------------------------------------------------------
(* SV2: the reader task, and the arm that takes what it read *)

NextFrame == Message(wire[1][1])
FrameIsHere == wire # <<>> /\ Len(wire) >= Len(NextFrame)

ReadFrame ==
    /\ reading
    /\ \/ /\ wire # <<>> /\ Len(NextFrame) > max_message_bytes + Slack
          /\ reading' = FALSE
          /\ UNCHANGED <<wire, inbound>>
       \/ /\ FrameIsHere /\ Len(NextFrame) <= max_message_bytes + Slack
          /\ Len(inbound) < InboundCap
          /\ inbound' = Append(inbound, NextFrame)
          /\ wire' = SubSeq(wire, Len(NextFrame) + 1, Len(wire))
          /\ UNCHANGED reading
       \/ /\ closed /\ ~FrameIsHere
          /\ reading' = FALSE
          /\ UNCHANGED <<wire, inbound>>
    /\ UNCHANGED <<proto, running, banned, peer, buf, handed, jobs>>

RecvFrame ==
    /\ proto = "sv2" /\ running
    /\ IF inbound = <<>>
       THEN ~reading /\ running' = FALSE /\ UNCHANGED <<banned, handed, inbound>>
       ELSE /\ inbound' = Tail(inbound)
            /\ IF Len(Head(inbound)) > max_message_bytes
               THEN running' = FALSE /\ banned' = TRUE /\ UNCHANGED handed
               ELSE handed' = Append(handed, Head(inbound)) /\ UNCHANGED <<running, banned>>
    /\ UNCHANGED <<proto, peer, wire, buf, reading, jobs>>

-----------------------------------------------------------------------------
(* The job arm.  The read arm is dropped and made anew, and a line's read  *)
(* begins by clearing its buffer.                                          *)

RecvJob ==
    /\ running /\ jobs < MaxJobs
    /\ jobs' = jobs + 1
    /\ buf' = <<>>
    /\ UNCHANGED <<proto, running, banned, peer, wire, reading, inbound, handed>>

Next == Arrive \/ HangUp \/ FillLine \/ EndOfLines \/ ReadFrame \/ RecvFrame \/ RecvJob

Spec == Init /\ [][Next]_vars

-----------------------------------------------------------------------------
\* What the handler is given are the messages the peer sent, whole and in
\* order, whatever broadcasts come in between; only a peer that hangs up in
\* the middle of one may have a part of it handed over.  read_line_bounded
\* promises it: "Read one line ... into `buf`".
MessagesArriveWhole ==
    \A i \in DOMAIN handed :
        \/ handed[i] = Message(i)
        \/ closed /\ i = Len(handed) /\ IsPrefix(handed[i], Message(i))
=============================================================================
