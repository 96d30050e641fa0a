---------------------------- MODULE BufferedSocket ----------------------------
(***************************************************************************)
(* BufferedSocket (src/event/BufferedSocket.cxx): a socket monitor with an *)
(* input buffer.  The event loop calls OnSocketReady() while a read is     *)
(* scheduled and the socket is readable; it reads into the buffer and      *)
(* hands the buffered bytes to the owner's OnSocketInput() handler, whose  *)
(* answer (MORE, PAUSE, AGAIN, CLOSED) decides whether reading goes on.    *)
(* The owner may call ResumeInput() itself later.                          *)
(*                                                                         *)
(* Bytes are counted.  The peer and the handler are the environment: the   *)
(* handler consumes any part of the buffer (at least one byte when it      *)
(* answers AGAIN, or ResumeInput() would loop forever), and while it has   *)
(* paused input it keeps answering PAUSE until its owner resumes.          *)
(* OnSocketClosed() and OnSocketError() make the owner close the socket.   *)
(* A false return of OnSocketReady() makes SocketMonitor::Dispatch()       *)
(* cancel the monitor.                                                     *)
(***************************************************************************)
EXTENDS Naturals

CONSTANTS
    Cap,        \* the capacity of the input buffer, in bytes
    MaxSent     \* bound on the bytes the peer sends

VARIABLES
    buf,        \* bytes in the input buffer
    avail,      \* bytes received by the kernel, not yet read
    sent,       \* bytes the peer has sent so far
    peerClosed, \* the peer has shut the connection down
    scheduled,  \* a read is scheduled (ScheduleRead / CancelRead)
    open,       \* the socket is defined and its owner alive
    paused,     \* the handler answered PAUSE and was not resumed since
    pc,         \* "idle" or "resume" (inside ResumeInput's loop)
    caller      \* who runs ResumeInput: "ready" (OnSocketReady) or "owner"

vars == <<buf, avail, sent, peerClosed, scheduled, open, paused, pc, caller>>

InputResults == {"MORE", "PAUSE", "AGAIN", "CLOSED"}

TypeOK ==
    /\ buf \in 0..Cap
    /\ avail \in 0..MaxSent
    /\ sent \in 0..MaxSent
    /\ peerClosed \in BOOLEAN
    /\ scheduled \in BOOLEAN
    /\ open \in BOOLEAN
    /\ paused \in BOOLEAN
    /\ pc \in {"idle", "resume"}
    /\ caller \in {"ready", "owner"}

\* A connected socket with an empty buffer and a read scheduled.
Init ==
    /\ buf = 0
    /\ avail = 0
    /\ sent = 0
    /\ peerClosed = FALSE
    /\ scheduled = TRUE
    /\ open = TRUE
    /\ paused = FALSE
    /\ pc = "idle"
    /\ caller = "ready"

\* The end of ResumeInput() with result ok, and for OnSocketReady() the
\* lines after it (117-124): on true the read is scheduled again unless
\* the buffer is full.  s is the value of `scheduled` ResumeInput left.
Return(ok, s, bufAfter) ==
    /\ pc' = "idle"
    /\ scheduled' = IF caller = "ready" /\ ok /\ bufAfter < Cap
                    THEN TRUE ELSE s

\* A mutant: an empty buffer returns without scheduling a read.
OnEmptyNoSchedule == Return(TRUE, scheduled, 0)

\* ResumeInput() finding the buffer empty (lines 71-75).
OnEmpty == Return(TRUE, TRUE, 0)

\* A mutant: MORE schedules a read even with a full buffer.
AfterMoreNoFullCheck(b) ==
    /\ open' = open
    /\ Return(TRUE, TRUE, b)

\* The MORE answer (lines 79-86): a full buffer that the handler did not
\* drain is an error, which makes the owner close the socket; otherwise
\* another read is scheduled.
AfterMore(b) ==
    IF b = Cap
    THEN /\ open' = FALSE
         /\ Return(FALSE, FALSE, b)
    ELSE /\ open' = open
         /\ Return(TRUE, TRUE, b)

\* One pass of ResumeInput()'s loop (lines 65-99): one call of the
\* handler, which consumes c bytes and answers r.
ResumeStep ==
    /\ pc = "resume"
    /\ IF buf = 0
       THEN /\ OnEmpty
            /\ UNCHANGED <<buf, open, paused>>
       ELSE \E r \in InputResults, c \in 0..buf :
              /\ paused => r = "PAUSE"
              /\ r = "AGAIN" => c >= 1
              /\ buf' = buf - c
              /\ CASE r = "MORE" ->
                        /\ AfterMore(buf - c)
                        /\ UNCHANGED paused
                   [] r = "PAUSE" ->
                        /\ paused' = TRUE
                        /\ Return(TRUE, FALSE, buf - c)
                        /\ UNCHANGED open
                   [] r = "AGAIN" ->
                        UNCHANGED <<pc, scheduled, open, paused>>
                   [] r = "CLOSED" ->
                        /\ open' = FALSE
                        /\ Return(FALSE, FALSE, buf - c)
                        /\ UNCHANGED paused
    /\ UNCHANGED <<avail, sent, peerClosed, caller>>

\* The socket found closed by the peer: OnSocketClosed() (lines 34-36,
\* 43-44, 106-108) makes the owner close it, and the false return makes
\* SocketMonitor::Dispatch() cancel the monitor.
SocketClosed ==
    /\ open' = FALSE
    /\ scheduled' = FALSE

\* A mutant: the read ignores the free space of the buffer.
ReadSizeAll == avail

\* The bytes one read moves into the buffer: SocketMonitor::Read() is given
\* the buffer's write area (lines 55-60).
ReadSize == IF Cap - buf < avail THEN Cap - buf ELSE avail

\* OnSocketReady() (lines 101-128) with DirectRead() and ReadToBuffer()
\* (lines 27-63).  A closed peer shows as ERROR|HANGUP or as a read of 0
\* bytes; either way OnSocketClosed() runs and the false return cancels
\* the monitor.  Otherwise the available bytes that fit are read and
\* handed to ResumeInput().
Ready ==
    /\ open /\ scheduled /\ pc = "idle"
    /\ avail > 0 \/ peerClosed
    /\ \/ /\ peerClosed
          /\ SocketClosed
          /\ UNCHANGED <<buf, avail, pc, caller>>
       \/ /\ avail > 0
          /\ buf' = buf + ReadSize
          /\ avail' = avail - ReadSize
          /\ pc' = "resume"
          /\ caller' = "ready"
          /\ UNCHANGED <<open, scheduled>>
    /\ UNCHANGED <<sent, peerClosed, paused>>

\* The owner calls ResumeInput() after it has paused input.
OwnerResume ==
    /\ open /\ pc = "idle" /\ paused
    /\ paused' = FALSE
    /\ pc' = "resume"
    /\ caller' = "owner"
    /\ UNCHANGED <<buf, avail, sent, peerClosed, scheduled, open>>

Send ==
    /\ open /\ ~peerClosed /\ sent < MaxSent
    /\ avail' = avail + 1
    /\ sent' = sent + 1
    /\ UNCHANGED <<buf, peerClosed, scheduled, open, paused, pc, caller>>

PeerClose ==
    /\ open /\ ~peerClosed
    /\ peerClosed' = TRUE
    /\ UNCHANGED <<buf, avail, sent, scheduled, open, paused, pc, caller>>

Next == Ready \/ ResumeStep \/ OwnerResume \/ Send \/ PeerClose

\* The event loop dispatches a ready socket and the handler returns; the
\* owner's resume and the peer are not fair.
Spec == Init /\ [][Next]_vars /\ WF_vars(Ready) /\ WF_vars(ResumeStep)

(***************************************************************************)
(* Properties.                                                             *)
(***************************************************************************)

\* A read is never scheduled into a full buffer: OnSocketReady() asserts
\* !input.IsFull() (line 112) and ReadToBuffer() a non-empty write area
\* (line 56).  Every path that schedules a read, from ResumeInput() or from
\* line 124, has to check the buffer first.  It is stated where the event
\* loop may dispatch, outside OnSocketReady() and ResumeInput().
NoReadIntoFullBuffer == (open /\ scheduled /\ pc = "idle") => buf < Cap

\* Input does not stall: bytes the peer sent are eventually read, unless
\* the handler paused input or the socket was closed.
InputNotStalled ==
    (open /\ ~paused /\ avail > 0) ~> (~open \/ paused \/ avail = 0)

=============================================================================
