----------------------------- MODULE RadioLink -----------------------------
(***************************************************************************)
(* The radio dispatcher (urc200-serial/src/radio.rs): one task that owns   *)
(* the serial port, takes requests from a bounded channel one at a time,   *)
(* writes each to the wire and waits for one response, with the parser and *)
(* NAK counter of urc200-proto/src/response.rs and the drain of serial.rs. *)
(*                                                                         *)
(* A response is a sequence of chunks, "data" then a terminator; "ack"     *)
(* stands for ACK and HT, which the dispatcher treats alike.  Each request *)
(* carries a ticket, and each chunk the ticket of the command that caused  *)
(* it: the code has no such thing, which is what the properties are about. *)
(***************************************************************************)
EXTENDS Integers, Sequences

CONSTANTS Callers,      \* tasks that hold a Radio handle
          Tickets,      \* names of requests; reused once nothing carries them
          NoReq,        \* no request in progress
          QueueCap,     \* CHANNEL_CAPACITY (16)
          LateReplies,  \* TRUE: an answer may arrive any time after a timeout;
                        \* FALSE: it is in the OS buffer before the next command
          DrainMayFail  \* drain_input may fail, which is only logged

VARIABLES
  result,    \* per caller: the last Result it was given, or "pending"
  queue,     \* the mpsc queue of CommandRequest
  disp,      \* where dispatcher_loop is
  req,       \* the request it works on
  parser,    \* ResponseParser.buf: tickets of the data it holds
  naks,      \* NakCounter.consecutive, which matters up to NakLimit
  closing,   \* the shutdown oneshot has fired
  radioIn,   \* commands on their way to the radio
  wire,      \* chunks on their way back
  rxbuf      \* chunks in the OS receive buffer

linkVars == <<result, queue, disp, req, parser, naks, closing, radioIn, wire, rxbuf>>
hostVars  == <<result, queue, disp, req, parser, naks, closing>>

NakLimit  == 3
Parts     == {"data", "ack", "nak"}
Chunks    == [ticket : Tickets, part : Parts]
Requests  == [from : Callers, ticket : Tickets, inquiry : BOOLEAN]
Failures  == {"timeout", "closed", "transport"}
Results   == [kind : {"none", "pending", "ack", "nak", "fault"} \cup Failures,
              own : BOOLEAN]

ASSUME LinkAssumption == /\ QueueCap \in Nat \ {0}
                         /\ LateReplies \in BOOLEAN
                         /\ DrainMayFail \in BOOLEAN
                         /\ NoReq \notin Requests

(* A result that no response is behind.                                    *)
Plain(k) == [kind |-> k, own |-> TRUE]

LinkTypeOK ==
  /\ result \in [Callers -> Results]
  /\ queue \in Seq(Requests)
  /\ Len(queue) <= QueueCap
  /\ disp \in {"recv", "drain", "write", "await", "ended"}
  /\ req \in Requests \cup {NoReq}
  /\ disp \in {"drain", "write", "await"} => req \in Requests
  /\ parser \in Seq(Tickets)
  /\ naks \in 0..NakLimit
  /\ closing \in BOOLEAN
  /\ radioIn \in Seq(Requests)
  /\ wire \in Seq(Chunks)
  /\ rxbuf \in Seq(Chunks)

(* SerialTransport::open has cleared the OS buffers.                       *)
LinkInit ==
  /\ result = [c \in Callers |-> Plain("none")]
  /\ queue = <<>>
  /\ disp = "recv"
  /\ req = NoReq
  /\ parser = <<>>
  /\ naks = 0
  /\ closing = FALSE
  /\ radioIn = <<>>
  /\ wire = <<>>
  /\ rxbuf = <<>>

-----------------------------------------------------------------------------
(* Radio::send_raw: a request into the channel, then await the oneshot.    *)

Elems(s) == {s[i] : i \in 1..Len(s)}

InFlight == {r.ticket : r \in Elems(queue) \cup Elems(radioIn)}
            \cup {k.ticket : k \in Elems(wire) \cup Elems(rxbuf)}
            \cup Elems(parser)
            \cup (IF req = NoReq THEN {} ELSE {req.ticket})

Waiting(c) == result[c].kind = "pending"

(* Mutant: an unbounded channel.                                           *)
SendUnbounded(c) ==
  /\ ~Waiting(c)
  /\ disp # "ended"
  /\ \E t \in Tickets \ InFlight, q \in BOOLEAN :
       queue' = Append(queue, [from |-> c, ticket |-> t, inquiry |-> q])
  /\ result' = [result EXCEPT ![c] = Plain("pending")]
  /\ UNCHANGED <<disp, req, parser, naks, closing, radioIn, wire, rxbuf>>

Send(c) ==
  /\ ~Waiting(c)
  /\ disp # "ended"
  /\ Len(queue) < QueueCap
  /\ \E t \in Tickets \ InFlight, q \in BOOLEAN :
       queue' = Append(queue, [from |-> c, ticket |-> t, inquiry |-> q])
  /\ result' = [result EXCEPT ![c] = Plain("pending")]
  /\ UNCHANGED <<disp, req, parser, naks, closing, radioIn, wire, rxbuf>>

(* The receiver is gone: the send fails, or the queued request, its reply  *)
(* channel with it, has been dropped.                                      *)
SendClosed(c) ==
  /\ disp = "ended"
  /\ result[c].kind # "closed"
  /\ result' = [result EXCEPT ![c] = Plain("closed")]
  /\ UNCHANGED <<queue, disp, req, parser, naks, closing, radioIn, wire, rxbuf>>

(* RadioHandle::shutdown, or its Drop.                                     *)
Shutdown ==
  /\ ~closing
  /\ closing' = TRUE
  /\ UNCHANGED <<result, queue, disp, req, parser, naks, radioIn, wire, rxbuf>>

-----------------------------------------------------------------------------
(* dispatcher_loop                                                         *)

(* The biased select! looks at the shutdown signal first.                  *)
SeeShutdown ==
  /\ disp = "recv"
  /\ closing
  /\ disp' = "ended"
  /\ UNCHANGED <<result, queue, req, parser, naks, closing, radioIn, wire, rxbuf>>

(* Mutants: the parser is not reset; the select! is not biased.            *)
NextWithoutReset ==
  /\ disp = "recv"
  /\ ~closing
  /\ queue # <<>>
  /\ req' = Head(queue)
  /\ queue' = Tail(queue)
  /\ disp' = "drain"
  /\ UNCHANGED <<result, parser, naks, closing, radioIn, wire, rxbuf>>

NextUnbiased ==
  /\ disp = "recv"
  /\ queue # <<>>
  /\ req' = Head(queue)
  /\ queue' = Tail(queue)
  /\ parser' = <<>>
  /\ disp' = "drain"
  /\ UNCHANGED <<result, naks, closing, radioIn, wire, rxbuf>>

NextRequest ==
  /\ disp = "recv"
  /\ ~closing
  /\ queue # <<>>
  /\ req' = Head(queue)
  /\ queue' = Tail(queue)
  /\ parser' = <<>>
  /\ disp' = "drain"
  /\ UNCHANGED <<result, naks, closing, radioIn, wire, rxbuf>>

(* Without LateReplies the radio has nothing more to say by now.           *)
Drain ==
  /\ disp = "drain"
  /\ LateReplies \/ (radioIn = <<>> /\ wire = <<>>)
  /\ rxbuf' = <<>> \/ (DrainMayFail /\ rxbuf' = rxbuf)
  /\ disp' = "write"
  /\ UNCHANGED <<result, queue, req, parser, naks, closing, radioIn, wire>>

Finish(res) ==
  /\ result' = [result EXCEPT ![req.from] = res]
  /\ disp' = "recv"
  /\ req' = NoReq

Write ==
  /\ disp = "write"
  /\ radioIn' = Append(radioIn, req)
  /\ disp' = "await"
  /\ UNCHANGED <<result, queue, req, parser, naks, closing, wire, rxbuf>>

(* Mutant: the caller of a failed write is not told.                       *)
WriteFailsSilently ==
  /\ disp = "write"
  /\ radioIn' \in {radioIn, Append(radioIn, req)}
  /\ disp' = "recv"
  /\ req' = NoReq
  /\ UNCHANGED <<result, queue, parser, naks, closing, wire, rxbuf>>

(* A failed write may still have put the command on the wire.              *)
WriteFails ==
  /\ disp = "write"
  /\ radioIn' \in {radioIn, Append(radioIn, req)}
  /\ Finish(Plain("transport"))
  /\ UNCHANGED <<queue, parser, naks, closing, wire, rxbuf>>

(* NakCounter::observe: only a NAK counts, only an ACK or HT clears it; a  *)
(* timeout does neither.                                                   *)
Observe(part) ==
  naks' = IF part # "nak" THEN 0 ELSE IF naks < NakLimit THEN naks + 1 ELSE naks

(* One read of await_response: some bytes of what has arrived, fed to the  *)
(* parser until it yields a response.  What the read returned beyond the   *)
(* terminator is dropped with the read buffer.                             *)
ReadData ==
  /\ disp = "await"
  /\ \E n \in 1..Len(rxbuf) :
       /\ \A i \in 1..n : rxbuf[i].part = "data"
       /\ parser' = parser \o [i \in 1..n |-> rxbuf[i].ticket]
       /\ rxbuf' = SubSeq(rxbuf, n + 1, Len(rxbuf))
  /\ UNCHANGED <<result, queue, disp, req, naks, closing, radioIn, wire>>

(* n chunks are read and the k-th of them is the first terminator.         *)
ReadsResponse(n, k) ==
  /\ rxbuf[k].part # "data"
  /\ \A i \in 1..k-1 : rxbuf[i].part = "data"
  /\ rxbuf' = SubSeq(rxbuf, n + 1, Len(rxbuf))
  /\ Observe(rxbuf[k].part)
  /\ Finish([kind |-> IF naks' = NakLimit THEN "fault" ELSE rxbuf[k].part,
             own |-> /\ \A i \in 1..k : rxbuf[i].ticket = req.ticket
                     /\ \A t \in Elems(parser) : t = req.ticket])
  /\ parser' = <<>>

ReadResponse ==
  /\ disp = "await"
  /\ \E n \in 1..Len(rxbuf) : \E k \in 1..n : ReadsResponse(n, k)
  /\ UNCHANGED <<queue, closing, radioIn, wire>>

(* The deadline passes, the port reports an error or end of file.          *)
AwaitFails ==
  /\ disp = "await"
  /\ \E k \in Failures : Finish(Plain(k))
  /\ UNCHANGED <<queue, parser, naks, closing, radioIn, wire, rxbuf>>

-----------------------------------------------------------------------------
(* The radio and the cable.                                                *)

Chunk(r, p) == [ticket |-> r.ticket, part |-> p]

RadioAnswers ==
  /\ radioIn # <<>>
  /\ LET r == Head(radioIn) IN
       \/ wire' = wire \o (IF r.inquiry THEN <<Chunk(r, "data"), Chunk(r, "ack")>>
                                        ELSE <<Chunk(r, "ack")>>)
       \/ wire' = Append(wire, Chunk(r, "nak"))
       \/ wire' = wire
  /\ radioIn' = Tail(radioIn)
  /\ UNCHANGED <<hostVars, rxbuf>>

Arrive ==
  /\ wire # <<>>
  /\ rxbuf' = Append(rxbuf, Head(wire))
  /\ wire' = Tail(wire)
  /\ UNCHANGED <<hostVars, radioIn>>

-----------------------------------------------------------------------------
Dispatcher == SeeShutdown \/ NextRequest \/ Drain \/ Write \/ WriteFails
              \/ ReadData \/ ReadResponse \/ AwaitFails

LinkNext ==
  \/ \E c \in Callers : Send(c) \/ SendClosed(c)
  \/ Shutdown
  \/ Dispatcher
  \/ RadioAnswers
  \/ Arrive

LinkSpec == LinkInit /\ [][LinkNext]_linkVars

(* tokio runs the dispatcher, the deadline of await_response passes, the   *)
(* cable delivers, and a dropped oneshot wakes its receiver.               *)
FairSpec == /\ LinkSpec
            /\ WF_linkVars(Dispatcher)
            /\ WF_linkVars(AwaitFails)
            /\ WF_linkVars(RadioAnswers)
            /\ WF_linkVars(Arrive)
            /\ \A c \in Callers : WF_linkVars(Waiting(c) /\ SendClosed(c))

-----------------------------------------------------------------------------
(* Every response a caller is given is made of its own command's answer    *)
(* and nothing else.  transport.rs promises it of the drain: "a late or    *)
(* stray response from a previous command cannot be mis-attributed to the  *)
(* next one".                                                              *)
Attribution == \A c \in Callers : result[c].own

(* Why attribution holds when answers are never later than the next        *)
(* command: the line is silent when a command is written, and until its    *)
(* caller is answered all that travels, is buffered or is half parsed      *)
(* belongs to it.                                                          *)
LineIsOwn ==
  /\ disp = "drain" => parser = <<>>
  /\ disp = "write" => radioIn = <<>> /\ wire = <<>> /\ rxbuf = <<>> /\ parser = <<>>
  /\ disp = "await" =>
       /\ \A r \in Elems(radioIn) : r = req
       /\ \A k \in Elems(wire) \cup Elems(rxbuf) : k.ticket = req.ticket
       /\ \A t \in Elems(parser) : t = req.ticket

(* Every send returns, whatever the radio does, also across a shutdown.    *)
EverySendReturns == \A c \in Callers : Waiting(c) ~> ~Waiting(c)

(* The shutdown signal ends the dispatcher after at most the command in    *)
(* progress, however many requests are queued or keep coming.              *)
ShutdownEnds == closing ~> disp = "ended"
=============================================================================
