--------------------------- MODULE CommandProofs ---------------------------
(***************************************************************************)
(* Proofs about commands on their way to the radio.  Of RadioLink, which   *)
(* carries one at a time: everybody is given the answer to his own, for    *)
(* any number of callers and any queue capacity.  Of TuneFunnel, where     *)
(* requests are sequences of them that interleave: the emergency presets   *)
(* survive library tunes, scans, keying and errors, and a handler that is  *)
(* alone gets what it asked for, for any handlers, slots and channels.     *)
(***************************************************************************)
EXTENDS RadioLink, TuneFunnel, TLAPS

-----------------------------------------------------------------------------
(* The link *)

(* The radio is never later with an answer than the next command, and the  *)
(* OS does discard its buffer when asked.                                  *)
OrderlyLine == ~LateReplies /\ ~DrainMayFail

(* What the sequence operations do to the elements of a sequence.          *)
LEMMA ElemsAppend ==
  ASSUME NEW S, NEW s \in Seq(S), NEW e \in S
  PROVE  /\ Append(s, e) \in Seq(S) /\ Len(Append(s, e)) = Len(s) + 1
         /\ Elems(Append(s, e)) = Elems(s) \cup {e}
<1>1. /\ Append(s, e) \in Seq(S) /\ Len(Append(s, e)) = Len(s) + 1 /\ Len(s) \in Nat
      /\ \A i \in 1..Len(s) : Append(s, e)[i] = s[i]
      /\ Append(s, e)[Len(s) + 1] = e
  OBVIOUS
<1>2. \A i \in 1..Len(s)+1 : i \in 1..Len(s) \/ i = Len(s) + 1
  BY <1>1
<1> QED
  BY <1>1, <1>2 DEF Elems

LEMMA ElemsTail ==
  ASSUME NEW S, NEW s \in Seq(S), s # <<>>
  PROVE  /\ Tail(s) \in Seq(S) /\ Len(Tail(s)) = Len(s) - 1 /\ Head(s) \in S
         /\ Head(s) \in Elems(s) /\ Elems(Tail(s)) \subseteq Elems(s)
<1>1. /\ Tail(s) \in Seq(S) /\ Len(s) \in Nat \ {0} /\ Len(Tail(s)) = Len(s) - 1
      /\ \A i \in 1..Len(Tail(s)) : Tail(s)[i] = s[i + 1]
      /\ Head(s) = s[1] /\ Head(s) \in S
  OBVIOUS
<1> QED
  BY <1>1 DEF Elems

LEMMA ElemsSuffix ==
  ASSUME NEW S, NEW s \in Seq(S), NEW n \in 1..Len(s)
  PROVE  /\ SubSeq(s, n + 1, Len(s)) \in Seq(S)
         /\ Elems(SubSeq(s, n + 1, Len(s))) \subseteq Elems(s)
<1> DEFINE u == SubSeq(s, n + 1, Len(s))
<1>1. /\ u \in Seq(S) /\ Len(s) \in Nat /\ Len(u) = Len(s) - n
      /\ \A i \in 1..Len(u) : u[i] = s[n + i]
  OBVIOUS
<1> QED
  BY <1>1 DEF Elems

LEMMA ElemsConcat ==
  ASSUME NEW S, NEW s \in Seq(S), NEW u \in Seq(S)
  PROVE  /\ s \o u \in Seq(S)
         /\ Elems(s \o u) \subseteq Elems(s) \cup Elems(u)
<1>1. /\ s \o u \in Seq(S) /\ Len(s) \in Nat /\ Len(u) \in Nat
      /\ Len(s \o u) = Len(s) + Len(u)
      /\ \A i \in 1..Len(s) : (s \o u)[i] = s[i]
      /\ \A i \in Len(s)+1..Len(s)+Len(u) : (s \o u)[i] = u[i - Len(s)]
  OBVIOUS
<1> QED
  BY <1>1 DEF Elems

LEMMA ElemsEmpty == Elems(<<>>) = {}
BY DEF Elems

-----------------------------------------------------------------------------
LEMMA InitType == LinkInit => LinkTypeOK
<1>1. <<>> \in Seq(Requests) /\ <<>> \in Seq(Tickets) /\ <<>> \in Seq(Chunks) /\ Len(<<>>) = 0
  OBVIOUS
<1>2. Plain("none") \in Results
  BY DEF Plain, Results
<1>3. 0 \in 0..NakLimit
  BY DEF NakLimit
<1>4. LinkInit => result \in [Callers -> Results]
  BY <1>2 DEF LinkInit
<1>5. LinkInit => Len(queue) <= QueueCap
  BY <1>1, LinkAssumption DEF LinkInit
<1> QED
  BY <1>1, <1>3, <1>4, <1>5 DEF LinkInit, LinkTypeOK

LEMMA PlainType ==
  ASSUME NEW k \in {"none", "pending"} \cup Failures
  PROVE  Plain(k) \in Results
BY DEF Plain, Results

LEMMA FinishType ==
  ASSUME LinkTypeOK, req \in Requests, NEW res \in Results, Finish(res)
  PROVE  /\ result' \in [Callers -> Results]
         /\ disp' = "recv" /\ req' = NoReq
BY DEF LinkTypeOK, Finish, Requests

(* LinkTypeOK is inductive.                                                *)
LEMMA TypeInductive == LinkTypeOK /\ [LinkNext]_linkVars => LinkTypeOK'
<1> SUFFICES ASSUME LinkTypeOK, [LinkNext]_linkVars PROVE LinkTypeOK'
  OBVIOUS
<1> USE LinkAssumption
<1>a. ASSUME NEW c \in Callers, Send(c) PROVE LinkTypeOK'
  <2>1. PICK r \in Requests : queue' = Append(queue, r)
    BY <1>a DEF Send, Requests
  <2>2. queue' \in Seq(Requests) /\ Len(queue') <= QueueCap
    BY <1>a, <2>1, ElemsAppend DEF Send, LinkTypeOK
  <2>3. result' \in [Callers -> Results]
    BY <1>a, PlainType DEF Send, LinkTypeOK
  <2> QED
    BY <1>a, <2>2, <2>3 DEF Send, LinkTypeOK
<1>b. ASSUME NEW c \in Callers, SendClosed(c) PROVE LinkTypeOK'
  <2>1. result' \in [Callers -> Results]
    BY <1>b, PlainType DEF SendClosed, LinkTypeOK, Failures
  <2> QED
    BY <1>b, <2>1 DEF SendClosed, LinkTypeOK
<1>c. CASE Shutdown \/ SeeShutdown
  BY <1>c DEF Shutdown, SeeShutdown, LinkTypeOK
<1>d. CASE NextRequest
  <2>1. queue' \in Seq(Requests) /\ Len(queue') <= QueueCap /\ req' \in Requests
    BY <1>d, ElemsTail DEF NextRequest, LinkTypeOK
  <2>2. parser' \in Seq(Tickets)
    BY <1>d DEF NextRequest
  <2> QED
    BY <1>d, <2>1, <2>2 DEF NextRequest, LinkTypeOK
<1>e. CASE Drain
  <2>1. rxbuf' \in Seq(Chunks)
    <3>1. <<>> \in Seq(Chunks)
      OBVIOUS
    <3> QED
      BY <1>e, <3>1 DEF Drain, LinkTypeOK
  <2> QED
    BY <1>e, <2>1 DEF Drain, LinkTypeOK
<1>f. CASE Write
  <2>1. radioIn' \in Seq(Requests)
    BY <1>f, ElemsAppend DEF Write, LinkTypeOK
  <2> QED
    BY <1>f, <2>1 DEF Write, LinkTypeOK
<1>g. CASE WriteFails
  <2>1. req \in Requests /\ radioIn' \in Seq(Requests)
    <3>1. req \in Requests /\ radioIn \in Seq(Requests)
      BY <1>g DEF WriteFails, LinkTypeOK
    <3>2. Append(radioIn, req) \in Seq(Requests)
      BY <3>1, ElemsAppend
    <3> QED
      BY <1>g, <3>1, <3>2 DEF WriteFails
  <2>2. /\ result' \in [Callers -> Results]
        /\ disp' = "recv" /\ req' = NoReq
    BY <1>g, <2>1, PlainType, FinishType DEF WriteFails, Failures
  <2> QED
    BY <1>g, <2>1, <2>2 DEF WriteFails, LinkTypeOK
<1>h. CASE ReadData
  <2>1. PICK n \in 1..Len(rxbuf) :
          /\ parser' = parser \o [i \in 1..n |-> rxbuf[i].ticket]
          /\ rxbuf' = SubSeq(rxbuf, n + 1, Len(rxbuf))
    BY <1>h DEF ReadData
  <2>2. rxbuf' \in Seq(Chunks)
    BY <2>1, ElemsSuffix DEF LinkTypeOK
  <2>3. [i \in 1..n |-> rxbuf[i].ticket] \in Seq(Tickets)
    <3>1. rxbuf \in Seq(Chunks) /\ n \in Nat
      BY DEF LinkTypeOK
    <3>2. \A i \in 1..n : rxbuf[i] \in Chunks
      BY <2>1, <3>1
    <3> QED
      BY <3>1, <3>2 DEF Chunks
  <2>4. parser' \in Seq(Tickets)
    BY <2>1, <2>3, ElemsConcat DEF LinkTypeOK
  <2> QED
    BY <1>h, <2>2, <2>4 DEF ReadData, LinkTypeOK
<1>i. CASE ReadResponse
  <2>1. req \in Requests
    BY <1>i DEF ReadResponse, LinkTypeOK
  <2>n. PICK n \in 1..Len(rxbuf) : \E k \in 1..n : ReadsResponse(n, k)
    BY <1>i DEF ReadResponse
  <2>k. PICK k \in 1..n : ReadsResponse(n, k)
    BY <2>n
  <2>2. /\ n \in 1..Len(rxbuf)
        /\ k \in 1..Len(rxbuf)
        /\ rxbuf[k].part # "data"
        /\ rxbuf' = SubSeq(rxbuf, n + 1, Len(rxbuf))
        /\ Observe(rxbuf[k].part)
        /\ Finish([kind |-> IF naks' = NakLimit THEN "fault" ELSE rxbuf[k].part,
                   own |-> /\ \A i \in 1..k : rxbuf[i].ticket = req.ticket
                           /\ \A t \in Elems(parser) : t = req.ticket])
        /\ parser' = <<>>
    BY <2>n, <2>k DEF ReadsResponse
  <2>3. rxbuf' \in Seq(Chunks) /\ parser' \in Seq(Tickets)
    BY <2>2, ElemsSuffix DEF LinkTypeOK
  <2>4. naks' \in 0..NakLimit
    BY <2>1, <2>2 DEF Observe, NakLimit, LinkTypeOK, Requests
  <2>5. rxbuf[k] \in Chunks
    BY <2>2 DEF LinkTypeOK
  <2>6. rxbuf[k].part \in {"ack", "nak"}
    BY <2>2, <2>5 DEF Chunks, Parts
  <2> DEFINE res == [kind |-> IF naks' = NakLimit THEN "fault" ELSE rxbuf[k].part,
                     own |-> /\ \A i \in 1..k : rxbuf[i].ticket = req.ticket
                             /\ \A t \in Elems(parser) : t = req.ticket]
  <2>7. res \in Results
    BY <2>4, <2>6 DEF Results
  <2>8. Finish(res)
    BY <2>2
  <2> HIDE DEF res
  <2>9. /\ result' \in [Callers -> Results]
        /\ disp' = "recv" /\ req' = NoReq
    BY <2>1, <2>7, <2>8, FinishType
  <2> QED
    BY <1>i, <2>3, <2>4, <2>9 DEF ReadResponse, LinkTypeOK
<1>j. CASE AwaitFails
  <2>1. req \in Requests
    BY <1>j DEF AwaitFails, LinkTypeOK
  <2>2. /\ result' \in [Callers -> Results]
        /\ disp' = "recv" /\ req' = NoReq
    BY <1>j, <2>1, PlainType, FinishType DEF AwaitFails
  <2> QED
    BY <1>j, <2>2 DEF AwaitFails, LinkTypeOK
<1>k. CASE RadioAnswers
  <2>1. Head(radioIn) \in Requests /\ radioIn' \in Seq(Requests)
    BY <1>k, ElemsTail DEF RadioAnswers, LinkTypeOK
  <2>2. \A p \in Parts : Chunk(Head(radioIn), p) \in Chunks
    BY <2>1 DEF Chunk, Chunks, Requests
  <2>3. /\ <<Chunk(Head(radioIn), "data"), Chunk(Head(radioIn), "ack")>> \in Seq(Chunks)
        /\ <<Chunk(Head(radioIn), "ack")>> \in Seq(Chunks)
        /\ Chunk(Head(radioIn), "nak") \in Chunks
    BY <2>2 DEF Parts
  <2> DEFINE r == Head(radioIn)
  <2>a. wire \in Seq(Chunks)
    BY DEF LinkTypeOK
  <2>b. /\ wire \o <<Chunk(r, "data"), Chunk(r, "ack")>> \in Seq(Chunks)
        /\ wire \o <<Chunk(r, "ack")>> \in Seq(Chunks)
        /\ Append(wire, Chunk(r, "nak")) \in Seq(Chunks)
    BY <2>a, <2>3, ElemsConcat, ElemsAppend
  <2>4. wire' \in Seq(Chunks)
    BY <1>k, <2>a, <2>b DEF RadioAnswers
  <2> QED
    BY <1>k, <2>1, <2>4 DEF RadioAnswers, LinkTypeOK, hostVars
<1>l. CASE Arrive
  <2>1. wire' \in Seq(Chunks) /\ rxbuf' \in Seq(Chunks)
    BY <1>l, ElemsTail, ElemsAppend DEF Arrive, LinkTypeOK
  <2> QED
    BY <1>l, <2>1 DEF Arrive, LinkTypeOK, hostVars
<1>m. CASE UNCHANGED linkVars
  BY <1>m DEF linkVars, LinkTypeOK
<1> QED
  BY <1>a, <1>b, <1>c, <1>d, <1>e, <1>f, <1>g, <1>h, <1>i, <1>j, <1>k, <1>l, <1>m
     DEF LinkNext, Dispatcher

(* The dispatcher's data keep their types: the channel stays within its    *)
(* capacity and a request is in progress exactly when the loop needs one.  *)
THEOREM LinkTypeCorrect == LinkSpec => []LinkTypeOK
BY InitType, TypeInductive, PTL DEF LinkSpec

-----------------------------------------------------------------------------
(* The line stays the request's own while the radio is orderly.            *)
LinkInv == LinkTypeOK /\ LineIsOwn /\ Attribution

LEMMA PlainOwn == \A k : Plain(k).own
BY DEF Plain

LEMMA LineStep ==
  ASSUME OrderlyLine
  PROVE  LinkInv /\ [LinkNext]_linkVars => LineIsOwn'
<1> SUFFICES ASSUME LinkInv, [LinkNext]_linkVars PROVE LineIsOwn'
  OBVIOUS
<1> USE LinkAssumption DEF LineIsOwn
<1>1. LinkTypeOK /\ LineIsOwn
  BY DEF LinkInv
<1>a. CASE \/ \E c \in Callers : Send(c) \/ SendClosed(c)
           \/ Shutdown \/ UNCHANGED linkVars
  BY <1>1, <1>a DEF Send, SendClosed, Shutdown, linkVars
<1>b. CASE SeeShutdown \/ NextRequest
  BY <1>b, ElemsEmpty DEF SeeShutdown, NextRequest
<1>c. CASE Drain
  BY <1>1, <1>c DEF Drain, OrderlyLine
<1>d. CASE Write
  <2>1. /\ wire' = <<>> /\ rxbuf' = <<>> /\ parser' = <<>> /\ radioIn = <<>>
        /\ disp' = "await" /\ req' = req /\ radioIn' = Append(<<>>, req)
    BY <1>1, <1>d DEF Write
  <2>2. Elems(radioIn') = {req}
    <3>1. req \in Requests /\ radioIn \in Seq(Requests)
      BY <1>1, <1>d DEF Write, LinkTypeOK
    <3>2. Elems(Append(radioIn, req)) = Elems(radioIn) \cup {req}
      BY <3>1, ElemsAppend
    <3>3. Elems(radioIn) = {}
      BY <2>1, ElemsEmpty
    <3>4. radioIn' = Append(radioIn, req)
      BY <1>d DEF Write
    <3> QED
      BY <3>2, <3>3, <3>4
  <2> QED
    BY <2>1, <2>2, ElemsEmpty
<1>e. CASE WriteFails \/ ReadResponse \/ AwaitFails
  <2>1. disp' = "recv"
    BY <1>e DEF WriteFails, ReadResponse, ReadsResponse, AwaitFails, Finish
  <2> QED
    BY <2>1
<1>f. CASE ReadData
  <2>1. PICK n \in 1..Len(rxbuf) :
          /\ parser' = parser \o [i \in 1..n |-> rxbuf[i].ticket]
          /\ rxbuf' = SubSeq(rxbuf, n + 1, Len(rxbuf))
    BY <1>f DEF ReadData
  <2>2. /\ UNCHANGED <<disp, req, radioIn, wire>> /\ disp = "await"
        /\ rxbuf \in Seq(Chunks) /\ parser \in Seq(Tickets) /\ n \in Nat /\ Len(rxbuf) \in Nat
    BY <1>1, <1>f DEF ReadData, LinkTypeOK
  <2>3. \A i \in 1..n : rxbuf[i] \in Elems(rxbuf) /\ rxbuf[i] \in Chunks
    BY <2>2 DEF Elems
  <2> DEFINE new == [i \in 1..n |-> rxbuf[i].ticket]
  <2>4. new \in Seq(Tickets) /\ Len(new) = n
    BY <2>2, <2>3 DEF Chunks
  <2>5. \A t \in Elems(new) : t = req.ticket
    BY <1>1, <2>2, <2>3, <2>4 DEF Elems
  <2> HIDE DEF new
  <2>6. parser' = parser \o new
    BY <2>1 DEF new
  <2>7. Elems(parser') \subseteq Elems(parser) \cup Elems(new)
    BY <2>2, <2>4, <2>6, ElemsConcat
  <2>8. Elems(rxbuf') \subseteq Elems(rxbuf)
    BY <2>1, <2>2, ElemsSuffix
  <2> QED
    BY <1>1, <2>2, <2>5, <2>7, <2>8
<1>g. CASE RadioAnswers
  <2> DEFINE r == Head(radioIn)
  <2>1. /\ r \in Requests /\ r \in Elems(radioIn) /\ Elems(radioIn') \subseteq Elems(radioIn)
        /\ radioIn # <<>> /\ wire \in Seq(Chunks)
    BY <1>1, <1>g, ElemsTail DEF RadioAnswers, LinkTypeOK
  <2>2. disp # "write" /\ UNCHANGED hostVars /\ rxbuf' = rxbuf
    BY <1>1, <1>g DEF RadioAnswers
  <2>3. \A p \in Parts : Chunk(r, p) \in Chunks /\ Chunk(r, p).ticket = r.ticket
    BY <2>1 DEF Chunk, Chunks, Requests
  <2> HIDE DEF r
  <2>4. /\ <<Chunk(r, "data"), Chunk(r, "ack")>> \in Seq(Chunks)
        /\ <<Chunk(r, "ack")>> \in Seq(Chunks)
        /\ Elems(<<Chunk(r, "data"), Chunk(r, "ack")>>) = {Chunk(r, "data"), Chunk(r, "ack")}
        /\ Elems(<<Chunk(r, "ack")>>) = {Chunk(r, "ack")}
    <3>1. 1..2 = {1, 2} /\ 1..1 = {1}
      OBVIOUS
    <3> QED
      BY <2>3, <3>1 DEF Parts, Elems
  <2>5. \A k \in Elems(wire') : k \in Elems(wire) \/ k.ticket = r.ticket
    <3>1. CASE wire' = wire \o <<Chunk(r, "data"), Chunk(r, "ack")>>
      <4> DEFINE both == <<Chunk(r, "data"), Chunk(r, "ack")>>
      <4>0. wire \in Seq(Chunks) /\ both \in Seq(Chunks) /\ wire' = wire \o both
        BY <2>1, <2>4, <3>1
      <4>1. Elems(both) = {Chunk(r, "data"), Chunk(r, "ack")}
        BY <2>4
      <4> HIDE DEF both
      <4>2. Elems(wire') \subseteq Elems(wire) \cup {Chunk(r, "data"), Chunk(r, "ack")}
        BY <4>0, <4>1, ElemsConcat
      <4> QED
        BY <2>3, <4>2 DEF Parts
    <3>2. CASE wire' = wire \o <<Chunk(r, "ack")>>
      BY <2>1, <2>3, <2>4, <3>2, ElemsConcat DEF Parts
    <3>3. CASE wire' = Append(wire, Chunk(r, "nak"))
      BY <2>1, <2>3, <3>3, ElemsAppend DEF Parts
    <3>4. CASE wire' = wire
      BY <3>4
    <3>5. \/ wire' = wire \o (IF r.inquiry THEN <<Chunk(r, "data"), Chunk(r, "ack")>>
                                            ELSE <<Chunk(r, "ack")>>)
          \/ wire' = Append(wire, Chunk(r, "nak"))
          \/ wire' = wire
      BY <1>g DEF RadioAnswers, r
    <3>6. CASE r.inquiry
      BY <3>1, <3>3, <3>4, <3>5, <3>6, Zenon
    <3>7. CASE ~r.inquiry
      BY <3>2, <3>3, <3>4, <3>5, <3>7, Zenon
    <3> QED
      BY <3>6, <3>7
  <2> QED
    BY <1>1, <2>1, <2>2, <2>5 DEF hostVars
<1>h. CASE Arrive
  <2>1. /\ Elems(wire') \subseteq Elems(wire) /\ Head(wire) \in Elems(wire)
        /\ Elems(rxbuf') = Elems(rxbuf) \cup {Head(wire)} /\ wire # <<>>
    BY <1>1, <1>h, ElemsTail, ElemsAppend DEF Arrive, LinkTypeOK
  <2>2. UNCHANGED <<disp, req, parser, radioIn>> /\ disp # "write"
    BY <1>1, <1>h DEF Arrive, hostVars
  <2> QED
    BY <1>1, <2>1, <2>2
<1> QED
  BY <1>a, <1>b, <1>c, <1>d, <1>e, <1>f, <1>g, <1>h DEF LinkNext, Dispatcher

LEMMA AttributionStep == LinkInv /\ [LinkNext]_linkVars => Attribution'
<1> SUFFICES ASSUME LinkInv, [LinkNext]_linkVars PROVE Attribution'
  OBVIOUS
<1>1. LinkTypeOK /\ LineIsOwn /\ Attribution
  BY DEF LinkInv
<1>2. ASSUME NEW res, res.own, Finish(res) PROVE Attribution'
  BY <1>1, <1>2 DEF Attribution, Finish, LinkTypeOK
<1>a. CASE \E c \in Callers : Send(c) \/ SendClosed(c)
  BY <1>1, <1>a, PlainOwn DEF Attribution, Send, SendClosed, LinkTypeOK
<1>b. CASE WriteFails \/ AwaitFails
  BY <1>2, <1>b, PlainOwn DEF WriteFails, AwaitFails
<1>c. CASE ReadResponse
  <2>1. PICK n \in 1..Len(rxbuf) : \E k \in 1..n : ReadsResponse(n, k)
    BY <1>c DEF ReadResponse
  <2>2. PICK k \in 1..n : ReadsResponse(n, k)
    BY <2>1
  <2>3. \A i \in 1..k : rxbuf[i].ticket = req.ticket
    BY <1>1, <1>c, <2>2 DEF ReadResponse, LineIsOwn, Elems, LinkTypeOK
  <2>4. \A t \in Elems(parser) : t = req.ticket
    BY <1>1, <1>c DEF ReadResponse, LineIsOwn
  <2> DEFINE res == [kind |-> IF naks' = NakLimit THEN "fault" ELSE rxbuf[k].part,
                     own |-> /\ \A i \in 1..k : rxbuf[i].ticket = req.ticket
                             /\ \A t \in Elems(parser) : t = req.ticket]
  <2>5. Finish(res) /\ res.own
    BY <2>2, <2>3, <2>4 DEF ReadsResponse
  <2> QED
    BY <1>2, <2>5
<1>d. CASE \/ Shutdown \/ SeeShutdown \/ NextRequest \/ Drain \/ Write \/ ReadData
           \/ RadioAnswers \/ Arrive \/ UNCHANGED linkVars
  <2>1. result' = result
    BY <1>d DEF Shutdown, SeeShutdown, NextRequest, Drain, Write, ReadData, RadioAnswers,
       Arrive, linkVars, hostVars
  <2> QED
    BY <1>1, <2>1 DEF Attribution
<1> QED
  BY <1>a, <1>b, <1>c, <1>d DEF LinkNext, Dispatcher

LEMMA LinkInvariant ==
  ASSUME OrderlyLine
  PROVE  LinkSpec => []LinkInv
<1>1. LinkInit => LinkInv
  <2>1. LinkInit => LineIsOwn /\ Attribution
    BY PlainOwn DEF LinkInit, LineIsOwn, Attribution
  <2> QED
    BY <2>1, InitType DEF LinkInv
<1>2. LinkInv /\ [LinkNext]_linkVars => LinkInv'
  BY TypeInductive, LineStep, AttributionStep DEF LinkInv
<1> QED
  BY <1>1, <1>2, PTL DEF LinkSpec

(* From the write to the answer, all that is on the line is the request's. *)
THEOREM OrderlyLineIsOwn ==
  ASSUME OrderlyLine
  PROVE  LinkSpec => []LineIsOwn
BY LinkInvariant, PTL DEF LinkInv

(* An orderly radio's answers are never given to the wrong caller: the     *)
(* drain and the parser reset before each command suffice.                 *)
THEOREM AnswersAreOwn ==
  ASSUME OrderlyLine
  PROVE  LinkSpec => []Attribution
BY LinkInvariant, PTL DEF LinkInv

-----------------------------------------------------------------------------
(* The funnel *)

(* The sets the requests are taken from.                                   *)
LEMMA OrdersAreJobs ==
  ASSUME NEW r \in Orders
  PROVE  /\ r \in Jobs /\ r.kind \in Kinds /\ First(r.kind) \in Stages
         /\ r.kind = "tune" => r.slot = Scratch
<1>1. Filler \in Channels
  BY FunnelAssumption DEF Filler, Tuned
<1>2. CASE r \in [kind : {"tune"}, slot : {Scratch}, ch : Library \ Split]
  BY <1>2, FunnelAssumption DEF Jobs, Kinds, First, Stages
<1>3. CASE r \in [kind : {"save"}, slot : Slots \ {Scratch}, ch : Library \ Split]
  BY <1>3, FunnelAssumption DEF Jobs, Kinds, First, Stages
<1>4. CASE r \in [kind : {"preset"}, slot : Slots, ch : {Filler}]
  BY <1>1, <1>4 DEF Jobs, Kinds, First, Stages
<1>5. CASE r \in [kind : {"store"}, slot : {Scratch}, ch : {Filler}]
  BY <1>1, <1>5, FunnelAssumption DEF Jobs, Kinds, First, Stages
<1>6. CASE r \in [kind : {"mod"}, slot : {Scratch}, ch : Library \ NoMode]
  BY <1>6, FunnelAssumption DEF Jobs, Kinds, First, Stages
<1> QED BY <1>2, <1>3, <1>4, <1>5, <1>6 DEF Orders

LEMMA NextStage ==
  ASSUME NEW j \in Jobs, NEW s \in Stages
  PROVE  After(j, s) \in Stages \cup {"idle"}
BY DEF After, Stages

LEMMA NoJobIsAJob == NoJob \in Jobs
BY FunnelAssumption DEF NoJob, Filler, Jobs, Tuned

(* A command leaves the radio well typed.                                  *)
LEMMA ExecuteType ==
  ASSUME TypeOK, NEW s \in Stages, NEW j \in Jobs, Execute(s, j)
  PROVE  /\ active' \in Slots
         /\ ram' \in Tuned
         /\ eeprom' \in [Slots -> Tuned]
<1>1. active' \in Slots
  BY DEF TypeOK, Execute, Jobs
<1>2. ram' \in Tuned
  <2>1. j.slot \in Slots /\ j.ch \in Channels
    BY DEF Jobs
  <2> QED BY <2>1 DEF TypeOK, Execute, Tuned
<1>3. eeprom' \in [Slots -> Tuned]
  BY DEF TypeOK, Execute
<1> QED BY <1>1, <1>2, <1>3

LEMMA TypeInit == Init => TypeOK
<1> SUFFICES ASSUME Init PROVE TypeOK
  OBVIOUS
<1>1. Factory[active] \in Tuned
  BY FunnelAssumption DEF Init
<1> QED BY <1>1, NoJobIsAJob, FunnelAssumption DEF Init, TypeOK

LEMMA TypeNext == TypeOK /\ [Next]_vars => TypeOK'
<1> SUFFICES ASSUME TypeOK, [Next]_vars PROVE TypeOK'
  OBVIOUS
<1>1. ASSUME NEW h \in Handlers, Request(h) PROVE TypeOK'
  <2>1. PICK r \in Orders :
          /\ job' = [job EXCEPT ![h] = r]
          /\ at' = [at EXCEPT ![h] = First(r.kind)]
    BY <1>1 DEF Request
  <2>2. r \in Jobs /\ First(r.kind) \in Stages
    BY OrdersAreJobs
  <2> QED BY <1>1, <2>1, <2>2 DEF Request, TypeOK, radio
<1>2. CASE ScanStep
  <2>1. PICK c \in Library :
          job' = [job EXCEPT ![Scanner] = [kind |-> "scan", slot |-> Scratch, ch |-> c]]
    BY <1>2 DEF ScanStep
  <2>2. [kind |-> "scan", slot |-> Scratch, ch |-> c] \in Jobs
    BY FunnelAssumption DEF Jobs
  <2> QED BY <1>2, <2>1, <2>2 DEF ScanStep, TypeOK, radio, Stages
<1>3. ASSUME NEW t \in Tasks, Command(t) PROVE TypeOK'
  <2>1. PICK o \in Outcomes :
          /\ IF o.exec THEN Execute(at[t], job[t]) ELSE UNCHANGED radio
          /\ at' = [at EXCEPT ![t] = Continue(t, o)]
          /\ job' = IF at'[t] = "idle" THEN [job EXCEPT ![t] = NoJob] ELSE job
          /\ clean' = [h \in Handlers |-> IF h = t THEN Clean(h, o) ELSE clean[h]]
          /\ Notice(t, o)
    BY <1>3 DEF Command
  <2>2. at[t] \in Stages /\ job[t] \in Jobs
    BY <1>3 DEF TypeOK, Command
  <2>3. at' \in [Tasks -> Stages \cup {"idle"}]
    <3>1. Continue(t, o) \in Stages \cup {"idle"}
      BY <2>2, NextStage DEF Continue
    <3> QED BY <2>1, <3>1 DEF TypeOK
  <2>4. active' \in Slots /\ ram' \in Tuned /\ eeprom' \in [Slots -> Tuned]
    <3>1. CASE o.exec
      BY <3>1, <2>1, <2>2, ExecuteType
    <3>2. CASE ~o.exec
      BY <3>2, <2>1 DEF TypeOK, radio
    <3> QED BY <3>1, <3>2
  <2>5. job' \in [Tasks -> Jobs]
    BY <2>1, NoJobIsAJob DEF TypeOK
  <2>6. clean' \in [Handlers -> BOOLEAN]
    <3>1. \A h \in Handlers : Clean(h, o) \in BOOLEAN
      BY DEF Clean
    <3> QED BY <2>1, <3>1 DEF TypeOK
  <2>7. met' \in [Handlers -> SUBSET Events]
    <3>1. \A h \in Handlers : Effect(h, t) \subseteq Events /\ met[h] \subseteq Events
      BY DEF Effect, TypeOK
    <3>2. {"disturbed"} \subseteq Events /\ {"refused"} \subseteq Events
      BY DEF Events
    <3> QED BY <2>1, <3>1, <3>2 DEF Notice
  <2> QED BY <2>3, <2>4, <2>5, <2>6, <2>7 DEF TypeOK
<1>4. CASE Key
  <2>1. met' \in [Handlers -> SUBSET Events]
    BY <1>4 DEF Key, TypeOK, Events
  <2>2. ram' \in Tuned
    BY <1>4 DEF Key, TypeOK
  <2> QED BY <1>4, <2>1, <2>2 DEF Key, TypeOK
<1>5. CASE UNCHANGED vars
  BY <1>5 DEF TypeOK, vars
<1> QED BY <1>1, <1>2, <1>3, <1>4, <1>5 DEF Next

(* Slots, RAM and the tasks' progress stay well typed.                     *)
THEOREM FunnelTypeCorrect == Spec => []TypeOK
<1> QED BY TypeInit, TypeNext, PTL DEF Spec

-----------------------------------------------------------------------------
(* Which requests a task serves, and which of them send which command.     *)
Shape(t) ==
  /\ at[t] = "P" => job[t].kind \in {"tune", "save", "preset"}
  /\ at[t] \in {"R", "T"} => Sequence(job[t].kind) \/ job[t].kind = "scan"
  /\ at[t] = "M" => Sequence(job[t].kind) \/ job[t].kind \in {"mod", "scan"}
  /\ at[t] = "Q" => Sequence(job[t].kind) \/ job[t].kind = "store"
  /\ job[t].kind = "tune" => job[t].slot = Scratch
  /\ at[t] # "idle" => (job[t].kind = "scan" <=> t = Scanner)
  /\ at[t] = "idle" => job[t].kind = "scan"

(* What the stages of a request have made of the radio, as far as nothing  *)
(* came between them: before its recall nothing matters; from then on its  *)
(* slot is active; each accepted stage is still in RAM; and at the end RAM *)
(* and the active slot agree.                                              *)
Fresh(h)   == at[h] = "P" => met[h] = {}
InPlace(h) == Within(h) /\ met[h] \cap {"refused", "moved"} = {} => active = job[h].slot
SoFar(h)   == Within(h) /\ clean[h] /\ met[h] = {} =>
                /\ at[h] \in {"T", "M", "Q"} => ram.rx = job[h].ch
                /\ at[h] \in {"M", "Q"} => ram.tx = job[h].ch
                /\ at[h] = "Q" /\ job[h].ch \notin NoMode => ram.mode = job[h].ch
Rested(h)  == at[h] = "idle" /\ clean[h] /\ met[h] = {} => ram = eeprom[active]

Follows(h) == Fresh(h) /\ InPlace(h) /\ SoFar(h) /\ Rested(h)

FunnelInv == /\ TypeOK
             /\ \A t \in Tasks : Shape(t)
             /\ \A h \in Handlers : Follows(h)

LEMMA FunnelInit == Init => FunnelInv
<1> SUFFICES ASSUME Init PROVE FunnelInv
  OBVIOUS
<1>1. TypeOK
  BY TypeInit
<1>2. \A t \in Tasks : at[t] = "idle" /\ job[t] = NoJob
  BY DEF Init
<1>3. \A t \in Tasks : Shape(t)
  BY <1>2 DEF Shape, NoJob
<1>4. \A h \in Handlers : Follows(h)
  BY <1>2 DEF Init, Follows, Fresh, InPlace, SoFar, Rested, Within, Tasks
<1> QED BY <1>1, <1>3, <1>4 DEF FunnelInv

(* What a command makes of its own task: the stage it goes on to.          *)
LEMMA OwnShape ==
  ASSUME FunnelInv, NEW t \in Tasks, NEW o \in Outcomes, at[t] # "idle",
         at'[t] = Continue(t, o),
         job'[t] = IF at'[t] = "idle" THEN NoJob ELSE job[t]
  PROVE  Shape(t)'
<1>1. Shape(t) /\ at[t] \in Stages
  BY DEF FunnelInv, TypeOK
<1>2. CASE at'[t] = "idle"
  BY <1>2 DEF Shape, NoJob
<1>3. CASE at'[t] # "idle"
  <2>1. at'[t] = After(job[t], at[t]) /\ job'[t] = job[t]
    BY <1>3 DEF Continue
  <2> QED BY <1>1, <1>3, <2>1 DEF Shape, After, Sequence, Stages
<1> QED BY <1>2, <1>3

(* A command of the handler itself.                                        *)
LEMMA OwnCommand ==
  ASSUME FunnelInv, NEW h \in Handlers, NEW o \in Outcomes, at[h] # "idle",
         IF o.exec THEN Execute(at[h], job[h]) ELSE UNCHANGED radio,
         at'[h] = Continue(h, o),
         job'[h] = IF at'[h] = "idle" THEN NoJob ELSE job[h],
         clean'[h] = Clean(h, o),
         met'[h] = IF at'[h] = "idle"
                     THEN IF job[h].kind = "mod" THEN {"disturbed"} ELSE {}
                     ELSE IF at[h] = "P" /\ o.reply = "nak" THEN {"refused"} ELSE met[h]
  PROVE  /\ Follows(h)'
         /\ Sequence(job[h].kind) /\ at'[h] = "idle" /\ clean'[h] /\ met[h] = {}
              => active' = job[h].slot /\ Holds(eeprom'[active'], job[h].ch)
<1>1. /\ h \in Tasks /\ TypeOK /\ Shape(h) /\ Follows(h)
      /\ at[h] \in Stages /\ h # Scanner
      /\ job[h].slot \in Slots /\ job[h].ch \in Channels
  BY FunnelAssumption DEF FunnelInv, TypeOK, Tasks, Jobs
<1>2. ASSUME at'[h] # "idle"
      PROVE  /\ at'[h] = After(job[h], at[h]) /\ job'[h] = job[h] /\ ~Fails(h, o)
             /\ Sequence(job[h].kind)
  <2>1. at'[h] = After(job[h], at[h]) /\ job'[h] = job[h] /\ ~Fails(h, o)
    BY <1>2 DEF Continue
  <2>2. job[h].kind # "scan"
    BY <1>1 DEF Shape
  <2> QED BY <1>2, <2>1, <2>2 DEF After
<1>3. clean'[h] => clean[h] /\ ~Fails(h, o) /\ Execute(at[h], job[h])
  <2>1. o.reply # "nak" /\ o.reply # "err" => o.exec
    BY DEF Outcomes
  <2> QED BY <2>1 DEF Clean, Fails
<1>4. ~Fails(h, o) => (o.exec <=> o.reply # "nak")
  BY DEF Fails, Outcomes
<1>5. Fresh(h)'
  BY <1>2 DEF Fresh, After
<1>6. InPlace(h)'
  <2> SUFFICES ASSUME Within(h)', met'[h] \cap {"refused", "moved"} = {}
               PROVE  active' = job'[h].slot
    BY DEF InPlace
  <2>1. at'[h] # "idle"
    BY DEF Within
  <2>2. CASE at[h] = "P"
    <3>1. o.reply # "nak"
      BY <2>1, <2>2
    <3>2. Execute(at[h], job[h])
      BY <3>1, <2>1, <1>2, <1>4
    <3> QED BY <3>2, <2>1, <2>2, <1>2 DEF Execute
  <2>3. CASE at[h] # "P"
    <3>1. met'[h] = met[h] /\ Within(h)
      BY <2>1, <2>3, <1>1, <1>2 DEF Within, Stages
    <3>2. active' = active
      BY <2>3 DEF Execute, radio
    <3> QED BY <3>1, <3>2, <2>1, <1>1, <1>2 DEF Follows, InPlace
  <2> QED BY <2>2, <2>3
<1>7. ASSUME clean'[h], met[h] = {}, Sequence(job[h].kind)
      PROVE  /\ at[h] \in {"R", "T", "M", "Q"} => active = job[h].slot
             /\ at[h] \in {"T", "M", "Q"} => ram.rx = job[h].ch
             /\ at[h] \in {"M", "Q"} => ram.tx = job[h].ch
             /\ at[h] = "Q" /\ job[h].ch \notin NoMode => ram.mode = job[h].ch
  BY <1>1, <1>3, <1>7 DEF Follows, InPlace, SoFar, Within
<1>8. SoFar(h)'
  <2> SUFFICES ASSUME Within(h)', clean'[h], met'[h] = {}
               PROVE  /\ at'[h] \in {"T", "M", "Q"} => ram'.rx = job'[h].ch
                      /\ at'[h] \in {"M", "Q"} => ram'.tx = job'[h].ch
                      /\ at'[h] = "Q" /\ job'[h].ch \notin NoMode => ram'.mode = job'[h].ch
    BY DEF SoFar
  <2>1. at'[h] # "idle"
    BY DEF Within
  <2>2. at'[h] = After(job[h], at[h]) /\ job'[h] = job[h] /\ Sequence(job[h].kind)
    BY <1>2, <2>1
  <2>3. met[h] = {}
    BY <1>1, <2>1 DEF Follows, Fresh
  <2>4. Execute(at[h], job[h]) /\ ram \in Tuned
    BY <1>1, <1>3 DEF TypeOK
  <2>5. CASE at[h] = "P"
    BY <2>2, <2>5 DEF After
  <2>6. CASE at[h] = "R"
    BY <2>2, <2>4, <2>6, <1>1 DEF After, Execute, Tuned, Sequence
  <2>7. CASE at[h] = "T"
    BY <2>2, <2>3, <2>4, <2>7, <1>1, <1>7 DEF After, Execute, Tuned, Sequence
  <2>8. CASE at[h] = "M"
    BY <2>2, <2>3, <2>4, <2>8, <1>1, <1>7 DEF After, Execute, Tuned, Sequence
  <2>9. CASE at[h] = "Q"
    BY <2>1, <2>2, <2>9 DEF After
  <2> QED BY <2>5, <2>6, <2>7, <2>8, <2>9, <1>1 DEF Stages
<1>9. ASSUME at'[h] = "idle", clean'[h]
      PROVE  /\ Sequence(job[h].kind) => at[h] = "Q"
             /\ job[h].kind # "mod" => at[h] \in {"P", "Q"}
             /\ Execute(at[h], job[h])
  <2>1. After(job[h], at[h]) = "idle" /\ Execute(at[h], job[h])
    BY <1>3, <1>9 DEF Continue
  <2>2. job[h].kind # "scan"
    BY <1>1 DEF Shape
  <2>3. Sequence(job[h].kind) => at[h] = "Q"
    BY <1>1, <2>1 DEF After, Stages, Sequence
  <2>4. ~Sequence(job[h].kind) /\ job[h].kind # "mod" => at[h] \in {"P", "Q"}
    BY <1>1, <2>2 DEF Shape, Stages, Sequence
  <2> QED BY <2>1, <2>3, <2>4
<1>10. Rested(h)'
  <2> SUFFICES ASSUME at'[h] = "idle", clean'[h], met'[h] = {}
               PROVE  ram' = eeprom'[active']
    BY DEF Rested
  <2>1. job[h].kind # "mod"
    OBVIOUS
  <2>2. at[h] \in {"P", "Q"} /\ Execute(at[h], job[h])
    BY <1>9, <2>1
  <2> QED BY <2>2, <1>1 DEF Execute, TypeOK
<1>11. ASSUME Sequence(job[h].kind), at'[h] = "idle", clean'[h], met[h] = {}
       PROVE  active' = job[h].slot /\ Holds(eeprom'[active'], job[h].ch)
  <2>1. at[h] = "Q" /\ Execute(at[h], job[h])
    BY <1>9, <1>11
  <2>2. active' = active /\ eeprom'[active] = ram
    BY <2>1, <1>1 DEF Execute, TypeOK
  <2> QED BY <2>1, <2>2, <1>7, <1>11 DEF Holds
<1> QED BY <1>5, <1>6, <1>8, <1>10, <1>11 DEF Follows

(* A command of another task.                                              *)
LEMMA OtherCommand ==
  ASSUME FunnelInv, NEW h \in Handlers, NEW t \in Tasks, t # h,
         NEW o \in Outcomes, at[t] # "idle",
         IF o.exec THEN Execute(at[t], job[t]) ELSE UNCHANGED radio,
         at'[h] = at[h], job'[h] = job[h], clean'[h] = clean[h],
         met'[h] = IF o.exec THEN met[h] \cup Effect(h, t) ELSE met[h]
  PROVE  Follows(h)'
<1>1. TypeOK /\ Follows(h) /\ at[t] \in Stages
  BY DEF FunnelInv, TypeOK
<1>2. CASE ~o.exec
  BY <1>1, <1>2 DEF radio, Follows, Fresh, InPlace, SoFar, Rested, Within
<1>3. CASE o.exec
  <2>1. Execute(at[t], job[t]) /\ met'[h] = met[h] \cup Effect(h, t)
    BY <1>3
  <2>2. Fresh(h)'
    <3>1. at[h] = "P" => Effect(h, t) = {}
      BY DEF Effect, Within
    <3> QED BY <3>1, <2>1, <1>1 DEF Follows, Fresh
  <2>3. InPlace(h)'
    <3> SUFFICES ASSUME Within(h), met'[h] \cap {"refused", "moved"} = {}
                 PROVE  active' = job[h].slot
      BY DEF InPlace, Within
    <3>1. "moved" \notin Effect(h, t) /\ met[h] \cap {"refused", "moved"} = {}
      BY <2>1
    <3>2. active' = active
      BY <3>1, <2>1 DEF Effect, Events, Execute
    <3> QED BY <3>1, <3>2, <1>1 DEF Follows, InPlace
  <2>4. SoFar(h)'
    <3> SUFFICES ASSUME Within(h), clean[h], met'[h] = {}
                 PROVE  ram' = ram /\ met[h] = {}
      BY <1>1 DEF Follows, SoFar, Within
    <3>1. "disturbed" \notin Effect(h, t) /\ met[h] = {}
      BY <2>1
    <3>2. ~Retunes(t) /\ at[t] # "P"
      BY <3>1 DEF Effect, Events
    <3> QED BY <3>1, <3>2, <2>1 DEF Retunes, Execute
  <2>5. Rested(h)'
    <3> SUFFICES ASSUME at[h] = "idle", clean[h], met'[h] = {}
                 PROVE  ram' = eeprom'[active']
      BY DEF Rested
    <3>1. "disturbed" \notin Effect(h, t) /\ met[h] = {}
      BY <2>1
    <3>2. at[t] \in {"P", "Q"}
      BY <3>1, <1>1 DEF Effect, Events, Retunes, Stages
    <3>3. ram = eeprom[active]
      BY <3>1, <1>1 DEF Follows, Rested
    <3> QED BY <3>2, <3>3, <2>1, <1>1 DEF Execute, TypeOK
  <2> QED BY <2>2, <2>3, <2>4, <2>5 DEF Follows
<1> QED BY <1>2, <1>3

LEMMA FunnelNext == FunnelInv /\ [Next]_vars => FunnelInv'
<1> SUFFICES ASSUME FunnelInv, [Next]_vars PROVE FunnelInv'
  OBVIOUS
<1>0. /\ TypeOK /\ TypeOK' /\ Scanner \notin Handlers
      /\ Scanner \in Tasks /\ Handlers \subseteq Tasks
  BY TypeNext, FunnelAssumption DEF FunnelInv, Tasks
<1>1. ASSUME NEW h \in Handlers, Request(h)
      PROVE  (\A t \in Tasks : Shape(t)') /\ (\A g \in Handlers : Follows(g)')
  <2>1. PICK r \in Orders :
          /\ job' = [job EXCEPT ![h] = r]
          /\ at' = [at EXCEPT ![h] = First(r.kind)]
    BY <1>1 DEF Request
  <2>2. /\ clean' = [clean EXCEPT ![h] = TRUE] /\ met' = [met EXCEPT ![h] = {}]
        /\ UNCHANGED <<active, ram, eeprom>>
    BY <1>1 DEF Request, radio
  <2>3. /\ r.kind \in Kinds /\ (r.kind = "tune" => r.slot = Scratch)
        /\ job'[h] = r /\ at'[h] = First(r.kind) /\ met'[h] = {}
    BY <1>0, <2>1, <2>2, OrdersAreJobs DEF TypeOK
  <2>4. Shape(h)' /\ Follows(h)'
    <3>1. Shape(h)'
      BY <2>3, <1>0 DEF Shape, First, Kinds, Sequence
    <3>2. ~Within(h)' /\ at'[h] # "idle"
      BY <2>3 DEF Within, First, Kinds, Sequence
    <3> QED BY <3>1, <3>2, <2>3 DEF Follows, Fresh, InPlace, SoFar, Rested
  <2>5. ASSUME NEW t \in Tasks, t # h PROVE Shape(t)'
    BY <2>1, <2>5, <1>0 DEF FunnelInv, Shape, TypeOK
  <2>6. ASSUME NEW g \in Handlers, g # h PROVE Follows(g)'
    <3>1. at'[g] = at[g] /\ job'[g] = job[g] /\ clean'[g] = clean[g] /\ met'[g] = met[g]
      BY <2>1, <2>2, <2>6, <1>0 DEF TypeOK
    <3> QED BY <3>1, <2>2 DEF FunnelInv, Follows, Fresh, InPlace, SoFar, Rested, Within
  <2> QED BY <2>4, <2>5, <2>6
<1>2. ASSUME ScanStep
      PROVE  (\A t \in Tasks : Shape(t)') /\ (\A g \in Handlers : Follows(g)')
  <2>1. PICK c \in Library :
          job' = [job EXCEPT ![Scanner] = [kind |-> "scan", slot |-> Scratch, ch |-> c]]
    BY <1>2 DEF ScanStep
  <2>2. /\ at' = [at EXCEPT ![Scanner] = "R"]
        /\ UNCHANGED <<active, ram, eeprom, clean, met>>
    BY <1>2 DEF ScanStep, radio
  <2>3. Shape(Scanner)'
    BY <1>0, <2>1, <2>2 DEF Shape, TypeOK
  <2>4. ASSUME NEW t \in Tasks, t # Scanner PROVE Shape(t)'
    BY <2>1, <2>2, <2>4, <1>0 DEF FunnelInv, Shape, TypeOK
  <2>5. ASSUME NEW g \in Handlers PROVE Follows(g)'
    <3>1. at'[g] = at[g] /\ job'[g] = job[g]
      BY <2>1, <2>2, <1>0 DEF TypeOK
    <3> QED BY <3>1, <2>2 DEF FunnelInv, Follows, Fresh, InPlace, SoFar, Rested, Within
  <2> QED BY <2>3, <2>4, <2>5
<1>3. ASSUME NEW t \in Tasks, Command(t)
      PROVE  (\A u \in Tasks : Shape(u)') /\ (\A g \in Handlers : Follows(g)')
  <2>1. PICK o \in Outcomes :
          /\ IF o.exec THEN Execute(at[t], job[t]) ELSE UNCHANGED radio
          /\ at' = [at EXCEPT ![t] = Continue(t, o)]
          /\ job' = IF at'[t] = "idle" THEN [job EXCEPT ![t] = NoJob] ELSE job
          /\ clean' = [h \in Handlers |-> IF h = t THEN Clean(h, o) ELSE clean[h]]
          /\ Notice(t, o)
    BY <1>3 DEF Command
  <2>2. /\ at[t] # "idle" /\ at'[t] = Continue(t, o)
        /\ job'[t] = IF at'[t] = "idle" THEN NoJob ELSE job[t]
    BY <1>0, <1>3, <2>1 DEF Command, TypeOK
  <2>3. ASSUME NEW u \in Tasks PROVE Shape(u)'
    <3>1. CASE u = t
      BY <3>1, <2>2, OwnShape
    <3>2. CASE u # t
      BY <3>2, <2>1, <1>0 DEF FunnelInv, Shape, TypeOK
    <3> QED BY <3>1, <3>2
  <2>4. ASSUME NEW g \in Handlers PROVE Follows(g)'
    <3>1. CASE g = t
      <4>1. clean'[g] = Clean(g, o)
        BY <3>1, <2>1
      <4>2. met'[g] = IF at'[g] = "idle"
                        THEN IF job[g].kind = "mod" THEN {"disturbed"} ELSE {}
                        ELSE IF at[g] = "P" /\ o.reply = "nak" THEN {"refused"} ELSE met[g]
        BY <3>1, <2>1 DEF Notice
      <4> QED BY <3>1, <4>1, <4>2, <2>1, <2>2, OwnCommand
    <3>2. CASE g # t
      <4>1. at'[g] = at[g] /\ job'[g] = job[g] /\ clean'[g] = clean[g]
        BY <3>2, <2>1, <1>0 DEF TypeOK
      <4>2. met'[g] = IF o.exec THEN met[g] \cup Effect(g, t) ELSE met[g]
        BY <3>2, <2>1 DEF Notice
      <4> QED BY <3>2, <4>1, <4>2, <2>1, <2>2, OtherCommand
    <3> QED BY <3>1, <3>2
  <2> QED BY <2>3, <2>4
<1>4. ASSUME Key
      PROVE  (\A t \in Tasks : Shape(t)') /\ (\A g \in Handlers : Follows(g)')
  <2>1. /\ ram' = eeprom[active] /\ UNCHANGED <<active, eeprom, job, at, clean>>
        /\ \A h \in Handlers : met'[h] = IF Within(h) THEN met[h] \cup {"disturbed"}
                                                      ELSE met[h]
    BY <1>4 DEF Key
  <2>2. \A t \in Tasks : Shape(t)'
    BY <2>1 DEF FunnelInv, Shape
  <2>3. ASSUME NEW g \in Handlers PROVE Follows(g)'
    <3>1. Follows(g)
      BY DEF FunnelInv
    <3>2. Fresh(g)' /\ InPlace(g)'
      BY <2>1, <3>1 DEF Follows, Fresh, InPlace, Within
    <3>3. SoFar(g)'
      BY <2>1, <3>1 DEF SoFar, Within
    <3>4. Rested(g)'
      BY <2>1 DEF Rested
    <3> QED BY <3>2, <3>3, <3>4 DEF Follows
  <2> QED BY <2>2, <2>3
<1>5. ASSUME UNCHANGED vars
      PROVE  (\A t \in Tasks : Shape(t)') /\ (\A g \in Handlers : Follows(g)')
  BY <1>5 DEF vars, FunnelInv, Shape, Follows, Fresh, InPlace, SoFar, Rested, Within
<1> QED BY <1>0, <1>1, <1>2, <1>3, <1>4, <1>5 DEF FunnelInv, Next

LEMMA FunnelInvariant == Spec => []FunnelInv
BY FunnelInit, FunnelNext, PTL DEF Spec

(* The emergency presets are touched only by those who were asked to, or   *)
(* by a tune whose recall was refused or overtaken by another's.           *)
THEOREM EmergencySafe == Spec => EmergencyUntouched
<1> DEFINE Excused(s) ==
      \E t \in Handlers :
        /\ at[t] = "Q" /\ at'[t] = "idle"
        /\ \/ job[t].kind = "store"
           \/ job[t].kind = "save" /\ job[t].slot = s
           \/ met[t] \cap {"refused", "moved"} # {}
<1>1. FunnelInv /\ [Next]_vars
        => [\A s \in Slots \ {Scratch} : eeprom'[s] # eeprom[s] => Excused(s)]_vars
  <2> SUFFICES ASSUME FunnelInv, Next, NEW s \in Slots \ {Scratch}, eeprom'[s] # eeprom[s]
               PROVE  Excused(s)
    OBVIOUS
  <2>1. PICK t \in Tasks : Command(t)
    BY DEF Next, Request, ScanStep, Key, radio
  <2>2. PICK o \in Outcomes :
          /\ IF o.exec THEN Execute(at[t], job[t]) ELSE UNCHANGED radio
          /\ at' = [at EXCEPT ![t] = Continue(t, o)]
    BY <2>1 DEF Command
  <2>3. TypeOK /\ Shape(t)
    BY DEF FunnelInv
  <2>4. at[t] = "Q" /\ s = active
    BY <2>2, <2>3 DEF Execute, radio, TypeOK
  <2>5. at'[t] = "idle"
    BY <2>2, <2>3, <2>4 DEF Continue, After, Sequence, TypeOK
  <2>6. t \in Handlers /\ (Sequence(job[t].kind) \/ job[t].kind = "store")
    BY <2>3, <2>4 DEF Shape, Sequence, Tasks
  <2>7. CASE Sequence(job[t].kind)
    <3>1. met[t] \cap {"refused", "moved"} = {} => job[t].slot = s
      BY <2>4, <2>6, <2>7 DEF FunnelInv, Follows, InPlace, Within
    <3>2. job[t].slot = s => job[t].kind = "save"
      BY <2>3, <2>7 DEF Shape, Sequence
    <3> QED BY <2>4, <2>5, <2>6, <3>1, <3>2
  <2> QED BY <2>4, <2>5, <2>6, <2>7
<1> QED BY <1>1, FunnelInvariant, PTL DEF Spec, EmergencyUntouched

(* A request that succeeds leaves RAM and the active slot in agreement, so *)
(* the recall at the next transmission changes nothing.                    *)
THEOREM RecallHarmless == Spec => []RecallIsNoOp
<1>1. FunnelInv => RecallIsNoOp
  BY DEF FunnelInv, Follows, Rested, RecallIsNoOp
<1> QED BY <1>1, FunnelInvariant, PTL

(* A tune that reports success has put its channel into its slot, unless   *)
(* somebody changed RAM between its P and its Q.                           *)
THEOREM TuneIsStored == Spec => AckedTuneIsStored
<1> DEFINE Stored(t) ==
      (/\ Sequence(job[t].kind)
       /\ at[t] # "idle" /\ at'[t] = "idle"
       /\ clean'[t] /\ met[t] = {})
      => active' = job[t].slot /\ Holds(eeprom'[active'], job[t].ch)
<1>1. FunnelInv /\ [Next]_vars => [\A t \in Handlers : Stored(t)]_vars
  <2> SUFFICES ASSUME FunnelInv, Next, NEW t \in Handlers,
                      Sequence(job[t].kind), at[t] # "idle", at'[t] = "idle",
                      clean'[t], met[t] = {}
               PROVE  active' = job[t].slot /\ Holds(eeprom'[active'], job[t].ch)
    OBVIOUS
  <2>0. t \in Tasks /\ Scanner \notin Handlers /\ TypeOK
    BY FunnelAssumption DEF FunnelInv, Tasks
  <2>1. Command(t)
    <3>1. ASSUME NEW h \in Handlers, Request(h) PROVE FALSE
      BY <2>0, <3>1 DEF Request, TypeOK, Tasks, First, Orders
    <3>2. ~ScanStep /\ ~Key
      BY <2>0 DEF ScanStep, Key, TypeOK
    <3>3. PICK u \in Tasks : Command(u)
      BY <3>1, <3>2 DEF Next
    <3>4. u = t
      <4>1. PICK o \in Outcomes : at' = [at EXCEPT ![u] = Continue(u, o)]
        BY <3>3 DEF Command
      <4> QED BY <4>1, <2>0 DEF TypeOK
    <3> QED BY <3>3, <3>4
  <2>2. PICK o \in Outcomes :
          /\ IF o.exec THEN Execute(at[t], job[t]) ELSE UNCHANGED radio
          /\ at' = [at EXCEPT ![t] = Continue(t, o)]
          /\ job' = IF at'[t] = "idle" THEN [job EXCEPT ![t] = NoJob] ELSE job
          /\ clean' = [h \in Handlers |-> IF h = t THEN Clean(h, o) ELSE clean[h]]
          /\ Notice(t, o)
    BY <2>1 DEF Command
  <2>3. /\ at'[t] = Continue(t, o)
        /\ job'[t] = IF at'[t] = "idle" THEN NoJob ELSE job[t]
        /\ clean'[t] = Clean(t, o)
    BY <2>0, <2>2 DEF TypeOK
  <2>4. met'[t] = IF at'[t] = "idle"
                    THEN IF job[t].kind = "mod" THEN {"disturbed"} ELSE {}
                    ELSE IF at[t] = "P" /\ o.reply = "nak" THEN {"refused"} ELSE met[t]
    BY <2>2 DEF Notice
  <2> QED BY <2>2, <2>3, <2>4, OwnCommand
<1> QED BY <1>1, FunnelInvariant, PTL DEF Spec, AckedTuneIsStored
=============================================================================
