---------------------------- MODULE ButtonProofs ----------------------------
(***************************************************************************)
(* Proofs about the push-to-talk button, for any pages, any number of      *)
(* connections each makes, and lines and event queues of any capacity.     *)
(***************************************************************************)
EXTENDS PttButton, Integers, TLAPS

(* What Append and Tail do to a line.                                      *)
LEMMA Appended ==
  ASSUME NEW S, NEW q \in Seq(S), NEW e \in S
  PROVE  /\ Append(q, e) \in Seq(S)
         /\ Len(q) \in Nat
         /\ Len(Append(q, e)) = Len(q) + 1
         /\ DOMAIN Append(q, e) = DOMAIN q \cup {Len(q) + 1}
         /\ \A i \in DOMAIN q : i # Len(q) + 1 /\ i < Len(q) + 1 /\ Append(q, e)[i] = q[i]
         /\ Append(q, e)[Len(q) + 1] = e
OBVIOUS

LEMMA Popped ==
  ASSUME NEW S, NEW q \in Seq(S), q # <<>>
  PROVE  /\ Tail(q) \in Seq(S)
         /\ Len(q) \in Nat \ {0}
         /\ Len(Tail(q)) = Len(q) - 1
         /\ 1 \in DOMAIN q
         /\ \A i \in DOMAIN Tail(q) : i + 1 \in DOMAIN q /\ i + 1 # 1 /\ Tail(q)[i] = q[i + 1]
         /\ \A i \in DOMAIN q : i = 1 \/ (i - 1 \in DOMAIN Tail(q) /\ Tail(q)[i - 1] = q[i])
         /\ Head(q) = q[1] /\ Head(q) \in S
OBVIOUS

-----------------------------------------------------------------------------
(* The type invariant. A page that is off line has a connection left to    *)
(* make, and those it has not made yet are untouched.                      *)

LinesOK ==
  /\ up \in [Conns -> Seq(Upward)]
  /\ dn \in [Conns -> Seq(Downward)]
  /\ \A s \in Conns : Len(up[s]) <= UpCap /\ Len(dn[s]) <= DnCap

ConnInv ==
  /\ n \in [Pages -> Nat \ {0}]
  /\ \A p \in Pages : online[p] => at[Mine(p)] \in Served
  /\ \A p \in Pages : ~online[p] => <<p, n[p] + 1>> \in Conns
  /\ \A s \in Conns : s[2] > n[s[1]]
       => at[s] = "none" /\ up[s] = <<>> /\ dn[s] = <<>> /\ holder # s

TypeInv == TypeOK /\ LinesOK /\ ConnInv

LEMMA ConnFacts ==
  ASSUME NEW s \in Conns
  PROVE  s[1] \in Pages /\ s[2] \in Nat \ {0} /\ s = <<s[1], s[2]>>
BY ButtonAssumption

LEMMA MineFacts ==
  ASSUME TypeInv, NEW p \in Pages
  PROVE  /\ Mine(p) \in Conns /\ Mine(p)[1] = p /\ Mine(p)[2] = n[p]
         /\ n[p] \in Nat \ {0}
         /\ Reached(Mine(p)) <=> online[p]
BY DEF TypeInv, ConnInv, TypeOK, Mine, Reached

LEMMA SendLines ==
  ASSUME TypeInv, NEW p \in Pages, NEW m \in Upward, Send(p, m)
  PROVE  /\ up' \in [Conns -> Seq(Upward)]
         /\ \A s \in Conns : Len(up'[s]) <= UpCap
         /\ \A s \in Conns : s # Mine(p) \/ ~online[p] => up'[s] = up[s]
         /\ online[p] => up'[Mine(p)] = Append(up[Mine(p)], m)
<1>1. CASE online[p]
  <2> DEFINE s == Mine(p)
             q == Append(up[s], m)
  <2>1. s \in Conns /\ up[s] \in Seq(Upward) /\ Len(up[s]) < UpCap /\ up' = [up EXCEPT ![s] = q]
    BY <1>1, MineFacts DEF Send, TypeInv, LinesOK
  <2>2. q \in Seq(Upward) /\ Len(q) = Len(up[s]) + 1 /\ Len(up[s]) \in Nat
    BY <2>1, Appended
  <2>3. Len(q) <= UpCap
    BY <2>1, <2>2, ButtonAssumption
  <2> HIDE DEF s, q
  <2>4. up' \in [Conns -> Seq(Upward)] /\ up'[s] = q /\ \A c \in Conns : c # s => up'[c] = up[c]
    BY <2>1, <2>2 DEF TypeInv, LinesOK
  <2>5. \A c \in Conns : Len(up'[c]) <= UpCap
    BY <2>3, <2>4 DEF TypeInv, LinesOK
  <2> QED BY <1>1, <2>4, <2>5 DEF s, q
<1>2. CASE ~online[p]
  BY <1>2 DEF Send, TypeInv, LinesOK
<1> QED BY <1>1, <1>2

LEMMA DeliverLines ==
  ASSUME TypeInv, NEW s \in Conns, NEW m \in Downward, Deliver(s, m)
  PROVE  /\ dn' \in [Conns -> Seq(Downward)]
         /\ \A c \in Conns : Len(dn'[c]) <= DnCap
         /\ \A c \in Conns : c # s \/ ~Reached(s) => dn'[c] = dn[c]
         /\ Reached(s) => dn'[s] = Append(dn[s], m)
<1>1. CASE Reached(s)
  <2> DEFINE q == Append(dn[s], m)
  <2>1. dn[s] \in Seq(Downward) /\ Len(dn[s]) < DnCap /\ dn' = [dn EXCEPT ![s] = q]
    BY <1>1 DEF Deliver, TypeInv, LinesOK
  <2>2. q \in Seq(Downward) /\ Len(q) = Len(dn[s]) + 1 /\ Len(dn[s]) \in Nat
    BY <2>1, Appended
  <2>3. Len(q) <= DnCap
    BY <2>1, <2>2, ButtonAssumption
  <2> HIDE DEF q
  <2>4. dn' \in [Conns -> Seq(Downward)] /\ dn'[s] = q /\ \A c \in Conns : c # s => dn'[c] = dn[c]
    BY <2>1, <2>2 DEF TypeInv, LinesOK
  <2>5. \A c \in Conns : Len(dn'[c]) <= DnCap
    BY <2>3, <2>4 DEF TypeInv, LinesOK
  <2> QED BY <1>1, <2>4, <2>5 DEF q
<1>2. CASE ~Reached(s)
  BY <1>2 DEF Deliver, TypeInv, LinesOK
<1> QED BY <1>1, <1>2

LEMMA UpTaken ==
  ASSUME TypeInv, NEW s \in Conns, up[s] # <<>>, up' = [up EXCEPT ![s] = Tail(@)]
  PROVE  /\ up' \in [Conns -> Seq(Upward)]
         /\ \A c \in Conns : Len(up'[c]) <= UpCap
         /\ \A c \in Conns : c # s => up'[c] = up[c]
         /\ up'[s] = Tail(up[s])
<1>1. /\ Tail(up[s]) \in Seq(Upward) /\ Len(up[s]) \in Nat \ {0}
      /\ Len(Tail(up[s])) = Len(up[s]) - 1
  BY Popped DEF TypeInv, LinesOK
<1>2. Len(Tail(up[s])) <= UpCap
  BY <1>1, ButtonAssumption DEF TypeInv, LinesOK
<1> QED BY <1>1, <1>2 DEF TypeInv, LinesOK

LEMMA DnTaken ==
  ASSUME TypeInv, NEW s \in Conns, dn[s] # <<>>, dn' = [dn EXCEPT ![s] = Tail(@)]
  PROVE  /\ dn' \in [Conns -> Seq(Downward)]
         /\ \A c \in Conns : Len(dn'[c]) <= DnCap
         /\ \A c \in Conns : c # s => dn'[c] = dn[c]
         /\ dn'[s] = Tail(dn[s])
<1>1. /\ Tail(dn[s]) \in Seq(Downward) /\ Len(dn[s]) \in Nat \ {0}
      /\ Len(Tail(dn[s])) = Len(dn[s]) - 1
  BY Popped DEF TypeInv, LinesOK
<1>2. Len(Tail(dn[s])) <= DnCap
  BY <1>1, ButtonAssumption DEF TypeInv, LinesOK
<1> QED BY <1>1, <1>2 DEF TypeInv, LinesOK

LEMMA LinesCleared ==
  ASSUME TypeInv, NEW s \in Conns
  PROVE  LET a == [up EXCEPT ![s] = <<>>]
             b == [dn EXCEPT ![s] = <<>>]
         IN  /\ a \in [Conns -> Seq(Upward)] /\ b \in [Conns -> Seq(Downward)]
             /\ \A c \in Conns : Len(a[c]) <= UpCap /\ Len(b[c]) <= DnCap
             /\ a[s] = <<>> /\ b[s] = <<>>
             /\ \A c \in Conns : c # s => a[c] = up[c] /\ b[c] = dn[c]
BY ButtonAssumption DEF TypeInv, LinesOK

(* What an action may do to one line, and that the lines stay lines.       *)
LEMMA LinesStep == TypeInv /\ [Next]_vars => LinesOK'
<1> SUFFICES ASSUME TypeInv, [Next]_vars PROVE LinesOK'
  OBVIOUS
<1> USE DEF LinesOK
<1>0. LinesOK
  BY DEF TypeInv
<1>1. ASSUME NEW p \in Pages, Press(p) PROVE LinesOK'
  BY <1>0, <1>1, SendLines DEF Press, StartPtt, Upward
<1>2. ASSUME NEW p \in Pages, Release(p) PROVE LinesOK'
  BY <1>0, <1>2, SendLines DEF Release, StopPtt, Upward
<1>3. ASSUME NEW p \in Pages, EngageLock(p) PROVE LinesOK'
  BY <1>0, <1>3, SendLines DEF EngageLock, StopPtt, Upward
<1>4. ASSUME NEW p \in Pages, Receive(p) PROVE LinesOK'
  BY <1>0, <1>4, DnTaken, MineFacts DEF Receive
<1>5. ASSUME NEW p \in Pages, Drop(p) PROVE LinesOK'
  BY <1>0, <1>5, LinesCleared, MineFacts DEF Drop
<1>6. ASSUME NEW p \in Pages, Unlock(p) \/ Reconnect(p) PROVE LinesOK'
  BY <1>0, <1>6 DEF Unlock, Reconnect, lineVars
<1>7. ASSUME NEW s \in Conns, Forward(s) PROVE LinesOK'
  BY <1>0, <1>7, DeliverLines DEF Forward, Downward
<1>8. ASSUME NEW s \in Conns, Read(s) PROVE LinesOK'
  BY <1>0, <1>8, UpTaken DEF Read
<1>9. ASSUME NEW s \in Conns, Reply(s) PROVE LinesOK'
  BY <1>0, <1>9, DeliverLines DEF Reply, Downward, Answered
<1>10. ASSUME NEW s \in Conns, Leave(s) PROVE LinesOK'
  BY <1>0, <1>10, LinesCleared DEF Leave
<1>11. ASSUME NEW s \in Conns, Grant(s) \/ Deny(s) \/ TakeStop(s) PROVE LinesOK'
  BY <1>0, <1>11 DEF Grant, Deny, TakeStop, lineVars
<1>12. CASE GrantOther \/ Expire \/ UNCHANGED vars
  BY <1>0, <1>12 DEF GrantOther, Expire, vars, lineVars
<1> QED BY <1>1, <1>2, <1>3, <1>4, <1>5, <1>6, <1>7, <1>8, <1>9, <1>10, <1>11, <1>12
        DEF Next, Handler

LEMMA BroadcastType ==
  ASSUME TypeOK, Broadcast
  PROVE  /\ events' \in [Conns -> 0..EventCap]
         /\ \A s \in Conns : /\ events[s] > 0 => events'[s] > 0
                             /\ at[s] \in Served => events'[s] > 0
<1>1. \A s \in Conns : events[s] \in 0..EventCap
  BY DEF TypeOK
<1>2. \A s \in Conns : events'[s] = IF at[s] \in Served /\ events[s] < EventCap
                                   THEN events[s] + 1 ELSE events[s]
  BY DEF Broadcast
<1>3. EventCap \in Nat \ {0}
  BY ButtonAssumption
<1>4. \A s \in Conns : events'[s] \in 0..EventCap
  BY <1>1, <1>2, <1>3
<1>5. \A s \in Conns : /\ events[s] > 0 => events'[s] > 0
                       /\ at[s] \in Served => events'[s] > 0
  BY <1>1, <1>2, <1>3
<1> QED BY <1>4, <1>5 DEF Broadcast

LEMMA TypeStep == TypeInv /\ [Next]_vars => TypeOK'
<1> SUFFICES ASSUME TypeInv, [Next]_vars PROVE TypeOK'
  OBVIOUS
<1>0. TypeOK /\ LinesOK /\ LinesOK'
  BY LinesStep DEF TypeInv
<1>a. \A s \in Conns : /\ up'[s] \in Seq(Upward) /\ Len(up'[s]) <= UpCap
                       /\ dn'[s] \in Seq(Downward) /\ Len(dn'[s]) <= DnCap
  BY <1>0 DEF LinesOK
<1> USE DEF TypeOK, pageVars, sockVars, Mine
<1>1. ASSUME NEW p \in Pages, Press(p) \/ Release(p) \/ EngageLock(p) \/ Unlock(p)
      PROVE  TypeOK'
  BY <1>0, <1>a, <1>1 DEF Press, Release, EngageLock, Unlock, StopPtt, Tapped
<1>2. ASSUME NEW p \in Pages, Receive(p) PROVE TypeOK'
  <2>1. Head(dn[Mine(p)]) \in Downward
    BY <1>0, <1>2, Popped DEF Receive
  <2>2. PICK m : m = Head(dn[Mine(p)])
    OBVIOUS
  <2>3. /\ mine' = [mine EXCEPT ![p] = Believes(m, @)]
        /\ UNCHANGED <<armed, down, tapped, sockVars, at, events, stops, holder>>
    BY <1>2, <2>2 DEF Receive
  <2>4. mine' \in [Pages -> BOOLEAN]
    BY <1>0, <2>1, <2>2, <2>3 DEF Believes, Downward
  <2> QED BY <1>0, <1>a, <2>3, <2>4
<1>3. ASSUME NEW p \in Pages, Drop(p) PROVE TypeOK'
  BY <1>0, <1>a, <1>3 DEF Drop
<1>4. ASSUME NEW p \in Pages, Reconnect(p) PROVE TypeOK'
  BY <1>0, <1>a, <1>4 DEF Reconnect, Served, TypeInv, ConnInv
<1>5. ASSUME NEW s \in Conns, Handler(s) PROVE TypeOK'
  <2>1. CASE Forward(s)
    BY <1>0, <1>a, <2>1, ButtonAssumption DEF Forward
  <2>2. CASE Read(s)
    BY <1>0, <1>a, <2>2 DEF Read, ReadStart, ReadStop, Served
  <2>3. CASE Reply(s)
    BY <1>0, <1>a, <2>3 DEF Reply, Served
  <2> QED BY <1>5, <2>1, <2>2, <2>3 DEF Handler
<1>6. ASSUME NEW s \in Conns, Leave(s) PROVE TypeOK'
  BY <1>0, <1>a, <1>6, ButtonAssumption DEF Leave
<1>7. ASSUME NEW s \in Conns, Grant(s) \/ Deny(s) PROVE TypeOK'
  BY <1>0, <1>a, <1>7 DEF Grant, Deny, Served, Answered
<1>8. ASSUME NEW s \in Conns, TakeStop(s) PROVE TypeOK'
  BY <1>0, <1>a, <1>8, BroadcastType DEF TakeStop
<1>9. CASE GrantOther \/ Expire
  BY <1>0, <1>a, <1>9, BroadcastType DEF GrantOther, Expire
<1>10. CASE UNCHANGED vars
  BY <1>0, <1>a, <1>10 DEF vars
<1> QED BY <1>1, <1>2, <1>3, <1>4, <1>5, <1>6, <1>7, <1>8, <1>9, <1>10 DEF Next

Future(s) == s[2] > n[s[1]]

LEMMA FutureFacts ==
  ASSUME TypeInv, NEW s \in Conns, Future(s)
  PROVE  /\ at[s] = "none" /\ up[s] = <<>> /\ dn[s] = <<>> /\ holder # s
         /\ ~Reached(s) /\ \A p \in Pages : s # Mine(p)
<1>1. at[s] = "none" /\ up[s] = <<>> /\ dn[s] = <<>> /\ holder # s
  BY DEF TypeInv, ConnInv, Future
<1>2. \A p \in Pages : Mine(p)[2] = n[Mine(p)[1]] /\ n[p] \in Nat
  BY MineFacts
<1>3. s[1] \in Pages
  BY ConnFacts
<1>4. \A p \in Pages : s # Mine(p)
  BY <1>2, <1>3 DEF Future
<1> QED BY <1>1, <1>3, <1>4 DEF Reached

(* A step that neither loses a connection nor makes one.                   *)
LEMMA ConnKept ==
  ASSUME TypeInv, UNCHANGED sockVars,
         \A s \in Conns : Reached(s) /\ at[s] \in Served => at'[s] \in Served,
         \A s \in Conns : Future(s) => /\ at'[s] = at[s] /\ up'[s] = up[s] /\ dn'[s] = dn[s]
                                       /\ holder' # s
  PROVE  ConnInv'
<1>1. n' = n /\ online' = online
  BY DEF sockVars
<1>2. \A p \in Pages : Mine(p)' = Mine(p)
  BY <1>1 DEF Mine
<1>3. \A p \in Pages : online[p] => at'[Mine(p)] \in Served
  BY MineFacts DEF TypeInv, ConnInv
<1>4. \A s \in Conns : Future(s)' <=> Future(s)
  BY <1>1 DEF Future
<1>5. \A s \in Conns : Future(s)' => at'[s] = "none" /\ up'[s] = <<>> /\ dn'[s] = <<>> /\ holder' # s
  BY <1>4, FutureFacts
<1> QED BY <1>1, <1>2, <1>3, <1>5 DEF TypeInv, ConnInv, Future

LEMMA ConnStep == TypeInv /\ [Next]_vars => ConnInv'
<1> SUFFICES ASSUME TypeInv, [Next]_vars PROVE ConnInv'
  OBVIOUS
<1>0. TypeOK /\ LinesOK /\ ConnInv
  BY DEF TypeInv
<1> USE DEF pageVars, lineVars
<1>1. ASSUME NEW p \in Pages, Press(p) \/ Release(p) \/ EngageLock(p)
      PROVE  ConnInv'
  <2>1. UNCHANGED <<sockVars, at, dn, holder>>
    BY <1>1 DEF Press, Release, EngageLock
  <2>2. UNCHANGED up \/ \E m \in Upward : Send(p, m)
    BY <1>1 DEF Press, Release, EngageLock, StartPtt, StopPtt, Upward
  <2>3. \A s \in Conns : s # Mine(p) => up'[s] = up[s]
    BY <2>2, SendLines
  <2> QED BY <2>1, <2>3, FutureFacts, ConnKept
<1>2. ASSUME NEW p \in Pages, Unlock(p) PROVE ConnInv'
  BY <1>2, FutureFacts, ConnKept DEF Unlock
<1>3. ASSUME NEW p \in Pages, Receive(p) PROVE ConnInv'
  <2>1. UNCHANGED <<sockVars, at, up, holder>>
    BY <1>3 DEF Receive
  <2>2. \A s \in Conns : s # Mine(p) => dn'[s] = dn[s]
    BY <1>3, DnTaken, MineFacts DEF Receive
  <2> QED BY <2>1, <2>2, FutureFacts, ConnKept
<1>4. ASSUME NEW p \in Pages, Drop(p) PROVE ConnInv'
  <2>1. n' = n /\ at' = at /\ up' = up /\ holder' = holder /\ <<p, n[p] + 1>> \in Conns
    BY <1>4 DEF Drop
  <2>2. online' = [online EXCEPT ![p] = FALSE]
    BY <1>4 DEF Drop
  <2>3. \A q \in Pages : Mine(q)' = Mine(q)
    BY <2>1 DEF Mine
  <2>4. \A s \in Conns : dn[s] = <<>> => dn'[s] = <<>>
    BY <1>4, LinesCleared, MineFacts DEF Drop
  <2> QED BY <1>0, <2>1, <2>2, <2>3, <2>4 DEF ConnInv, TypeOK
<1>5. ASSUME NEW p \in Pages, Reconnect(p) PROVE ConnInv'
  BY <1>0, <1>5, ConnFacts DEF Reconnect, TypeOK, Served, ConnInv, Mine
<1>6. ASSUME NEW s \in Conns, Forward(s) \/ Reply(s) PROVE ConnInv'
  <2>1. UNCHANGED <<sockVars, up, holder>>
    BY <1>6 DEF Forward, Reply
  <2>2. at[s] # "none" /\ \A c \in Conns : at'[c] = at[c] \/ (c = s /\ at'[c] = "open")
    BY <1>0, <1>6 DEF Forward, Reply, Answered, TypeOK
  <2>3. \E m \in Downward : Deliver(s, m)
    BY <1>6 DEF Forward, Reply, Answered, Downward
  <2>4. \A c \in Conns : c # s => dn'[c] = dn[c]
    BY <2>3, DeliverLines
  <2> QED BY <2>1, <2>2, <2>4, FutureFacts, ConnKept DEF Served
<1>7. ASSUME NEW s \in Conns, Read(s) PROVE ConnInv'
  <2>1. UNCHANGED <<sockVars, dn, holder>>
    BY <1>7 DEF Read
  <2>2. at[s] # "none" /\ \A c \in Conns : at'[c] = at[c] \/ (c = s /\ at'[c] = "asking")
    BY <1>0, <1>7 DEF Read, ReadStart, ReadStop, TypeOK
  <2>3. \A c \in Conns : c # s => up'[c] = up[c]
    BY <1>7, UpTaken DEF Read
  <2> QED BY <2>1, <2>2, <2>3, FutureFacts, ConnKept DEF Served
<1>8. ASSUME NEW s \in Conns, Leave(s) PROVE ConnInv'
  <2>1. UNCHANGED <<sockVars, dn, holder>> /\ ~Reached(s) /\ at[s] # "none"
    BY <1>8 DEF Leave
  <2>2. \A c \in Conns : c # s => at'[c] = at[c] /\ up'[c] = up[c]
    BY <1>0, <1>8 DEF Leave, TypeOK, LinesOK
  <2> QED BY <2>1, <2>2, FutureFacts, ConnKept
<1>9. ASSUME NEW s \in Conns, Grant(s) \/ Deny(s) PROVE ConnInv'
  <2>1. UNCHANGED <<sockVars, up, dn>> /\ at[s] = "asking" /\ (holder' = holder \/ holder' = s)
    BY <1>9 DEF Grant, Deny
  <2>2. \A c \in Conns : at'[c] = at[c] \/ (c = s /\ at'[c] \in Answered)
    BY <1>0, <1>9 DEF Grant, Deny, TypeOK, Answered
  <2> QED BY <2>1, <2>2, FutureFacts, ConnKept DEF Served
<1>10. ASSUME NEW s \in Conns, TakeStop(s) PROVE ConnInv'
  BY <1>10, FutureFacts, ConnKept, ButtonAssumption DEF TakeStop
<1>11. CASE GrantOther \/ Expire
  BY <1>11, FutureFacts, ConnKept, ButtonAssumption DEF GrantOther, Expire
<1>12. CASE UNCHANGED vars
  BY <1>12, FutureFacts, ConnKept DEF vars
<1> QED BY <1>1, <1>2, <1>3, <1>4, <1>5, <1>6, <1>7, <1>8, <1>9, <1>10, <1>11, <1>12
        DEF Next, Handler

LEMMA InitType == Init => TypeInv
<1> SUFFICES ASSUME Init PROVE TypeInv
  OBVIOUS
<1>1. TypeOK /\ LinesOK
  BY ButtonAssumption DEF Init, TypeOK, LinesOK, Mine, Served
<1>2. ConnInv
  BY ButtonAssumption, ConnFacts DEF Init, ConnInv, Mine, Served
<1> QED BY <1>1, <1>2 DEF TypeInv

LEMMA TypeInvStep == TypeInv /\ [Next]_vars => TypeInv'
BY TypeStep, LinesStep, ConnStep DEF TypeInv

(* TypeOK: the lines and the event queues never hold more than they can,   *)
(* and a page always is on a connection of its own (control_ws.rs,         *)
(* index.html open).                                                       *)
THEOREM ButtonTypeCorrect == Spec => []TypeOK
<1>1. Init => TypeInv
  BY InitType
<1>2. TypeInv /\ [Next]_vars => TypeInv'
  BY TypeInvStep
<1>3. TypeInv => TypeOK
  BY DEF TypeInv
<1> QED BY <1>1, <1>2, <1>3, PTL DEF Spec

-----------------------------------------------------------------------------
(* KeyedPageIsOwner. The belief of a page comes from a granted that its    *)
(* handler passed on: it is the truth from the moment it is given, or an   *)
(* event follows it.                                                       *)

Fine(s) == holder = s \/ events[s] > 0

FollowedByNews(s, i) == \E j \in DOMAIN dn[s] : j > i /\ dn[s][j] = "released"

NewsFor(s) ==
  /\ at[s] = "granted" => Fine(s)
  /\ \A i \in DOMAIN dn[s] : dn[s][i] = "granted" => Fine(s) \/ FollowedByNews(s, i)
  /\ mine[s[1]] /\ s[2] = 1 => Fine(s) \/ \E i \in DOMAIN dn[s] : dn[s][i] = "released"

NewsInv == \A s \in Conns : Reached(s) => NewsFor(s)

LEMMA NewsKept ==
  ASSUME NEW s \in Conns, NewsFor(s), Fine(s) => Fine(s)', dn'[s] = dn[s],
         at'[s] = "granted" => at[s] = "granted" \/ Fine(s)',
         mine'[s[1]] => mine[s[1]]
  PROVE  NewsFor(s)'
BY DEF NewsFor, FollowedByNews

(* The handler adds a message to the page's line.                          *)
LEMMA NewsSent ==
  ASSUME TypeInv, NEW s \in Conns, NewsFor(s), NEW m \in Downward,
         dn'[s] = Append(dn[s], m), mine' = mine,
         m = "released" \/ (Fine(s) => Fine(s)'),
         m = "granted" => Fine(s)',
         at'[s] = "granted" => at[s] = "granted" /\ Fine(s)'
  PROVE  NewsFor(s)'
<1>1. dn[s] \in Seq(Downward)
  BY DEF TypeInv, LinesOK
<1>2. /\ Len(dn[s]) \in Nat
      /\ DOMAIN dn'[s] = DOMAIN dn[s] \cup {Len(dn[s]) + 1}
      /\ \A i \in DOMAIN dn[s] : i < Len(dn[s]) + 1 /\ dn'[s][i] = dn[s][i]
      /\ dn'[s][Len(dn[s]) + 1] = m
  BY <1>1, Appended
<1>3. \A i \in DOMAIN dn[s] : FollowedByNews(s, i) => FollowedByNews(s, i)'
  BY <1>2 DEF FollowedByNews
<1>4. m = "released" => \A i \in DOMAIN dn[s] : FollowedByNews(s, i)'
  BY <1>2 DEF FollowedByNews
<1>5. ASSUME NEW i \in DOMAIN dn'[s], dn'[s][i] = "granted"
      PROVE  Fine(s)' \/ FollowedByNews(s, i)'
  BY <1>2, <1>3, <1>4, <1>5 DEF NewsFor
<1>6. mine'[s[1]] /\ s[2] = 1 => Fine(s)' \/ \E i \in DOMAIN dn'[s] : dn'[s][i] = "released"
  BY <1>2 DEF NewsFor
<1> QED BY <1>5, <1>6 DEF NewsFor

LEMMA NewsTaken ==
  ASSUME TypeInv, NEW s \in Conns, NewsFor(s), dn[s] # <<>>, dn'[s] = Tail(dn[s]),
         at'[s] = at[s], Fine(s)' <=> Fine(s),
         mine'[s[1]] = Believes(Head(dn[s]), mine[s[1]])
  PROVE  NewsFor(s)'
<1>1. dn[s] \in Seq(Downward)
  BY DEF TypeInv, LinesOK
<1>2. /\ \A i \in DOMAIN dn'[s] : i + 1 \in DOMAIN dn[s] /\ i \in Int /\ dn'[s][i] = dn[s][i + 1]
      /\ \A i \in DOMAIN dn[s] : i \in Int /\ (i = 1 \/ (i - 1 \in DOMAIN dn'[s] /\ dn'[s][i - 1] = dn[s][i]))
      /\ 1 \in DOMAIN dn[s] /\ Head(dn[s]) = dn[s][1] /\ dn[s][1] \in Downward
  BY <1>1, Popped
<1>3. ASSUME NEW i \in DOMAIN dn[s], i # 1, FollowedByNews(s, i)
      PROVE  FollowedByNews(s, i - 1)'
  <2>1. PICK j \in DOMAIN dn[s] : j > i /\ dn[s][j] = "released"
    BY <1>3 DEF FollowedByNews
  <2>2. i \in Int /\ j \in Int /\ j \in 1..Len(dn[s]) /\ i \in 1..Len(dn[s]) /\ j # 1
    BY <1>1, <1>2, <2>1
  <2>3. j - 1 \in DOMAIN dn'[s] /\ dn'[s][j - 1] = "released" /\ j - 1 > i - 1
    BY <1>2, <2>1, <2>2
  <2> QED BY <2>3 DEF FollowedByNews
<1>4. ASSUME NEW i \in DOMAIN dn'[s], dn'[s][i] = "granted"
      PROVE  Fine(s)' \/ FollowedByNews(s, i)'
  <2>1. i + 1 \in DOMAIN dn[s] /\ i + 1 # 1 /\ dn[s][i + 1] = "granted" /\ (i + 1) - 1 = i
    BY <1>1, <1>2, <1>4, Popped
  <2> QED BY <1>3, <2>1 DEF NewsFor
<1>5. CASE Head(dn[s]) = "granted"
  <2>1. Fine(s) \/ FollowedByNews(s, 1)
    BY <1>2, <1>5 DEF NewsFor
  <2>2. FollowedByNews(s, 1) => \E j \in DOMAIN dn'[s] : dn'[s][j] = "released"
    <3>1. \A j \in DOMAIN dn[s] : j > 1 => j # 1
      BY <1>2
    <3> QED BY <1>2, <3>1 DEF FollowedByNews
  <2> QED BY <1>4, <2>1, <2>2 DEF NewsFor
<1>6. CASE Head(dn[s]) = "released"
  <2>1. ~mine'[s[1]]
    BY <1>6 DEF Believes
  <2> QED BY <1>4, <2>1 DEF NewsFor
<1>7. CASE Head(dn[s]) = "denied"
  <2>1. mine'[s[1]] = mine[s[1]]
    BY <1>7 DEF Believes
  <2>2. \A j \in DOMAIN dn[s] : dn[s][j] = "released" => \E i \in DOMAIN dn'[s] : dn'[s][i] = "released"
    BY <1>2, <1>7
  <2> QED BY <1>4, <2>1, <2>2 DEF NewsFor
<1> QED BY <1>2, <1>5, <1>6, <1>7 DEF Downward

LEMMA ReachedServed ==
  ASSUME TypeInv, NEW s \in Conns, Reached(s)
  PROVE  s[1] \in Pages /\ s = Mine(s[1]) /\ online[s[1]] /\ at[s] \in Served
BY ConnFacts DEF Reached, TypeInv, ConnInv

(* A step that keeps every connection reached where it was.                *)
LEMMA NewsStill ==
  ASSUME TypeInv, NewsInv, UNCHANGED sockVars,
         \A s \in Conns : Reached(s) => NewsFor(s)'
  PROVE  NewsInv'
<1>1. \A s \in Conns : Reached(s)' <=> Reached(s)
  BY DEF Reached, Mine, sockVars
<1> QED BY <1>1 DEF NewsInv

LEMMA NewsStep == TypeInv /\ NewsInv /\ [Next]_vars => NewsInv'
<1> SUFFICES ASSUME TypeInv, NewsInv, [Next]_vars PROVE NewsInv'
  OBVIOUS
<1>0. TypeOK /\ LinesOK
  BY DEF TypeInv
<1>n. \A s \in Conns : Reached(s) => NewsFor(s) /\ s[1] \in Pages
  BY ConnFacts DEF NewsInv
<1>1. ASSUME NEW p \in Pages, Press(p) \/ Release(p) \/ EngageLock(p) \/ Unlock(p)
      PROVE  NewsInv'
  <2>1. UNCHANGED <<mine, sockVars, dn, at, events, holder>>
    BY <1>1 DEF Press, Release, EngageLock, Unlock, lineVars
  <2> QED BY <1>n, <2>1, NewsKept, NewsStill DEF Fine
<1>2. ASSUME NEW p \in Pages, Receive(p) PROVE NewsInv'
  <2>1. UNCHANGED <<sockVars, at, events, holder>> /\ online[p]
    BY <1>2 DEF Receive
  <2>2. /\ Mine(p) \in Conns /\ Mine(p)[1] = p
        /\ dn'[Mine(p)] = Tail(dn[Mine(p)]) /\ \A s \in Conns : s # Mine(p) => dn'[s] = dn[s]
    BY <1>2, DnTaken, MineFacts DEF Receive
  <2>3. /\ mine'[p] = Believes(Head(dn[Mine(p)]), mine[p])
        /\ \A q \in Pages : q # p => mine'[q] = mine[q]
    BY <1>0, <1>2 DEF Receive, TypeOK
  <2>4. ASSUME NEW s \in Conns, Reached(s) PROVE NewsFor(s)'
    <3>1. CASE s = Mine(p)
      BY <1>2, <1>n, <2>1, <2>2, <2>3, <2>4, <3>1, NewsTaken DEF Receive, Fine
    <3>2. CASE s # Mine(p)
      <4>1. s[1] # p /\ s[1] \in Pages
        BY <2>4, <3>2, ReachedServed
      <4> QED BY <1>n, <2>1, <2>2, <2>3, <2>4, <3>2, <4>1, NewsKept DEF Fine
    <3> QED BY <3>1, <3>2
  <2> QED BY <2>1, <2>4, NewsStill
<1>3. ASSUME NEW p \in Pages, Drop(p) PROVE NewsInv'
  <2>1. UNCHANGED <<mine, n, at, events, holder>> /\ online' = [online EXCEPT ![p] = FALSE]
    BY <1>3 DEF Drop, pageVars
  <2>2. \A s \in Conns : s # Mine(p) => dn'[s] = dn[s]
    BY <1>3, LinesCleared, MineFacts DEF Drop
  <2>3. ASSUME NEW s \in Conns, Reached(s)' PROVE Reached(s) /\ s # Mine(p)
    <3>1. s[1] # p
      BY <1>0, <2>1, <2>3 DEF Reached, TypeOK
    <3> QED BY <1>0, <2>1, <2>3, <3>1, MineFacts DEF Reached, Mine, TypeOK
  <2> QED BY <1>n, <2>1, <2>2, <2>3, NewsKept DEF NewsInv, Fine
<1>4. ASSUME NEW p \in Pages, Reconnect(p) PROVE NewsInv'
  <2>0. PICK c : c = <<p, n[p] + 1>>
    OBVIOUS
  <2>1. UNCHANGED <<mine, dn, events, holder>> /\ c \in Conns /\ ~online[p]
    BY <1>4, <2>0 DEF Reconnect, pageVars, lineVars, TypeInv, ConnInv
  <2>2. /\ n' = [n EXCEPT ![p] = @ + 1] /\ online' = [online EXCEPT ![p] = TRUE]
        /\ at' = [at EXCEPT ![c] = "open"] /\ n[p] \in Nat \ {0}
    BY <1>4, <2>0, MineFacts DEF Reconnect
  <2>3. dn[c] = <<>>
    <3>1. Future(c)
      BY <2>0, <2>2 DEF Future
    <3> QED BY <2>1, <3>1, FutureFacts
  <2>4. NewsFor(c)'
    <3>1. c[2] # 1
      BY <2>0, <2>2
    <3> QED BY <1>0, <2>1, <2>2, <2>3, <3>1 DEF NewsFor, TypeOK
  <2>5. ASSUME NEW s \in Conns, Reached(s)', s # c PROVE Reached(s)
    <3>1. s = <<s[1], n'[s[1]]>> /\ s[1] \in Pages /\ online'[s[1]]
      BY <2>5, ConnFacts DEF Reached, Mine
    <3>2. s[1] # p
      BY <2>0, <2>2, <2>5, <3>1 DEF TypeInv, ConnInv
    <3> QED BY <1>0, <2>2, <3>1, <3>2 DEF Reached, Mine, TypeOK, TypeInv, ConnInv
  <2>6. ASSUME NEW s \in Conns, Reached(s)', s # c PROVE NewsFor(s)'
    <3>1. at'[s] = at[s]
      BY <1>0, <2>2, <2>6 DEF TypeOK
    <3> QED BY <1>n, <2>1, <2>5, <2>6, <3>1, NewsKept DEF Fine
  <2> QED BY <2>4, <2>6 DEF NewsInv
<1>5. ASSUME NEW c \in Conns, Forward(c) PROVE NewsInv'
  <2>1. UNCHANGED <<mine, sockVars, at, holder>> /\ at[c] = "open"
    BY <1>5 DEF Forward, pageVars
  <2>2. /\ \A s \in Conns : s # c => events'[s] = events[s] /\ dn'[s] = dn[s]
        /\ Reached(c) => dn'[c] = Append(dn[c], "released")
    BY <1>0, <1>5, DeliverLines DEF Forward, Downward, TypeOK
  <2>3. ASSUME NEW s \in Conns, Reached(s) PROVE NewsFor(s)'
    <3>1. CASE s = c
      BY <1>n, <2>1, <2>2, <2>3, <3>1, NewsSent DEF Downward
    <3>2. CASE s # c
      BY <1>n, <2>1, <2>2, <2>3, <3>2, NewsKept DEF Fine
    <3> QED BY <3>1, <3>2
  <2> QED BY <2>1, <2>3, NewsStill
<1>6. ASSUME NEW c \in Conns, Reply(c) PROVE NewsInv'
  <2>1. UNCHANGED <<mine, sockVars, events, holder>> /\ at[c] \in Answered
    BY <1>6 DEF Reply, pageVars
  <2>2. /\ at'[c] = "open" /\ \A s \in Conns : s # c => at'[s] = at[s] /\ dn'[s] = dn[s]
        /\ Reached(c) => dn'[c] = Append(dn[c], at[c])
    BY <1>0, <1>6, DeliverLines DEF Reply, Downward, Answered, TypeOK
  <2>3. ASSUME NEW s \in Conns, Reached(s) PROVE NewsFor(s)'
    <3>1. CASE s = c
      <4>1. at[c] = "granted" => Fine(c)
        BY <1>n, <2>3, <3>1 DEF NewsFor
      <4> QED BY <1>n, <2>1, <2>2, <2>3, <3>1, <4>1, NewsSent DEF Downward, Answered, Fine
    <3>2. CASE s # c
      BY <1>n, <2>1, <2>2, <2>3, <3>2, NewsKept DEF Fine
    <3> QED BY <3>1, <3>2
  <2> QED BY <2>1, <2>3, NewsStill
<1>7. ASSUME NEW c \in Conns, Read(c) \/ Deny(c) PROVE NewsInv'
  <2>1. UNCHANGED <<mine, sockVars, dn, events, holder>>
    BY <1>7 DEF Read, Deny, pageVars, lineVars
  <2>2. \A s \in Conns : at'[s] = "granted" => at[s] = "granted"
    BY <1>0, <1>7 DEF Read, ReadStart, ReadStop, Deny, TypeOK
  <2> QED BY <1>n, <2>1, <2>2, NewsKept, NewsStill DEF Fine
<1>8. ASSUME NEW c \in Conns, Leave(c) PROVE NewsInv'
  <2>1. UNCHANGED <<mine, sockVars, dn, holder>> /\ ~Reached(c)
    BY <1>8 DEF Leave, pageVars
  <2>2. \A s \in Conns : s # c => at'[s] = at[s] /\ events'[s] = events[s]
    BY <1>0, <1>8 DEF Leave, TypeOK
  <2> QED BY <1>n, <2>1, <2>2, NewsKept, NewsStill DEF Fine
<1>9. ASSUME NEW c \in Conns, Grant(c) PROVE NewsInv'
  <2>1. UNCHANGED <<mine, sockVars, dn, events>> /\ holder = NoOne /\ holder' = c
    BY <1>9 DEF Grant, pageVars, lineVars
  <2>2. \A s \in Conns : at'[s] = at[s] \/ s = c
    BY <1>0, <1>9 DEF Grant, TypeOK
  <2> QED BY <1>n, <2>1, <2>2, NewsKept, NewsStill, ButtonAssumption DEF Fine
<1>10. ASSUME UNCHANGED <<mine, sockVars, dn, at>>, Broadcast PROVE NewsInv'
  <2>1. \A s \in Conns : Reached(s) => Fine(s)'
    BY <1>0, <1>10, BroadcastType, ReachedServed DEF Fine
  <2> QED BY <1>n, <1>10, <2>1, NewsKept, NewsStill
<1>11. ASSUME NEW c \in Conns, TakeStop(c) PROVE NewsInv'
  <2>1. UNCHANGED <<mine, sockVars, dn, at>>
    BY <1>11 DEF TakeStop, pageVars, lineVars
  <2>2. CASE Broadcast
    BY <1>10, <2>1, <2>2
  <2>3. CASE UNCHANGED <<events, holder>>
    BY <1>n, <2>1, <2>3, NewsKept, NewsStill DEF Fine
  <2> QED BY <1>11, <2>2, <2>3 DEF TakeStop
<1>12. CASE Expire
  BY <1>10, <1>12 DEF Expire, pageVars, lineVars
<1>13. CASE UNCHANGED vars
  BY <1>n, <1>13, NewsKept, NewsStill DEF Fine, vars, pageVars, lineVars
<1>14. CASE GrantOther
  BY <1>n, <1>14, NewsKept, NewsStill, ButtonAssumption
     DEF GrantOther, Fine, pageVars, lineVars
<1> QED BY <1>1, <1>2, <1>3, <1>4, <1>5, <1>6, <1>7, <1>8, <1>9, <1>11, <1>12, <1>13, <1>14
        DEF Next, Handler

(* KeyedPageIsOwner: a page on its first connection that shows YOU ARE     *)
(* KEYED owns PTT, or the event that tells it otherwise is on its way      *)
(* (control_ws.rs event forwarding, index.html ptt_released).              *)
THEOREM KeyedIsTrue == Spec => []KeyedPageIsOwner
<1>1. Init => TypeInv /\ NewsInv
  <2>1. ASSUME Init, NEW s \in Conns PROVE NewsFor(s)
    BY <2>1, ConnFacts DEF Init, NewsFor
  <2> QED BY <2>1, InitType DEF NewsInv
<1>2. TypeInv /\ NewsInv /\ [Next]_vars => TypeInv' /\ NewsInv'
  BY TypeInvStep, NewsStep
<1>3. TypeInv /\ NewsInv => KeyedPageIsOwner
  <2> SUFFICES ASSUME TypeInv, NewsInv, NEW p \in Pages, Beats(p), n[p] = 1
               PROVE  Holds(p) \/ NewsOnItsWay(Mine(p))
    BY DEF KeyedPageIsOwner
  <2>1. Mine(p) \in Conns /\ Reached(Mine(p)) /\ Mine(p)[1] = p /\ Mine(p)[2] = 1
    BY MineFacts DEF Beats
  <2>2. NewsFor(Mine(p))
    BY <2>1 DEF NewsInv
  <2> QED BY <2>1, <2>2 DEF NewsFor, Beats, Fine, Holds, NewsOnItsWay
<1> QED BY <1>1, <1>2, <1>3, PTL DEF Spec

-----------------------------------------------------------------------------
(* CarrierIsAttended. Once an operator has let go, unless with a start     *)
(* still unanswered (tapped), each start on the line has a stop behind it, *)
(* a start that is being asked for has one on the line, and a hold the     *)
(* page knows of or is about to hear of has one on its way.                *)

Wanted(p) == armed[p] /\ down[p]

StopBehind(s, i) == \E j \in DOMAIN up[s] : j > i /\ up[s][j] = "stop"
StopInLine(s)    == \E j \in DOMAIN up[s] : up[s][j] = "stop"

Told(s) == \/ mine[s[1]]
           \/ at[s] = "granted"
           \/ \E i \in DOMAIN dn[s] : dn[s][i] = "granted"

LetGo(s) ==
  /\ \A i \in DOMAIN up[s] : up[s][i] = "start" => StopBehind(s, i)
  /\ at[s] = "asking" => StopInLine(s)
  /\ holder = s /\ Told(s) => StopOnItsWay(s)

AttendFor(s) == Wanted(s[1]) \/ tapped[s[1]] \/ LetGo(s)

AttendInv == \A s \in Conns : Reached(s) => AttendFor(s)

(* A connection that a step leaves alone.                                  *)
LEMMA AttendKept ==
  ASSUME NEW s \in Conns, AttendFor(s), up'[s] = up[s],
         Wanted(s[1]) => Wanted(s[1])', tapped[s[1]] => tapped'[s[1]],
         at'[s] = "asking" => at[s] = "asking",
         holder' = s => holder = s, Told(s)' => Told(s),
         stops[s] /\ holder' = s => stops'[s]
  PROVE  AttendFor(s)'
<1>1. CASE LetGo(s)
  <2>1. \A i \in DOMAIN up'[s] : up'[s][i] = "start" => StopBehind(s, i)'
    BY <1>1 DEF LetGo, StopBehind
  <2>2. at'[s] = "asking" => StopInLine(s)'
    BY <1>1 DEF LetGo, StopInLine
  <2>3. holder' = s /\ Told(s)' => StopOnItsWay(s)'
    BY <1>1 DEF LetGo, StopOnItsWay
  <2> QED BY <2>1, <2>2, <2>3 DEF AttendFor, LetGo
<1>2. CASE Wanted(s[1]) \/ tapped[s[1]]
  BY <1>2 DEF AttendFor
<1> QED BY <1>1, <1>2 DEF AttendFor

LEMMA AttendStill ==
  ASSUME TypeInv, AttendInv, UNCHANGED sockVars,
         \A s \in Conns : Reached(s) => AttendFor(s)'
  PROVE  AttendInv'
<1>1. \A s \in Conns : Reached(s)' <=> Reached(s)
  BY DEF Reached, Mine, sockVars
<1> QED BY <1>1 DEF AttendInv

(* A stop at the end of the line is behind every start.                    *)
LEMMA StopSent ==
  ASSUME TypeInv, NEW s \in Conns, up'[s] = Append(up[s], "stop")
  PROVE  LetGo(s)'
<1>1. up[s] \in Seq(Upward) /\ "stop" \in Upward
  BY DEF TypeInv, LinesOK, Upward
<1>2. PICK k : k = Len(up[s]) + 1
  OBVIOUS
<1>3. /\ DOMAIN up'[s] = DOMAIN up[s] \cup {k} /\ up'[s][k] = "stop"
      /\ \A i \in DOMAIN up[s] : k > i
  BY <1>1, <1>2, Appended
<1>4. \A i \in DOMAIN up'[s] : up'[s][i] = "start" => StopBehind(s, i)'
  BY <1>3 DEF StopBehind
<1> QED BY <1>3, <1>4 DEF LetGo, StopInLine, StopOnItsWay

LEMMA ReachedOnly ==
  ASSUME TypeInv, NEW s \in Conns, Reached(s), NEW p \in Pages, s # Mine(p)
  PROVE  s[1] # p /\ s[1] \in Pages
BY ReachedServed

LEMMA PressAttended ==
  ASSUME TypeInv, AttendInv, NEW p \in Pages, Press(p)
  PROVE  AttendInv'
<1>0. TypeOK
  BY DEF TypeInv
<1>1. UNCHANGED <<armed, mine, sockVars, dn, at, stops, holder>> /\ armed[p]
  BY DEF Press
<1>2. /\ down'[p] /\ \A q \in Pages : down[q] => down'[q]
      /\ \A q \in Pages : q # p => tapped'[q] = tapped[q]
  BY <1>0 DEF Press, TypeOK
<1>3. \A s \in Conns : s # Mine(p) => up'[s] = up[s]
  BY SendLines DEF Press, StartPtt, Upward
<1>4. ASSUME NEW s \in Conns, Reached(s) PROVE AttendFor(s)'
  <2>1. CASE s # Mine(p)
    <3>1. s[1] # p /\ s[1] \in Pages
      BY <1>4, <2>1, ReachedOnly
    <3>2. Wanted(s[1]) => Wanted(s[1])'
      BY <1>1, <1>2, <3>1 DEF Wanted
    <3>3. AttendFor(s) /\ (Told(s)' => Told(s))
      BY <1>1, <1>4 DEF AttendInv, Told
    <3> QED BY <1>1, <1>2, <1>3, <2>1, <3>1, <3>2, <3>3, AttendKept
  <2>2. CASE s = Mine(p)
    <3>1. s[1] = p
      BY <2>2, MineFacts
    <3> QED BY <1>1, <1>2, <3>1 DEF AttendFor, Wanted
  <2> QED BY <2>1, <2>2
<1> QED BY <1>1, <1>4, AttendStill

(* The pad is let go or the page locked.                                   *)
LEMMA LetGoAttended ==
  ASSUME TypeInv, AttendInv, NEW p \in Pages, Release(p) \/ EngageLock(p)
  PROVE  AttendInv'
<1>0. TypeOK
  BY DEF TypeInv
<1>1. UNCHANGED <<mine, sockVars, dn, at, stops, holder>>
  BY DEF Release, EngageLock
<1>2. \/ mine[p] /\ Send(p, "stop") /\ tapped' = [tapped EXCEPT ![p] = FALSE]
      \/ ~mine[p] /\ up' = up /\ tapped' = Tapped(p)
      \/ mine[p] /\ ~armed[p] /\ up' = up /\ tapped' = Tapped(p)
  BY DEF Release, EngageLock, StopPtt
<1>3. \A q \in Pages : q # p => (Wanted(q) => Wanted(q)') /\ tapped'[q] = tapped[q]
  BY <1>0, <1>2 DEF Release, EngageLock, Wanted, TypeOK, Tapped
<1>4. \A s \in Conns : s # Mine(p) => up'[s] = up[s]
  BY <1>2, SendLines DEF Upward
<1>5. ASSUME NEW s \in Conns, Reached(s) PROVE AttendFor(s)'
  <2>0. AttendFor(s) /\ (Told(s)' <=> Told(s))
    BY <1>1, <1>5 DEF AttendInv, Told
  <2>1. CASE s # Mine(p)
    <3>1. s[1] # p /\ s[1] \in Pages
      BY <1>5, <2>1, ReachedOnly
    <3> QED BY <1>1, <1>3, <1>4, <2>0, <2>1, <3>1, AttendKept
  <2>2. CASE s = Mine(p)
    <3>1. s[1] = p /\ online[p]
      BY <1>5, <2>2, MineFacts
    <3>2. CASE mine[p] /\ Send(p, "stop")
      <4>1. up'[s] = Append(up[s], "stop")
        BY <2>2, <3>1, <3>2, SendLines DEF Upward
      <4> QED BY <4>1, StopSent DEF AttendFor
    <3>3. CASE ~mine[p] /\ up' = up /\ tapped' = Tapped(p)
      <4>1. CASE Unanswered(s)
        <5>1. tapped'[p]
          BY <1>0, <2>2, <3>3, <4>1 DEF Tapped, TypeOK
        <5> QED BY <3>1, <5>1 DEF AttendFor
      <4>2. CASE ~Unanswered(s)
        <5>1. /\ \A i \in DOMAIN up[s] : up[s][i] # "start"
              /\ at[s] \notin {"asking", "granted"}
              /\ \A i \in DOMAIN dn[s] : dn[s][i] # "granted"
          BY <4>2 DEF Unanswered, Answered
        <5> QED BY <1>1, <3>1, <3>3, <5>1 DEF AttendFor, LetGo, Told
      <4> QED BY <4>1, <4>2
    <3>4. CASE mine[p] /\ ~armed[p] /\ up' = up /\ tapped' = Tapped(p)
      <4>1. ~Wanted(s[1]) /\ (tapped[s[1]] => tapped'[s[1]])
        BY <1>0, <3>1, <3>4 DEF Wanted, Tapped, TypeOK
      <4> QED BY <1>1, <2>0, <3>4, <4>1, AttendKept
    <3> QED BY <1>2, <3>2, <3>3, <3>4
  <2> QED BY <2>1, <2>2
<1> QED BY <1>1, <1>5, AttendStill

LEMMA ReceiveAttended ==
  ASSUME TypeInv, AttendInv, NEW p \in Pages, Receive(p)
  PROVE  AttendInv'
<1>0. TypeOK
  BY DEF TypeInv
<1>1. UNCHANGED <<armed, down, tapped, sockVars, up, at, stops, holder>> /\ online[p]
  BY DEF Receive
<1>2. PICK s \in Conns : s = Mine(p) /\ s[1] = p /\ Reached(s)
  BY <1>1, MineFacts
<1>3. PICK m : m = Head(dn[s])
  OBVIOUS
<1>4. /\ dn[s] # <<>> /\ dn'[s] = Tail(dn[s]) /\ \A c \in Conns : c # s => dn'[c] = dn[c]
      /\ dn[s] \in Seq(Downward)
  BY <1>2, DnTaken DEF Receive, TypeInv, LinesOK
<1>5. mine'[p] = Believes(m, mine[p]) /\ \A q \in Pages : q # p => mine'[q] = mine[q]
  BY <1>0, <1>2, <1>3 DEF Receive, TypeOK
<1>6. /\ m \in Downward /\ 1 \in DOMAIN dn[s] /\ dn[s][1] = m
      /\ \A i \in DOMAIN dn'[s] : i + 1 \in DOMAIN dn[s] /\ dn'[s][i] = dn[s][i + 1]
  BY <1>3, <1>4, Popped
<1>7. Told(s)' => Told(s)
  BY <1>1, <1>2, <1>5, <1>6 DEF Told, Believes, Downward
<1>8. AttendFor(s)'
  BY <1>1, <1>2, <1>7, AttendKept DEF AttendInv, Wanted
<1>9. ASSUME NEW c \in Conns, Reached(c), c # s PROVE AttendFor(c)'
  <2>1. c[1] # p /\ c[1] \in Pages
    BY <1>2, <1>9, ReachedOnly
  <2>2. Told(c)' => Told(c)
    BY <1>1, <1>4, <1>5, <1>9, <2>1 DEF Told
  <2> QED BY <1>1, <1>9, <2>2, AttendKept DEF Wanted, AttendInv
<1> QED BY <1>1, <1>8, <1>9, AttendStill

LEMMA DropAttended ==
  ASSUME TypeInv, AttendInv, NEW p \in Pages, Drop(p)
  PROVE  AttendInv'
<1>0. TypeOK
  BY DEF TypeInv
<1>1. /\ UNCHANGED <<armed, down, mine, tapped, n, up, at, stops, holder>>
      /\ online' = [online EXCEPT ![p] = FALSE]
  BY DEF Drop, pageVars
<1>2. \A s \in Conns : s # Mine(p) => dn'[s] = dn[s]
  BY LinesCleared, MineFacts DEF Drop
<1>3. ASSUME NEW s \in Conns, Reached(s)' PROVE AttendFor(s)'
  <2>1. s[1] # p /\ s[1] \in Pages
    BY <1>0, <1>1, <1>3, ConnFacts DEF Reached, TypeOK
  <2>2. Reached(s) /\ s # Mine(p)
    BY <1>0, <1>1, <1>3, <2>1, MineFacts DEF Reached, Mine, TypeOK
  <2>3. Told(s)' => Told(s)
    BY <1>1, <1>2, <2>2 DEF Told
  <2> QED BY <1>1, <2>2, <2>3, AttendKept DEF AttendInv, Wanted
<1> QED BY <1>3 DEF AttendInv

(* A connection that has just been made has carried nothing yet.           *)
LEMMA ReconnectAttended ==
  ASSUME TypeInv, AttendInv, NEW p \in Pages, Reconnect(p)
  PROVE  AttendInv'
<1>0. TypeOK
  BY DEF TypeInv
<1>1. PICK c : c = <<p, n[p] + 1>>
  OBVIOUS
<1>2. UNCHANGED <<armed, down, mine, tapped, up, dn, stops, holder>> /\ c \in Conns
  BY <1>1 DEF Reconnect, pageVars, lineVars, TypeInv, ConnInv
<1>3. /\ n' = [n EXCEPT ![p] = @ + 1] /\ online' = [online EXCEPT ![p] = TRUE]
      /\ at' = [at EXCEPT ![c] = "open"] /\ n[p] \in Nat \ {0}
  BY <1>1, MineFacts DEF Reconnect
<1>4. up[c] = <<>> /\ dn[c] = <<>> /\ holder # c
  <2>1. Future(c)
    BY <1>1, <1>3 DEF Future
  <2> QED BY <1>2, <2>1, FutureFacts
<1>5. AttendFor(c)'
  <2>1. at'[c] = "open" /\ up'[c] = <<>> /\ holder' # c
    BY <1>0, <1>2, <1>3, <1>4 DEF TypeOK
  <2>2. DOMAIN up'[c] = {}
    BY <2>1
  <2> QED BY <2>1, <2>2 DEF AttendFor, LetGo
<1>6. ASSUME NEW s \in Conns, Reached(s)', s # c PROVE AttendFor(s)'
  <2>1. s = <<s[1], n'[s[1]]>> /\ s[1] \in Pages /\ online'[s[1]]
    BY <1>6, ConnFacts DEF Reached, Mine
  <2>2. s[1] # p
    BY <1>1, <1>3, <1>6, <2>1 DEF TypeInv, ConnInv
  <2>3. Reached(s)
    BY <1>0, <1>3, <2>1, <2>2 DEF Reached, Mine, TypeOK, TypeInv, ConnInv
  <2>4. at'[s] = at[s]
    BY <1>0, <1>3, <1>6 DEF TypeOK
  <2>5. Told(s)' => Told(s)
    BY <1>2, <2>4 DEF Told
  <2> QED BY <1>2, <2>3, <2>4, <2>5, AttendKept DEF AttendInv, Wanted
<1> QED BY <1>5, <1>6 DEF AttendInv

(* The handler reads a start with its stop behind it, or a stop.           *)
LEMMA ReadAttended ==
  ASSUME TypeInv, AttendInv, NEW c \in Conns, Read(c)
  PROVE  AttendInv'
<1>0. TypeOK
  BY DEF TypeInv
<1>1. /\ UNCHANGED <<armed, down, mine, tapped, sockVars, dn, holder>>
      /\ at[c] = "open" /\ up[c] # <<>>
  BY DEF Read, pageVars
<1>2. up'[c] = Tail(up[c]) /\ \A s \in Conns : s # c => up'[s] = up[s]
  BY UpTaken DEF Read
<1>3. \/ Head(up[c]) = "start" /\ at' = [at EXCEPT ![c] = "asking"] /\ stops' = stops
      \/ Head(up[c]) = "stop" /\ at' = at /\ stops' = [stops EXCEPT ![c] = TRUE]
  BY DEF Read, ReadStart, ReadStop
<1>4. ASSUME NEW s \in Conns, Reached(s), s # c PROVE AttendFor(s)'
  <2>1. at'[s] = at[s] /\ stops'[s] = stops[s]
    BY <1>0, <1>3, <1>4 DEF TypeOK
  <2>2. Told(s)' => Told(s)
    BY <1>1, <2>1 DEF Told
  <2> QED BY <1>1, <1>2, <1>4, <2>1, <2>2, AttendKept DEF AttendInv, Wanted
<1>5. ASSUME Reached(c), LetGo(c) PROVE LetGo(c)'
  <2>1. up[c] \in Seq(Upward)
    BY DEF TypeInv, LinesOK
  <2>2. /\ 1 \in DOMAIN up[c] /\ Head(up[c]) = up[c][1]
        /\ \A i \in DOMAIN up'[c] :
             i + 1 \in DOMAIN up[c] /\ i + 1 # 1 /\ up'[c][i] = up[c][i + 1]
        /\ \A i \in DOMAIN up[c] :
             i = 1 \/ (i - 1 \in DOMAIN up'[c] /\ up'[c][i - 1] = up[c][i])
    BY <1>1, <1>2, <2>1, Popped
  <2>3. DOMAIN up[c] \subseteq Int /\ DOMAIN up'[c] \subseteq Int
    BY <1>1, <1>2, <2>1, Popped
  <2>4. ASSUME NEW i \in DOMAIN up'[c], up'[c][i] = "start" PROVE StopBehind(c, i)'
    <3>1. i + 1 \in DOMAIN up[c] /\ up[c][i + 1] = "start" /\ i \in Int /\ i + 1 # 1
      BY <2>2, <2>3, <2>4
    <3>2. PICK j \in DOMAIN up[c] : j > i + 1 /\ up[c][j] = "stop"
      BY <1>5, <3>1 DEF LetGo, StopBehind
    <3>3. 1 <= i + 1
      BY <2>1, <3>1
    <3>4. j \in Int /\ j # 1
      BY <2>3, <3>1, <3>2, <3>3
    <3>5. j - 1 \in DOMAIN up'[c] /\ up'[c][j - 1] = "stop" /\ j - 1 > i
      BY <2>2, <3>1, <3>2, <3>4
    <3> QED BY <3>5 DEF StopBehind
  <2>5. CASE Head(up[c]) = "start" /\ at' = [at EXCEPT ![c] = "asking"] /\ stops' = stops
    <3>1. PICK j \in DOMAIN up[c] : j > 1 /\ up[c][j] = "stop"
      BY <1>5, <2>2, <2>5 DEF LetGo, StopBehind
    <3>2. StopInLine(c)'
      BY <2>2, <3>1 DEF StopInLine
    <3> QED BY <2>4, <3>2 DEF LetGo, StopInLine, StopOnItsWay
  <2>6. CASE Head(up[c]) = "stop" /\ at' = at /\ stops' = [stops EXCEPT ![c] = TRUE]
    <3>1. stops'[c] /\ at'[c] = "open"
      BY <1>0, <1>1, <2>6 DEF TypeOK
    <3> QED BY <2>4, <3>1 DEF LetGo, StopOnItsWay
  <2> QED BY <1>3, <2>5, <2>6
<1>6. ASSUME Reached(c) PROVE AttendFor(c)'
  BY <1>1, <1>5, <1>6 DEF AttendInv, AttendFor, Wanted
<1> QED BY <1>1, <1>4, <1>6, AttendStill

LEMMA ReplyAttended ==
  ASSUME TypeInv, AttendInv, NEW c \in Conns, Reply(c)
  PROVE  AttendInv'
<1>0. TypeOK
  BY DEF TypeInv
<1>1. UNCHANGED <<armed, down, mine, tapped, sockVars, up, stops, holder>> /\ at[c] \in Answered
  BY DEF Reply, pageVars
<1>2. at'[c] = "open" /\ \A s \in Conns : s # c => at'[s] = at[s]
  BY <1>0 DEF Reply, TypeOK
<1>3. /\ \A s \in Conns : s # c => dn'[s] = dn[s]
      /\ Reached(c) => dn'[c] = Append(dn[c], at[c])
  BY <1>1, DeliverLines DEF Reply, Downward, Answered
<1>4. ASSUME NEW s \in Conns, Reached(s) PROVE Told(s)' => Told(s)
  <2>1. CASE s # c
    BY <1>1, <1>2, <1>3, <2>1 DEF Told
  <2>2. CASE s = c
    <3>1. dn[c] \in Seq(Downward) /\ at[c] \in Downward
      BY <1>1 DEF TypeInv, LinesOK, Answered, Downward
    <3>2. PICK e : e = at[c]
      OBVIOUS
    <3>3. dn'[c] = Append(dn[c], e) /\ e \in Downward
      BY <1>3, <1>4, <2>2, <3>1, <3>2
    <3>4. \A i \in DOMAIN dn'[c] : (i \in DOMAIN dn[c] /\ dn'[c][i] = dn[c][i]) \/ dn'[c][i] = e
      BY <3>1, <3>3, Appended
    <3> QED BY <1>1, <1>2, <2>2, <3>2, <3>4 DEF Told
  <2> QED BY <2>1, <2>2
<1>5. ASSUME NEW s \in Conns, Reached(s) PROVE AttendFor(s)'
  <2>1. at'[s] = "asking" => at[s] = "asking"
    BY <1>2
  <2> QED BY <1>1, <1>4, <1>5, <2>1, AttendKept DEF AttendInv, Wanted
<1> QED BY <1>1, <1>5, AttendStill

LEMMA ForwardAttended ==
  ASSUME TypeInv, AttendInv, NEW c \in Conns, Forward(c)
  PROVE  AttendInv'
<1>1. UNCHANGED <<armed, down, mine, tapped, sockVars, up, at, stops, holder>>
  BY DEF Forward, pageVars
<1>2. /\ \A s \in Conns : s # c => dn'[s] = dn[s]
      /\ Reached(c) => dn'[c] = Append(dn[c], "released")
  BY DeliverLines DEF Forward, Downward
<1>3. ASSUME NEW s \in Conns, Reached(s) PROVE AttendFor(s)'
  <2>1. Told(s)' => Told(s)
    <3>1. CASE s # c
      BY <1>1, <1>2, <3>1 DEF Told
    <3>2. CASE s = c
      <4>1. dn[c] \in Seq(Downward) /\ "released" \in Downward
        BY DEF TypeInv, LinesOK, Downward
      <4>2. \A i \in DOMAIN dn'[c] :
              (i \in DOMAIN dn[c] /\ dn'[c][i] = dn[c][i]) \/ dn'[c][i] = "released"
        BY <1>2, <1>3, <3>2, <4>1, Appended
      <4> QED BY <1>1, <3>2, <4>2 DEF Told
    <3> QED BY <3>1, <3>2
  <2> QED BY <1>1, <1>3, <2>1, AttendKept DEF AttendInv, Wanted
<1> QED BY <1>1, <1>3, AttendStill

(* What is granted is still wanted, was tapped, or has its stop on the line. *)
LEMMA GrantAttended ==
  ASSUME TypeInv, AttendInv, NEW c \in Conns, Grant(c)
  PROVE  AttendInv'
<1>0. TypeOK
  BY DEF TypeInv
<1>1. /\ UNCHANGED <<armed, down, mine, tapped, sockVars, up, dn, stops>> /\ at[c] = "asking"
      /\ holder' = c /\ at' = [at EXCEPT ![c] = "granted"]
  BY DEF Grant, pageVars, lineVars
<1>2. at'[c] = "granted" /\ \A s \in Conns : s # c => at'[s] = at[s]
  BY <1>0, <1>1 DEF TypeOK
<1>3. ASSUME NEW s \in Conns, Reached(s), s # c PROVE AttendFor(s)'
  <2>1. Told(s)' => Told(s)
    BY <1>1, <1>2, <1>3 DEF Told
  <2> QED BY <1>1, <1>2, <1>3, <2>1, AttendKept DEF AttendInv, Wanted
<1>4. ASSUME Reached(c) PROVE AttendFor(c)'
  <2>1. CASE LetGo(c)
    <3>1. StopInLine(c)
      BY <1>1, <2>1 DEF LetGo
    <3>2. \A i \in DOMAIN up'[c] : up'[c][i] = "start" => StopBehind(c, i)'
      BY <1>1, <2>1 DEF LetGo, StopBehind
    <3> QED BY <1>1, <1>2, <3>1, <3>2 DEF AttendFor, LetGo, StopInLine, StopOnItsWay
  <2>2. CASE Wanted(c[1]) \/ tapped[c[1]]
    BY <1>1, <2>2 DEF AttendFor, Wanted
  <2> QED BY <1>4, <2>1, <2>2 DEF AttendInv, AttendFor
<1> QED BY <1>1, <1>3, <1>4, AttendStill

LEMMA AttendStep == TypeInv /\ AttendInv /\ [Next]_vars => AttendInv'
<1> SUFFICES ASSUME TypeInv, AttendInv, [Next]_vars PROVE AttendInv'
  OBVIOUS
<1>0. TypeOK
  BY DEF TypeInv
<1>a. \A s \in Conns : Reached(s) => AttendFor(s)
  BY DEF AttendInv
<1> USE DEF pageVars, lineVars
<1>1. ASSUME NEW p \in Pages, Unlock(p) PROVE AttendInv'
  <2>1. UNCHANGED <<down, mine, tapped, sockVars, up, dn, at, stops, holder>>
    BY <1>1 DEF Unlock
  <2>2. \A q \in Pages : Wanted(q) => Wanted(q)'
    BY <1>0, <1>1 DEF Unlock, Wanted, TypeOK
  <2>3. \A s \in Conns : Told(s)' => Told(s)
    BY <2>1 DEF Told
  <2> QED BY <1>a, <2>1, <2>2, <2>3, AttendKept, AttendStill, ReachedServed
<1>2. ASSUME NEW c \in Conns, Leave(c) PROVE AttendInv'
  <2>1. UNCHANGED <<armed, down, mine, tapped, sockVars, dn, holder>> /\ ~Reached(c)
    BY <1>2 DEF Leave
  <2>2. \A s \in Conns : s # c => at'[s] = at[s] /\ up'[s] = up[s] /\ stops'[s] = stops[s]
    BY <1>0, <1>2 DEF Leave, TypeOK, TypeInv, LinesOK
  <2>3. \A s \in Conns : s # c => (Told(s)' => Told(s))
    BY <2>1, <2>2 DEF Told
  <2> QED BY <1>a, <2>1, <2>2, <2>3, AttendKept, AttendStill DEF Wanted
<1>3. ASSUME NEW c \in Conns, Deny(c) PROVE AttendInv'
  <2>1. UNCHANGED <<armed, down, mine, tapped, sockVars, up, dn, stops, holder>>
    BY <1>3 DEF Deny
  <2>2. \A s \in Conns : at'[s] = at[s] \/ at'[s] = "denied"
    BY <1>0, <1>3 DEF Deny, TypeOK
  <2>3. \A s \in Conns : Told(s)' => Told(s)
    BY <2>1, <2>2 DEF Told
  <2> QED BY <1>a, <2>1, <2>2, <2>3, AttendKept, AttendStill DEF Wanted
<1>4. ASSUME NEW c \in Conns, TakeStop(c) PROVE AttendInv'
  <2>1. UNCHANGED <<armed, down, mine, tapped, sockVars, up, dn, at>>
    BY <1>4 DEF TakeStop
  <2>2. /\ \A s \in Conns : s # c => stops'[s] = stops[s]
        /\ holder' # c /\ \A s \in Conns : holder' = s => holder = s
    BY <1>0, <1>4, ButtonAssumption DEF TakeStop, TypeOK
  <2>3. \A s \in Conns : Told(s)' => Told(s)
    BY <2>1 DEF Told
  <2> QED BY <1>a, <2>1, <2>2, <2>3, AttendKept, AttendStill DEF Wanted
<1>5. CASE GrantOther \/ Expire
  <2>1. /\ UNCHANGED <<armed, down, mine, tapped, sockVars, up, dn, at, stops>>
        /\ holder' \notin Conns
    BY <1>5, ButtonAssumption DEF GrantOther, Expire
  <2>2. \A s \in Conns : Told(s)' => Told(s)
    BY <2>1 DEF Told
  <2> QED BY <1>a, <2>1, <2>2, AttendKept, AttendStill DEF Wanted
<1>6. CASE UNCHANGED vars
  <2>1. \A s \in Conns : Told(s)' => Told(s)
    BY <1>6 DEF Told, vars
  <2> QED BY <1>a, <1>6, <2>1, AttendKept, AttendStill DEF Wanted, vars
<1> QED BY <1>1, <1>2, <1>3, <1>4, <1>5, <1>6, PressAttended, LetGoAttended,
           ReceiveAttended, DropAttended, ReconnectAttended, ReadAttended, ReplyAttended,
           ForwardAttended, GrantAttended
        DEF Next, Handler

(* CarrierIsAttended: a connection of a page that beats holds PTT only     *)
(* while the pad of the unlocked page is down, a stop is on its way, or    *)
(* the last press was a tap that ended before its start was answered       *)
(* (index.html stopPtt, lockBtn.onclick).                                  *)
THEOREM CarrierFollowsFinger == Spec => []CarrierIsAttended
<1>1. Init => TypeInv /\ AttendInv
  <2>1. ASSUME Init, NEW s \in Conns PROVE AttendFor(s)
    <3>1. /\ up[s] = <<>> /\ dn[s] = <<>> /\ ~mine[s[1]]
          /\ at[s] \in {"open", "none"} /\ holder # s
      BY <2>1, ConnFacts, ButtonAssumption DEF Init
    <3>2. DOMAIN up[s] = {}
      BY <3>1
    <3> QED BY <3>1, <3>2 DEF AttendFor, LetGo
  <2> QED BY <2>1, InitType DEF AttendInv
<1>2. TypeInv /\ AttendInv /\ [Next]_vars => TypeInv' /\ AttendInv'
  BY TypeInvStep, AttendStep
<1>3. TypeInv /\ AttendInv => CarrierIsAttended
  <2> SUFFICES ASSUME TypeInv, AttendInv, NEW p \in Pages, Holds(p), Beats(p)
               PROVE  (armed[p] /\ down[p]) \/ StopOnItsWay(Mine(p)) \/ tapped[p]
    BY DEF CarrierIsAttended
  <2>1. Mine(p) \in Conns /\ Reached(Mine(p)) /\ Mine(p)[1] = p
    BY MineFacts DEF Beats
  <2>2. AttendFor(Mine(p))
    BY <2>1 DEF AttendInv
  <2> QED BY <2>1, <2>2 DEF AttendFor, LetGo, Told, Wanted, Beats, Holds
<1> QED BY <1>1, <1>2, <1>3, PTL DEF Spec
=============================================================================
