---------------------------- MODULE SharedProofs ----------------------------
(***************************************************************************)
(* IdsAreForever for every number of handlers and pages, every library and *)
(* every import, with no bound on requests or restarts.                    *)
(*                                                                         *)
(* It is not inductive: a page that shows an id may ask for it at any      *)
(* later time.  The invariant says of every row anybody remembers, a page, *)
(* a list on its way or a request, that its id was given out and that no   *)
(* other row of the library has it.                                        *)
(*                                                                         *)
(* Coupled likewise; its invariant says that the last X on its way to the  *)
(* radio, or the one that a handler is about to send, is the right one.    *)
(*                                                                         *)
(* PagesAreRight likewise; its invariant follows each piece of news from   *)
(* the change to the page.  TypeOK needs the ids and the line to the radio *)
(* typed first.                                                            *)
(***************************************************************************)
EXTENDS SharedState, TLAPS, SequenceTheorems

AnyRow == [id : Nat \ {0}, group : Groups, name : Names]
Answers == [read : BOOLEAN, rows : SUBSET AnyRow]

\* The row's id means this row, and will mean no other.
Fits(row) == /\ row.id < next
             /\ \A other \in lib : other.id = row.id => other = row

JobFits(job) ==
    /\ job.pc = "lookup" => job.clicked \in AnyRow /\ Fits(job.clicked)
    /\ job.pc = "db" /\ job.op = "channel" => job.clicked \in AnyRow /\ Fits(job.clicked)
    /\ job.pc = "funnel" => job.channel \in AnyRow
    /\ job.pc = "db" /\ job.op = "import" => job.group \in Groups /\ job.file \in Seq(Names)

TypeInv ==
    /\ lib \in SUBSET AnyRow /\ next \in Nat \ {0}
    /\ DOMAIN jobs = Handlers
    /\ list \in [Tabs -> SUBSET AnyRow]
    /\ asks \in [Tabs -> Seq(Answers)]

IdInv ==
    /\ TypeInv
    /\ \A row \in lib : Fits(row)
    /\ \A t \in Tabs : \A row \in list[t] : Fits(row)
    /\ \A t \in Tabs : \A i \in DOMAIN asks[t] : \A row \in asks[t][i].rows : Fits(row)
    /\ \A h \in Handlers : JobFits(jobs[h])

\* What IdsAreForever says of one step.
SameRow ==
    \A h \in Handlers :
       /\ At(h, "lookup") /\ jobs'[h].pc = "funnel" => jobs'[h].channel = jobs[h].clicked
       /\ At(h, "db") /\ jobs[h].op = "channel" /\ jobs'[h] # jobs[h]
             => lib \ lib' \subseteq {jobs[h].clicked}

-----------------------------------------------------------------------------

\* The rest of a sequence without its n-th element, in order.
LEMMA RemoveAtFacts ==
    ASSUME NEW S, NEW s \in Seq(S), NEW n \in 1..Len(s)
    PROVE  /\ RemoveAt(s, n) \in Seq(S) /\ Len(RemoveAt(s, n)) = Len(s) - 1
           /\ \A i \in 1..(Len(s) - 1) : RemoveAt(s, n)[i] = s[IF i < n THEN i ELSE i + 1]
<1> DEFINE a == SubSeq(s, 1, n - 1)
           b == SubSeq(s, n + 1, Len(s))
           rest == RemoveAt(s, n)
<1>1. Len(s) \in Nat /\ n \in Int /\ 1 <= n /\ n <= Len(s)
  OBVIOUS
<1>2. rest = a \o b
  BY DEF RemoveAt
<1>3. a \in Seq(S) /\ b \in Seq(S)
  BY <1>1, SubSeqProperties
<1>4. Len(a) = n - 1 /\ \A i \in 1..(n - 1) : a[i] = s[i]
  BY <1>1
<1>5. Len(b) = Len(s) - n /\ \A i \in 1..(Len(s) - n) : b[i] = s[n + i]
  BY <1>1
<1>6. /\ rest \in Seq(S) /\ Len(rest) = Len(a) + Len(b)
      /\ \A i \in 1..Len(rest) : rest[i] = IF i <= Len(a) THEN a[i] ELSE b[i - Len(a)]
  <2> HIDE DEF a, b, rest
  <2> QED BY <1>2, <1>3, ConcatProperties
<1> HIDE DEF a, b, rest
<1>7. Len(rest) = Len(s) - 1
  BY <1>1, <1>4, <1>5, <1>6
<1>8. ASSUME NEW i \in 1..(Len(s) - 1)
      PROVE  rest[i] = s[IF i < n THEN i ELSE i + 1]
  <2>1. CASE i < n
    <3>1. rest[i] = a[i] /\ i \in 1..(n - 1)
      BY <1>1, <1>4, <1>6, <1>7, <2>1
    <3> QED BY <1>4, <2>1, <3>1
  <2>2. CASE ~(i < n)
    <3>1. i - (n - 1) \in 1..(Len(s) - n) /\ n + (i - (n - 1)) = i + 1
      BY <1>1, <2>2
    <3>2. rest[i] = b[i - (n - 1)]
      BY <1>1, <1>4, <1>6, <1>7, <2>2
    <3>3. b[i - (n - 1)] = s[n + (i - (n - 1))]
      BY <1>5, <3>1
    <3> QED BY <2>2, <3>1, <3>2, <3>3
  <2> QED BY <2>1, <2>2
<1> QED BY <1>6, <1>7, <1>8 DEF rest

LEMMA InitIds == Init => IdInv
<1>1. ASSUME Init PROVE IdInv
  <2>1. Unread \in Answers
    BY DEF Unread, Answers
  <2>2. \A t \in Tabs : asks[t] = <<Unread>> /\ asks[t] \in Seq(Answers) /\ DOMAIN asks[t] = {1}
    BY <1>1, <2>1 DEF Init
  <2>3. asks \in [Tabs -> Seq(Answers)]
    BY <1>1, <2>1 DEF Init
  <2>4. TypeInv
    BY <1>1, <2>3 DEF Init, TypeInv
  <2>5. \A t \in Tabs : \A i \in DOMAIN asks[t] : asks[t][i].rows = {}
    BY <2>2 DEF Unread
  <2>6. \A h \in Handlers : JobFits(jobs[h])
    BY <1>1 DEF Init, Idle, JobFits
  <2> QED BY <1>1, <2>4, <2>5, <2>6 DEF Init, IdInv
<1> QED BY <1>1

\* A step that leaves the library, the pages and what they wait for alone.
LEMMA QuietStep ==
    ASSUME IdInv, UNCHANGED <<lib, next, list, asks>>,
           DOMAIN jobs' = Handlers,
           \A h \in Handlers : jobs'[h] = jobs[h] \/ JobFits(jobs'[h])
    PROVE  IdInv'
<1>1. TypeInv'
  BY DEF IdInv, TypeInv
<1>2. \A h \in Handlers : JobFits(jobs[h])
  BY DEF IdInv
<1>3. \A h \in Handlers : JobFits(jobs[h])'
  BY <1>2 DEF JobFits, Fits
<1> QED BY <1>1, <1>3 DEF IdInv, Fits

\* Steps of one handler, of that kind.
LEMMA QuietJob ==
    ASSUME IdInv, UNCHANGED <<lib, next, list, asks>>,
           NEW h \in Handlers, NEW job, Becomes(h, job), JobFits(job)
    PROVE  IdInv'
<1>1. DOMAIN jobs' = Handlers /\ \A g \in Handlers : jobs'[g] = IF g = h THEN job ELSE jobs[g]
  BY DEF IdInv, TypeInv, Becomes
<1>2. \A g \in Handlers : jobs'[g] = jobs[g] \/ JobFits(jobs'[g])
  BY <1>1
<1> QED BY <1>1, <1>2, QuietStep

-----------------------------------------------------------------------------
(* The steps of a handler *)

LEMMA RequestIds ==
    ASSUME IdInv, NEW h \in Handlers, Asked(h)
    PROVE  IdInv'
<1> USE DEF JobFits
<1>1. CASE \E tone \in Tones : SetCtcss(h, tone)
  BY <1>1, QuietJob DEF SetCtcss, libVars, pageVars
<1>2. ASSUME NEW t \in Tabs, NEW row \in list[t], PostTune(h, row) \/ DeleteChannel(h, row)
      PROVE  IdInv'
  <2>1. row \in AnyRow /\ Fits(row)
    BY DEF IdInv, TypeInv
  <2>2. CASE PostTune(h, row)
    BY <2>1, <2>2, QuietJob DEF PostTune, libVars, pageVars
  <2>3. CASE DeleteChannel(h, row)
    BY <2>1, <2>3, QuietJob DEF DeleteChannel, libVars, pageVars
  <2> QED BY <1>2, <2>2, <2>3
<1>3. CASE \E side \in Sides, f \in Filters : SetFilters(h, side, f)
  BY <1>3, QuietJob DEF SetFilters, libVars, pageVars
<1>4. ASSUME NEW group \in Groups, DeleteGroup(h, group)
      PROVE  IdInv'
  BY <1>4, QuietJob DEF DeleteGroup, libVars, pageVars
<1>5. ASSUME NEW group \in Groups, NEW file \in Files, Import(h, group, file)
      PROVE  IdInv'
  <2>1. file \in Seq(Names)
    BY SharedAssumption
  <2> QED BY <1>5, <2>1, QuietJob DEF Import, libVars, pageVars
<1> QED BY <1>1, <1>2, <1>3, <1>4, <1>5 DEF Asked

\* The rest of a request, up to and after the database.
LEMMA HandlerIds ==
    ASSUME IdInv, NEW h \in Handlers,
           \/ GetCtcss(h) \/ Couple(h) \/ Lookup(h) \/ Tuned(h) \/ NotTuned(h)
           \/ Load(h) \/ Emit(h) \/ Abandon(h)
    PROVE  IdInv'
<1> USE DEF JobFits
<1>1. CASE GetCtcss(h)
  BY <1>1, QuietJob DEF GetCtcss, libVars, pageVars
<1>2. CASE Couple(h)
  BY <1>2, QuietJob DEF Couple, libVars, pageVars
<1>3. CASE Lookup(h)
  <2>1. \A row \in lib : JobFits([pc |-> "funnel", channel |-> row])
    BY DEF IdInv, TypeInv
  <2>2. UNCHANGED <<lib, next, list, asks>> /\ JobFits(Idle)
    BY <1>3 DEF Lookup, Idle, libVars, pageVars
  <2>3. \E job : Becomes(h, job) /\ JobFits(job)
    BY <1>3, <2>1, <2>2 DEF Lookup
  <2> QED BY <2>2, <2>3, QuietJob
<1>4. CASE Tuned(h)
  BY <1>4, QuietJob DEF Tuned, libVars, pageVars
<1>5. CASE NotTuned(h)
  BY <1>5, QuietJob DEF NotTuned, Idle, libVars, pageVars
<1>6. CASE Load(h)
  BY <1>6, QuietJob DEF Load, libVars, pageVars
<1>7. CASE Emit(h)
  BY <1>7, QuietJob DEF Emit, Idle, libVars, pageVars
<1>8. CASE Abandon(h)
  <2>1. UNCHANGED <<lib, next, list, asks>>
    BY <1>8 DEF Abandon, libVars, pageVars
  <2>2. CASE Becomes(h, Idle)
    BY <2>1, <2>2, QuietJob DEF Idle
  <2>3. CASE At(h, "db") /\ Becomes(h, [jobs[h] EXCEPT !.gone = TRUE])
    <3>1. JobFits(jobs[h])
      BY DEF IdInv
    <3> DEFINE job == [jobs[h] EXCEPT !.gone = TRUE]
    <3>2. job.pc = jobs[h].pc /\ job.op = jobs[h].op /\ job.clicked = jobs[h].clicked
          /\ job.group = jobs[h].group /\ job.file = jobs[h].file
      OBVIOUS
    <3>3. JobFits(job)
      BY <3>1, <3>2
    <3> QED BY <2>1, <2>3, <3>3, QuietJob
  <2> QED BY <1>8, <2>2, <2>3 DEF Abandon
<1> QED BY <1>1, <1>2, <1>3, <1>4, <1>5, <1>6, <1>7, <1>8

-----------------------------------------------------------------------------
(* The database *)

\* Everything remembered still fits a library that lost rows and got new ids.
LEMMA LibraryStep ==
    ASSUME IdInv, NEW h \in Handlers, UNCHANGED <<list, asks>>,
           lib' \in SUBSET AnyRow, next' \in Nat \ {0}, next' >= next,
           \A row \in lib' : row \in lib \/ row.id >= next,
           \A row \in lib' : Fits(row)',
           NEW job, Becomes(h, job), job.pc \notin {"lookup", "funnel", "db"}
    PROVE  IdInv'
<1>1. DOMAIN jobs' = Handlers /\ \A g \in Handlers : jobs'[g] = IF g = h THEN job ELSE jobs[g]
  BY DEF IdInv, TypeInv, Becomes
<1>2. TypeInv'
  BY <1>1 DEF IdInv, TypeInv
<1>3. \A row \in AnyRow : Fits(row) => Fits(row)'
  BY DEF Fits, IdInv, TypeInv, AnyRow
<1>4. \A t \in Tabs : \A row \in list'[t] : Fits(row)'
  BY <1>3 DEF IdInv, TypeInv
<1>5. \A t \in Tabs : \A i \in DOMAIN asks'[t] : \A row \in asks'[t][i].rows : Fits(row)'
  <2> SUFFICES ASSUME NEW t \in Tabs, NEW i \in DOMAIN asks'[t], NEW row \in asks'[t][i].rows
               PROVE  Fits(row)'
    OBVIOUS
  <2>1. asks[t][i] \in Answers
    BY DEF IdInv, TypeInv
  <2>2. row \in AnyRow /\ Fits(row)
    BY <2>1 DEF IdInv, Answers
  <2> QED BY <1>3, <2>2
<1>6. \A g \in Handlers : JobFits(jobs[g])'
  <2> TAKE g \in Handlers
  <2>1. CASE g = h
    BY <1>1, <2>1 DEF JobFits
  <2>2. CASE g # h
    <3>1. JobFits(jobs[g]) /\ jobs'[g] = jobs[g]
      BY <1>1, <2>2 DEF IdInv
    <3> QED BY <1>3, <3>1 DEF JobFits
  <2> QED BY <2>1, <2>2
<1> QED BY <1>2, <1>4, <1>5, <1>6 DEF IdInv

\* Both endings of a transaction leave a handler that asks for nothing more.
LEMMA DoneJob ==
    ASSUME NEW h \in Handlers, Done(h)
    PROVE  \E job : Becomes(h, job) /\ job.pc \notin {"lookup", "funnel", "db"}
<1>1. CASE jobs[h].gone
  BY <1>1 DEF Done, Idle
<1>2. CASE ~jobs[h].gone
  BY <1>2 DEF Done
<1> QED BY <1>1, <1>2

LEMMA CommitIds ==
    ASSUME IdInv, NEW h \in Handlers, Commit(h)
    PROVE  IdInv'
<1>1. UNCHANGED <<list, asks>>
  BY DEF Commit, pageVars
<1>2. CASE jobs[h].op = "import" /\ Imported(jobs[h].group, jobs[h].file) /\ Done(h)
  <2> DEFINE group == jobs[h].group
             file == jobs[h].file
  <2>1. group \in Groups /\ file \in Seq(Names)
    BY <1>2 DEF Commit, At, IdInv, JobFits
  <2> DEFINE fresh == {[id |-> next + i - 1, group |-> group, name |-> file[i]] : i \in DOMAIN file}
  <2>2. next \in Nat \ {0} /\ lib \in SUBSET AnyRow /\ Len(file) \in Nat /\ DOMAIN file = 1..Len(file)
    BY <2>1 DEF IdInv, TypeInv
  <2>3. lib' = Kept(group) \union fresh /\ next' = next + Len(file)
    BY <1>2 DEF Imported
  <2>4. \A row \in fresh : row \in AnyRow /\ row.id >= next /\ row.id < next + Len(file)
    BY <2>1, <2>2 DEF AnyRow
  <2>5. \A row, other \in fresh : row.id = other.id => row = other
    <3>1. next \in Int /\ \A i \in DOMAIN file : i \in Int
      BY <2>2
    <3>2. \A i, j \in DOMAIN file : next + i - 1 = next + j - 1 => i = j
      BY <3>1
    <3> QED BY <3>2
  <2>6. Kept(group) \subseteq lib
    BY DEF Kept
  <2>7. lib' \in SUBSET AnyRow /\ next' \in Nat \ {0} /\ next' >= next
    BY <2>2, <2>3, <2>4, <2>6
  <2>8. \A row \in lib' : row \in lib \/ row.id >= next
    BY <2>3, <2>4, <2>6
  <2>9. \A row \in lib : Fits(row) /\ row.id \in Nat
    BY <2>2 DEF IdInv, AnyRow
  <2>10. \A row \in lib' : row.id < next' /\ row.id \in Nat
    BY <2>2, <2>3, <2>4, <2>6, <2>7, <2>9 DEF Fits, AnyRow
  <2>11. \A row, other \in lib' : other.id = row.id => other = row
    <3> TAKE row, other \in lib'
    <3> HAVE other.id = row.id
    <3> HIDE DEF fresh
    <3>1. CASE row \in lib /\ other \in lib
      BY <3>1, <2>9 DEF Fits
    <3>2. CASE row \in fresh /\ other \in fresh
      BY <3>2, <2>5
    <3>3. CASE row \in lib /\ other \in fresh
      BY <3>3, <2>2, <2>4, <2>9 DEF Fits
    <3>4. CASE row \in fresh /\ other \in lib
      BY <3>4, <2>2, <2>4, <2>9 DEF Fits
    <3> QED BY <2>3, <2>6, <3>1, <3>2, <3>3, <3>4
  <2>12. \A row \in lib' : Fits(row)'
    BY <2>10, <2>11 DEF Fits
  <2>13. PICK job : Becomes(h, job) /\ job.pc \notin {"lookup", "funnel", "db"}
    BY <1>2, DoneJob
  <2> QED BY <1>1, <2>7, <2>8, <2>12, <2>13, LibraryStep
<1>3. CASE Done(h) /\ lib' \subseteq lib /\ UNCHANGED next
  <2>1. PICK job : Becomes(h, job) /\ job.pc \notin {"lookup", "funnel", "db"}
    BY <1>3, DoneJob
  <2>2. lib' \in SUBSET AnyRow /\ next' \in Nat \ {0} /\ next' >= next
    BY <1>3 DEF IdInv, TypeInv
  <2>3. \A row \in lib' : Fits(row)'
    BY <1>3 DEF IdInv, Fits
  <2>4. \A row \in lib' : row \in lib \/ row.id >= next
    BY <1>3
  <2> QED BY <1>1, <2>1, <2>2, <2>3, <2>4, LibraryStep
<1>4. CASE Becomes(h, Idle) /\ UNCHANGED libVars
  BY <1>1, <1>4, QuietJob DEF JobFits, Idle, libVars
<1>5. CASE jobs[h].op = "group" /\ GroupDeleted(jobs[h].group) /\ Done(h)
  BY <1>3, <1>5 DEF GroupDeleted, Kept
<1>6. CASE ChannelDeleted(jobs[h].clicked.id) /\ Done(h)
  BY <1>3, <1>6 DEF ChannelDeleted
<1> QED BY <1>2, <1>4, <1>5, <1>6 DEF Commit

-----------------------------------------------------------------------------
(* The pages *)

LEMMA PageIds ==
    ASSUME IdInv, NEW t \in Tabs, PageStep(t)
    PROVE  IdInv'
<1> USE DEF libVars, pageVars
<1>1. UNCHANGED <<lib, next>>
  BY DEF PageStep, Subscribe, Snapshot, Deliver, Disconnect, ReadList, Arrive
<1>2. \A row : Fits(row)' <=> Fits(row)
  BY <1>1 DEF Fits
<1>3. UNCHANGED jobs
  BY DEF PageStep, Subscribe, Snapshot, Deliver, Disconnect, ReadList, Arrive
<1>4. (\A h \in Handlers : JobFits(jobs[h])) /\ \A row \in lib : Fits(row)
  BY DEF IdInv
<1>5. (\A h \in Handlers : JobFits(jobs[h])') /\ \A row \in lib' : Fits(row)'
  BY <1>1, <1>3, <1>4 DEF JobFits, Fits
<1>6. CASE UNCHANGED <<list, asks>>
  BY <1>1, <1>3, <1>6, QuietStep DEF IdInv, TypeInv
<1>7. ASSUME TypeInv', \A u \in Tabs : \A row \in list'[u] : Fits(row),
             \A u \in Tabs : \A i \in DOMAIN asks'[u] : \A row \in asks'[u][i].rows : Fits(row)
      PROVE  IdInv'
  BY <1>1, <1>5, <1>7 DEF IdInv, Fits
<1>8. CASE Deliver(t) /\ Ask(t)
  <2>1. UNCHANGED list /\ asks' = [asks EXCEPT ![t] = Append(@, Unread)]
    BY <1>8 DEF Ask
  <2>2. Unread \in Answers /\ Unread.rows = {}
    BY DEF Unread, Answers
  <2>3. asks' \in [Tabs -> Seq(Answers)]
    BY <2>1, <2>2 DEF IdInv, TypeInv
  <2>4. ASSUME NEW u \in Tabs, NEW i \in DOMAIN asks'[u], NEW row \in asks'[u][i].rows
        PROVE  Fits(row)
    <3>1. asks[u] \in Seq(Answers) /\ asks'[u] = IF u = t THEN Append(asks[u], Unread) ELSE asks[u]
      BY <2>1 DEF IdInv, TypeInv
    <3>2. \/ i \in DOMAIN asks[u] /\ asks'[u][i] = asks[u][i]
          \/ asks'[u][i] = Unread
      BY <2>2, <2>4, <3>1
    <3> QED BY <2>2, <2>4, <3>2 DEF IdInv
  <2>5. TypeInv'
    BY <1>1, <1>3, <2>1, <2>3 DEF IdInv, TypeInv
  <2> QED BY <1>7, <2>1, <2>4, <2>5 DEF IdInv
<1>9. ASSUME NEW n \in DOMAIN asks[t], ReadList(t, n)
      PROVE  IdInv'
  <2> DEFINE answer == [read |-> TRUE, rows |-> lib]
  <2>1. UNCHANGED list /\ asks' = [asks EXCEPT ![t][n] = answer]
    BY <1>9 DEF ReadList
  <2>2. answer \in Answers
    BY DEF Answers, IdInv, TypeInv
  <2>3. asks[t] \in Seq(Answers) /\ asks \in [Tabs -> Seq(Answers)]
    BY DEF IdInv, TypeInv
  <2>4. [asks[t] EXCEPT ![n] = answer] \in Seq(Answers)
    BY <2>2, <2>3
  <2>5. asks' = [asks EXCEPT ![t] = [asks[t] EXCEPT ![n] = answer]]
    BY <2>1, <2>3
  <2>6. asks' \in [Tabs -> Seq(Answers)]
    BY <2>3, <2>4, <2>5
  <2>7. ASSUME NEW u \in Tabs, NEW i \in DOMAIN asks'[u], NEW row \in asks'[u][i].rows
        PROVE  Fits(row)
    <3>1. i \in DOMAIN asks[u] /\ (asks'[u][i] = asks[u][i] \/ asks'[u][i] = answer)
      BY <2>3, <2>5, <2>7
    <3> QED BY <1>4, <2>7, <3>1 DEF IdInv
  <2>8. TypeInv'
    BY <1>1, <1>3, <2>1, <2>6 DEF IdInv, TypeInv
  <2> QED BY <1>7, <2>1, <2>7, <2>8 DEF IdInv
<1>10. ASSUME NEW n \in DOMAIN asks[t], Arrive(t, n)
       PROVE  IdInv'
  <2> DEFINE rest == RemoveAt(asks[t], n)
  <2>1. list' = [list EXCEPT ![t] = asks[t][n].rows] /\ asks' = [asks EXCEPT ![t] = rest]
    BY <1>10 DEF Arrive
  <2>2. asks[t] \in Seq(Answers) /\ asks \in [Tabs -> Seq(Answers)] /\ list \in [Tabs -> SUBSET AnyRow]
    BY DEF IdInv, TypeInv
  <2>3. n \in 1..Len(asks[t]) /\ Len(asks[t]) \in Nat
    BY <1>10, <2>2
  <2>4. /\ rest \in Seq(Answers) /\ Len(rest) = Len(asks[t]) - 1
        /\ \A i \in 1..(Len(asks[t]) - 1) : rest[i] = asks[t][IF i < n THEN i ELSE i + 1]
    BY <2>2, <2>3, RemoveAtFacts
  <2> HIDE DEF rest
  <2>5. \A i \in DOMAIN rest : \E k \in DOMAIN asks[t] : rest[i] = asks[t][k]
    <3>1. DOMAIN rest = 1..(Len(asks[t]) - 1) /\ DOMAIN asks[t] = 1..Len(asks[t])
      BY <2>2, <2>3, <2>4
    <3>2. \A i \in 1..(Len(asks[t]) - 1) : (IF i < n THEN i ELSE i + 1) \in 1..Len(asks[t])
      BY <2>3
    <3> QED BY <2>4, <3>1, <3>2
  <2>6. asks[t][n] \in Answers /\ \A row \in asks[t][n].rows : Fits(row)
    BY <2>2, <2>3 DEF IdInv
  <2>7. TypeInv'
    BY <1>1, <1>3, <2>1, <2>2, <2>4, <2>6 DEF IdInv, TypeInv, Answers
  <2>8. \A u \in Tabs : \A row \in list'[u] : Fits(row)
    BY <2>1, <2>2, <2>6 DEF IdInv
  <2>9. ASSUME NEW u \in Tabs, NEW i \in DOMAIN asks'[u], NEW row \in asks'[u][i].rows
         PROVE  Fits(row)
    <3>1. \E k \in DOMAIN asks[u] : asks'[u][i] = asks[u][k]
      BY <2>1, <2>2, <2>5, <2>9
    <3> QED BY <2>9, <3>1 DEF IdInv
  <2> QED BY <1>7, <2>7, <2>8, <2>9
<1> QED BY <1>6, <1>8, <1>9, <1>10 DEF PageStep, Subscribe, Snapshot, Deliver, Disconnect

LEMMA RestartIds ==
    ASSUME IdInv, Restart
    PROVE  IdInv'
<1>1. UNCHANGED <<lib, next, list>> /\ asks' = [t \in Tabs |-> <<>>]
      /\ jobs' = [h \in Handlers |-> Idle]
  BY DEF Restart, libVars
<1>2. TypeInv'
  BY <1>1 DEF IdInv, TypeInv
<1>3. \A h \in Handlers : JobFits(jobs[h])'
  BY <1>1 DEF JobFits, Idle
<1>4. \A t \in Tabs : DOMAIN asks'[t] = {}
  BY <1>1
<1> QED BY <1>1, <1>2, <1>3, <1>4 DEF IdInv, Fits

-----------------------------------------------------------------------------
(* The theorem *)

LEMMA NextIds == IdInv /\ [Next]_vars => IdInv'
<1> SUFFICES ASSUME IdInv, [Next]_vars PROVE IdInv'
  OBVIOUS
<1>1. ASSUME NEW h \in Handlers, ServerStep(h)
      PROVE  IdInv'
  BY <1>1, HandlerIds, CommitIds DEF ServerStep
<1>2. ASSUME NEW h \in Handlers, Asked(h)
      PROVE  IdInv'
  BY <1>2, RequestIds
<1>3. ASSUME NEW t \in Tabs, PageStep(t)
      PROVE  IdInv'
  BY <1>3, PageIds
<1>4. DOMAIN jobs = Handlers
  BY DEF IdInv, TypeInv
<1>5. CASE \E mode \in {"PT", "CT"} : PostText(mode)
  BY <1>4, <1>5, QuietStep DEF PostText, libVars, pageVars
<1>6. CASE RadioReads
  <2>1. UNCHANGED <<lib, next, list, asks>> /\ DOMAIN jobs' = Handlers
        /\ \A h \in Handlers : jobs'[h] = jobs[h] \/ jobs'[h].pc = "load"
    BY <1>6 DEF RadioReads, libVars, pageVars
  <2>2. \A h \in Handlers : jobs'[h] = jobs[h] \/ JobFits(jobs'[h])
    BY <2>1 DEF JobFits
  <2> QED BY <2>1, <2>2, QuietStep
<1>7. CASE Restart
  BY <1>7, RestartIds
<1>8. CASE UNCHANGED vars
  BY <1>4, <1>8, QuietStep DEF vars, libVars, pageVars
<1> QED BY <1>1, <1>2, <1>3, <1>5, <1>6, <1>7, <1>8 DEF Next

\* A request that finds a row finds the one the page showed.
LEMMA SameRowStep == IdInv /\ [Next]_vars => SameRow
<1> SUFFICES ASSUME IdInv, [Next]_vars, NEW h \in Handlers
             PROVE  /\ At(h, "lookup") /\ jobs'[h].pc = "funnel" => jobs'[h].channel = jobs[h].clicked
                    /\ At(h, "db") /\ jobs[h].op = "channel" /\ jobs'[h] # jobs[h]
                          => lib \ lib' \subseteq {jobs[h].clicked}
  BY DEF SameRow
<1>1. DOMAIN jobs = Handlers /\ \A g \in Handlers : JobFits(jobs[g])
  BY DEF IdInv, TypeInv
<1>2. \A g \in Handlers : \A job : Becomes(g, job) => jobs'[h] = IF h = g THEN job ELSE jobs[h]
  BY <1>1 DEF Becomes
<1>3. ASSUME NEW g \in Handlers, Lookup(g) PROVE UNCHANGED lib
  BY <1>3 DEF Lookup, libVars
<1>4. ASSUME Lookup(h), jobs'[h].pc = "funnel"
      PROVE  jobs'[h].channel = jobs[h].clicked
  <2>1. ~Becomes(h, Idle)
    BY <1>2, <1>4 DEF Idle
  <2>2. PICK row \in lib : row.id = jobs[h].clicked.id /\ Becomes(h, [pc |-> "funnel", channel |-> row])
    BY <1>4, <2>1 DEF Lookup
  <2>3. Fits(jobs[h].clicked)
    BY <1>1, <1>4 DEF Lookup, At, JobFits
  <2>4. row = jobs[h].clicked
    BY <2>2, <2>3 DEF Fits
  <2> QED BY <1>2, <2>2, <2>4
<1>5. ASSUME At(h, "lookup"), jobs'[h].pc = "funnel"
      PROVE  Lookup(h)
  <2>1. jobs'[h] # jobs[h]
    BY <1>5 DEF At
  <2>2. ASSUME NEW g \in Handlers, ServerStep(g) \/ Asked(g)
        PROVE  Lookup(h)
    <3>1. PICK job : Becomes(g, job)
      BY <2>2 DEF ServerStep, Asked, GetCtcss, Couple, Lookup, Tuned, NotTuned, Commit, Done, Load, Emit,
                  Abandon, SetCtcss, PostTune, DeleteChannel, SetFilters, DeleteGroup, Import
    <3>2. g = h
      BY <1>2, <2>1, <3>1
    <3>3. jobs[h].pc = "lookup" /\ jobs'[h].pc = "funnel"
      BY <1>5 DEF At
    <3>4. ~Asked(h)
      <4>1. jobs[h] # Idle
        BY <3>3 DEF Idle
      <4>2. Asked(h) => Request(h)
        BY DEF Asked, SetCtcss, PostTune, DeleteChannel, SetFilters, DeleteGroup, Import
      <4> QED BY <4>1, <4>2 DEF Request
    <3>5. ~Abandon(h)
      <4>1. ~Becomes(h, Idle)
        BY <1>2, <3>3 DEF Idle
      <4> QED BY <3>3, <4>1 DEF Abandon, At
    <3> QED BY <2>2, <3>2, <3>3, <3>4, <3>5
        DEF ServerStep, At, GetCtcss, Couple, Tuned, NotTuned, Commit, Load, Emit
  <2>3. ~UNCHANGED jobs
    BY <2>1
  <2>4. ASSUME NEW t \in Tabs PROVE ~PageStep(t)
    BY <2>3 DEF PageStep, Subscribe, Snapshot, Deliver, Disconnect, ReadList, Arrive
  <2>5. ~RadioReads /\ ~Restart
    BY <1>5, <2>1 DEF RadioReads, Restart, Idle
  <2>6. ~\E mode \in {"PT", "CT"} : PostText(mode)
    BY <2>3 DEF PostText
  <2> QED BY <2>2, <2>3, <2>4, <2>5, <2>6 DEF Next, vars
<1>6. ASSUME At(h, "db"), jobs[h].op = "channel", jobs'[h] # jobs[h]
      PROVE  lib \ lib' \subseteq {jobs[h].clicked}
  <2>1. CASE UNCHANGED lib
    BY <2>1
  <2>2. ASSUME NEW g \in Handlers, Commit(g)
        PROVE  lib \ lib' \subseteq {jobs[h].clicked}
    <3>1. PICK job : Becomes(g, job)
      BY <2>2 DEF Commit, Done
    <3>2. g = h
      BY <1>2, <1>6, <3>1
    <3>3. CASE ChannelDeleted(jobs[h].clicked.id)
      <4>1. Fits(jobs[h].clicked)
        BY <1>1, <1>6 DEF At, JobFits
      <4> QED BY <3>3, <4>1 DEF ChannelDeleted, Fits
    <3>4. CASE UNCHANGED libVars
      BY <3>4 DEF libVars
    <3> QED BY <1>6, <2>2, <3>2, <3>3, <3>4 DEF Commit
  <2>3. ASSUME NEW g \in Handlers, ServerStep(g) \/ Asked(g)
        PROVE  UNCHANGED lib \/ Commit(g)
    BY <2>3 DEF ServerStep, Asked, GetCtcss, Couple, Lookup, Tuned, NotTuned, Load, Emit, Abandon,
                SetCtcss, PostTune, DeleteChannel, SetFilters, DeleteGroup, Import, libVars
  <2>4. ASSUME NEW t \in Tabs, PageStep(t)
        PROVE  UNCHANGED lib
    BY <2>4 DEF PageStep, Subscribe, Snapshot, Deliver, Disconnect, ReadList, Arrive, libVars
  <2>5. CASE RadioReads \/ Restart \/ \E mode \in {"PT", "CT"} : PostText(mode)
    BY <2>1, <2>5 DEF RadioReads, Restart, PostText, libVars
  <2>6. CASE UNCHANGED vars
    BY <2>1, <2>6 DEF vars, libVars
  <2> QED BY <2>1, <2>2, <2>3, <2>4, <2>5, <2>6 DEF Next
<1> QED BY <1>4, <1>5, <1>6

\* IdsAreForever: what a page tunes or deletes by an id is the channel it showed under it,
\* however old its list and whatever was imported and deleted since (db.rs, AUTOINCREMENT).
THEOREM ChannelIdsAreForever == Spec => IdsAreForever
<1>1. Init => IdInv
  BY InitIds
<1>2. IdInv /\ [Next]_vars => IdInv'
  BY NextIds
<1>3. IdInv /\ [Next]_vars => SameRow
  BY SameRowStep
<1>4. IdInv /\ [Next]_vars => [SameRow]_vars
  BY <1>3
<1> QED BY <1>1, <1>2, <1>4, PTL DEF Spec, IdsAreForever, SameRow

-----------------------------------------------------------------------------
(* Coupled.  Of two changes of the tone that do not overlap the later one  *)
(* sends the last X: while a handler has set the tone and not sent its X,  *)
(* the text it will send is right, and afterwards the last X in the line,  *)
(* if it is the server's own, is.                                          *)

Commands == [text : {"PT", "CT"}, by : SUBSET Handlers, own : BOOLEAN]

\* The text mode that the tone needs.
Right(mode) == /\ ctcss.enabled => mode = "CT"
               /\ ~ctcss.enabled /\ ~edge => mode = "PT"

Setting(job) == job.pc \in {"get", "couple"}
Engaged(job) == Setting(job) \/ job.pc = "await"

LastRight == IF line = <<>> THEN coupling => Right(text)
             ELSE line[Len(line)].own => Right(line[Len(line)].text)

\* Whoever is answered by the radio has been waiting for that X, and for no other.
AwaitInv ==
    \A i \in DOMAIN line : \A h \in line[i].by :
        /\ At(h, "await")
        /\ \A j \in DOMAIN line : h \in line[j].by => j = i

ToneInv ==
    /\ DOMAIN jobs = Handlers
    /\ "enabled" \in DOMAIN ctcss
    /\ line \in Seq(Commands)
    /\ \A h \in Handlers : At(h, "couple") => jobs[h].text \in {"PT", "CT"}
    /\ AwaitInv
    /\ ~torn => \A h \in Handlers : At(h, "couple") => Right(jobs[h].text)
    /\ ~torn /\ (\A h \in Handlers : ~Setting(jobs[h])) => LastRight

LEMMA LineFacts ==
    ASSUME ToneInv
    PROVE  /\ \A i \in DOMAIN line : line[i] \in Commands
           /\ \A i \in DOMAIN line : line[i].by \subseteq Handlers
<1>1. line \in Seq(Commands)
  BY DEF ToneInv
<1>2. \A i \in DOMAIN line : line[i] \in Commands
  BY <1>1
<1> QED BY <1>2 DEF Commands

\* The handlers that wait for the radio are left alone.
LEMMA AwaitKept ==
    ASSUME ToneInv, UNCHANGED line,
           \A h \in Handlers : At(h, "await") => jobs'[h] = jobs[h]
    PROVE  AwaitInv'
<1> SUFFICES ASSUME NEW i \in DOMAIN line, NEW h \in line[i].by
             PROVE  /\ At(h, "await")'
                    /\ \A j \in DOMAIN line : h \in line[j].by => j = i
  BY DEF AwaitInv
<1>1. At(h, "await") /\ \A j \in DOMAIN line : h \in line[j].by => j = i
  BY DEF ToneInv, AwaitInv
<1>2. h \in Handlers
  BY LineFacts
<1>3. jobs'[h] = jobs[h]
  BY <1>1, <1>2
<1> QED BY <1>1, <1>3 DEF At

\* Steps that change neither the tone nor a handler that is setting it.
LEMMA QuietTone ==
    ASSUME ToneInv, UNCHANGED <<ctcss, torn, edge, line, text, coupling>>,
           DOMAIN jobs' = Handlers,
           \A h \in Handlers : jobs'[h] = jobs[h] \/ ~(Engaged(jobs[h]) \/ Setting(jobs'[h]))
    PROVE  ToneInv'
<1>1. \A h \in Handlers : At(h, "couple")' => At(h, "couple") /\ jobs'[h] = jobs[h]
  BY DEF At, Setting, Engaged
<1>2. (\A h \in Handlers : ~Setting(jobs'[h])) => \A h \in Handlers : ~Setting(jobs[h])
  BY DEF Setting, Engaged
<1>3. LastRight' = LastRight
  BY DEF LastRight, Right
<1>4. \A h \in Handlers : At(h, "await") => jobs'[h] = jobs[h]
  BY DEF At, Engaged
<1>5. AwaitInv'
  BY <1>4, AwaitKept
<1> QED BY <1>1, <1>2, <1>3, <1>5 DEF ToneInv, Right

LEMMA QuietToneJob ==
    ASSUME ToneInv, UNCHANGED <<ctcss, torn, edge, line, text, coupling>>,
           NEW h \in Handlers, NEW job, Becomes(h, job),
           ~Engaged(jobs[h]), ~Setting(job)
    PROVE  ToneInv'
<1>1. DOMAIN jobs' = Handlers /\ \A g \in Handlers : jobs'[g] = IF g = h THEN job ELSE jobs[g]
  BY DEF ToneInv, Becomes
<1>2. \A g \in Handlers : jobs'[g] = jobs[g] \/ ~(Engaged(jobs[g]) \/ Setting(jobs'[g]))
  BY <1>1
<1> QED BY <1>1, <1>2, QuietTone

\* A new tone, and what its handler goes on to.
LEMMA SetTone ==
    ASSUME ToneInv, NEW h \in Handlers, NEW tone, MixerSet(h, tone),
           UNCHANGED <<line, text, coupling>>,
           NEW job, Becomes(h, job), ~Engaged(jobs[h]), Setting(job),
           job.pc = "couple" => job.text \in {"PT", "CT"} /\ Right(job.text)'
    PROVE  ToneInv'
<1>1. DOMAIN jobs' = Handlers /\ \A g \in Handlers : jobs'[g] = IF g = h THEN job ELSE jobs[g]
  BY DEF ToneInv, Becomes
<1>2. "enabled" \in DOMAIN ctcss'
  BY DEF ToneInv, MixerSet
<1>3. \A g \in Handlers : At(g, "couple")' => jobs'[g].text \in {"PT", "CT"}
  BY <1>1 DEF ToneInv, At
<1>4. ASSUME ~torn', NEW g \in Handlers, At(g, "couple")'
      PROVE  Right(jobs[g].text)'
  <2>1. CASE g = h
    BY <1>1, <1>4, <2>1 DEF At
  <2>2. CASE g # h
    <3>1. jobs[g].pc = "couple"
      BY <1>1, <1>4, <2>2 DEF At
    <3> QED BY <1>4, <2>2, <3>1 DEF MixerSet, Others
  <2> QED BY <2>1, <2>2
<1>5. Setting(jobs'[h])
  BY <1>1
<1>6. \A g \in Handlers : At(g, "await") => jobs'[g] = jobs[g]
  BY <1>1 DEF At, Engaged
<1>7. AwaitInv'
  BY <1>6, AwaitKept
<1> QED BY <1>1, <1>2, <1>3, <1>4, <1>5, <1>7 DEF ToneInv

LEMMA MixerFacts ==
    ASSUME ToneInv, NEW h \in Handlers, NEW tone, MixerSet(h, tone)
    PROVE  ctcss'.enabled <=> Mixes(tone)
<1>1. CASE Mixes(tone)
  BY <1>1 DEF MixerSet
<1>2. CASE ~Mixes(tone)
  <2>1. ctcss' = [ctcss EXCEPT !.enabled = FALSE]
    BY <1>2 DEF MixerSet
  <2>2. ctcss'.enabled = FALSE
    BY <2>1 DEF ToneInv
  <2> QED BY <1>2, <2>2
<1> QED BY <1>1, <1>2

LEMMA TuneTone == ASSUME ToneInv, NEW h \in Handlers, Tuned(h) PROVE ToneInv'
<1>1. PICK tone : tone = ToneOf[jobs[h].channel.name]
  OBVIOUS
<1>2. PICK job : job = [pc |-> "couple", text |-> TextFor(tone # NoTone)]
  OBVIOUS
<1>3. MixerSet(h, tone) /\ Becomes(h, job) /\ UNCHANGED <<line, text, coupling>>
  BY <1>1, <1>2 DEF Tuned, radioVars
<1>4. edge' <=> tone # NoTone /\ ~Mixes(tone)
  BY <1>1, Zenon DEF Tuned
<1>5. ctcss'.enabled <=> Mixes(tone)
  BY <1>3, MixerFacts
<1>6. Mixes(tone) => tone # NoTone
  BY DEF Mixes, NoTone
<1>7. job.pc = "couple" /\ job.text = TextFor(tone # NoTone)
  BY <1>2
<1>8. job.text \in {"PT", "CT"} /\ Right(job.text)'
  <2>1. CASE tone # NoTone
    BY <1>4, <1>5, <1>7, <2>1 DEF TextFor, Right
  <2>2. CASE tone = NoTone
    BY <1>4, <1>5, <1>6, <1>7, <2>2 DEF TextFor, Right
  <2> QED BY <2>1, <2>2
<1>9. Setting(job)
  BY <1>7 DEF Setting
<1>10. ~Engaged(jobs[h])
  BY DEF Tuned, At, Engaged, Setting
<1> QED BY <1>3, <1>8, <1>9, <1>10, SetTone

LEMMA GetTone == ASSUME ToneInv, NEW h \in Handlers, GetCtcss(h) PROVE ToneInv'
<1> DEFINE job == [pc |-> "couple", text |-> TextFor(ctcss.enabled)]
<1>1. /\ At(h, "get") /\ Becomes(h, job)
      /\ UNCHANGED <<ctcss, torn, edge, line, text, coupling>>
  BY DEF GetCtcss, stateVars, radioVars, toneHistory
<1>2. DOMAIN jobs' = Handlers /\ \A g \in Handlers : jobs'[g] = IF g = h THEN job ELSE jobs[g]
  BY <1>1 DEF ToneInv, Becomes
<1>3. job.text \in {"PT", "CT"} /\ Right(job.text) /\ Setting(job)
  BY DEF TextFor, Right, Setting
<1>4. Right(job.text)'= Right(job.text) /\ \A g \in Handlers : Right(jobs[g].text)' = (
         /\ ctcss.enabled => jobs'[g].text = "CT"
         /\ ~ctcss.enabled /\ ~edge => jobs'[g].text = "PT")
  BY <1>1 DEF Right
<1> HIDE DEF job
<1>5. \A g \in Handlers : At(g, "couple")' => g = h \/ (At(g, "couple") /\ jobs'[g] = jobs[g])
  BY <1>2 DEF At
<1>6. Setting(jobs'[h])
  BY <1>2, <1>3
<1>7. \A g \in Handlers : At(g, "await") => jobs'[g] = jobs[g]
  BY <1>1, <1>2 DEF At
<1>8. AwaitInv'
  BY <1>1, <1>7, AwaitKept
<1> QED BY <1>1, <1>2, <1>3, <1>4, <1>5, <1>6, <1>8 DEF ToneInv, Right

\* An X, the server's or an operator's, at the end of the line.
LEMMA LastOfAppend ==
    ASSUME NEW x \in Commands, line \in Seq(Commands)
    PROVE  /\ Append(line, x) \in Seq(Commands)
           /\ Append(line, x) # <<>>
           /\ Append(line, x)[Len(Append(line, x))] = x
           /\ DOMAIN Append(line, x) = DOMAIN line \union {Len(line) + 1}
           /\ Append(line, x)[Len(line) + 1] = x
           /\ \A i \in DOMAIN line : i # Len(line) + 1 /\ Append(line, x)[i] = line[i]
OBVIOUS

LEMMA SendTone == ASSUME ToneInv, NEW h \in Handlers, Couple(h) PROVE ToneInv'
<1>1. PICK x : x = [text |-> jobs[h].text, by |-> {h}, own |-> TRUE]
  OBVIOUS
<1>2. /\ At(h, "couple") /\ Becomes(h, [pc |-> "await"]) /\ line' = Append(line, x)
      /\ UNCHANGED <<ctcss, torn, edge, text, coupling>>
  BY <1>1 DEF Couple, stateVars, toneHistory
<1>3. x \in Commands
  BY <1>1, <1>2 DEF ToneInv, Commands
<1>4. /\ line' \in Seq(Commands) /\ line' # <<>> /\ line'[Len(line')] = x
      /\ DOMAIN line' = DOMAIN line \union {Len(line) + 1}
      /\ line'[Len(line) + 1] = x
      /\ \A i \in DOMAIN line : i # Len(line) + 1 /\ line'[i] = line[i]
  BY <1>2, <1>3, LastOfAppend DEF ToneInv
<1>5. DOMAIN jobs' = Handlers
      /\ \A g \in Handlers : jobs'[g] = IF g = h THEN [pc |-> "await"] ELSE jobs[g]
  BY <1>2 DEF ToneInv, Becomes
<1>6. AwaitInv'
  <2>1. \A i \in DOMAIN line : h \notin line[i].by
    BY <1>2 DEF ToneInv, AwaitInv, At
  <2>2. \A i \in DOMAIN line : line[i].by \subseteq Handlers
    BY LineFacts
  <2>3. x.by = {h}
    BY <1>1
  <2>4. \A i \in DOMAIN line : \A g \in line[i].by : jobs'[g].pc = "await"
    BY <1>5, <2>1, <2>2 DEF ToneInv, AwaitInv, At
  <2>5. jobs'[h].pc = "await"
    BY <1>5
  <2> QED BY <1>4, <2>1, <2>3, <2>4, <2>5 DEF ToneInv, AwaitInv, At
<1>7. \A g \in Handlers : At(g, "couple")' => At(g, "couple") /\ jobs'[g] = jobs[g]
  BY <1>5 DEF At
<1>8. ~torn' => LastRight'
  BY <1>1, <1>2, <1>4 DEF ToneInv, LastRight, Right
<1> QED BY <1>2, <1>4, <1>5, <1>6, <1>7, <1>8 DEF ToneInv, Right

LEMMA TextTone ==
    ASSUME ToneInv, NEW mode \in {"PT", "CT"}, PostText(mode)
    PROVE  ToneInv'
<1>1. PICK x : x = [text |-> mode, by |-> {}, own |-> FALSE]
  OBVIOUS
<1>2. line' = Append(line, x) /\ UNCHANGED <<jobs, ctcss, torn, edge, text, coupling>>
  BY <1>1 DEF PostText, stateVars, toneHistory
<1>3. x \in Commands
  BY <1>1 DEF Commands
<1>4. /\ line' \in Seq(Commands) /\ line' # <<>> /\ line'[Len(line')] = x
      /\ DOMAIN line' = DOMAIN line \union {Len(line) + 1}
      /\ line'[Len(line) + 1] = x
      /\ \A i \in DOMAIN line : i # Len(line) + 1 /\ line'[i] = line[i]
  BY <1>2, <1>3, LastOfAppend DEF ToneInv
<1>5. x.by = {} /\ x.own = FALSE
  BY <1>1
<1>6. AwaitInv'
  BY <1>2, <1>4, <1>5 DEF ToneInv, AwaitInv, At
<1>7. LastRight'
  BY <1>4, <1>5 DEF LastRight
<1> QED BY <1>2, <1>4, <1>6, <1>7 DEF ToneInv, Right, At

LEMMA OnlyHead ==
    ASSUME NEW S, NEW s \in Seq(S), s # <<>>, Tail(s) = <<>>
    PROVE  s[Len(s)] = Head(s)
<1>1. Len(Tail(s)) = Len(s) - 1
  BY HeadTailProperties, Zenon
<1>2. Len(Tail(s)) = 0 /\ Len(s) \in Nat
  BY EmptySeq, LenProperties, Zenon
<1>3. \A n \in Nat : 0 = n - 1 => n = 1
  OBVIOUS
<1>4. Len(s) = 1
  BY <1>1, <1>2, <1>3, Zenon
<1>5. Head(s) = s[1]
  OBVIOUS
<1> QED BY <1>4, <1>5, Zenon

LEMMA ReadTone == ASSUME ToneInv, RadioReads PROVE ToneInv'
<1>1. PICK x : x = Head(line)
  OBVIOUS
<1>2. PICK done \in BOOLEAN : /\ text' = IF done THEN x.text ELSE text
                              /\ coupling' = (done /\ x.own)
  BY <1>1 DEF RadioReads
<1>3. /\ line # <<>> /\ line' = Tail(line) /\ UNCHANGED <<ctcss, torn, edge>>
      /\ jobs' = [h \in Handlers |-> IF h \in x.by THEN [pc |-> "load", kind |-> "ctcss"]
                                     ELSE jobs[h]]
  BY <1>1 DEF RadioReads, stateVars, toneHistory
<1>4. /\ line \in Seq(Commands) /\ Len(line) \in Nat \ {0} /\ x = line[1] /\ x \in Commands
      /\ DOMAIN line = 1..Len(line)
  BY <1>1, <1>3 DEF ToneInv
<1>5. /\ line' \in Seq(Commands) /\ Len(line') = Len(line) - 1
      /\ DOMAIN line' = 1..(Len(line) - 1)
      /\ \A i \in 1..(Len(line) - 1) : line'[i] = line[i + 1]
  BY <1>3, <1>4
<1>6. \A h \in x.by : At(h, "await")
  BY <1>4 DEF ToneInv, AwaitInv
<1>7. AwaitInv'
  <2> SUFFICES ASSUME NEW i \in DOMAIN line', NEW h \in line'[i].by
               PROVE  /\ At(h, "await")'
                      /\ \A j \in DOMAIN line' : h \in line'[j].by => j = i
    BY DEF AwaitInv
  <2>1. i \in 1..(Len(line) - 1) /\ i + 1 \in DOMAIN line /\ i + 1 # 1 /\ h \in line[i + 1].by
    BY <1>4, <1>5
  <2>2. At(h, "await") /\ \A j \in DOMAIN line : h \in line[j].by => j = i + 1
    BY <2>1 DEF ToneInv, AwaitInv
  <2>3. h \notin x.by /\ h \in Handlers
    BY <1>4, <2>1, <2>2, LineFacts
  <2>4. At(h, "await")'
    BY <1>3, <2>2, <2>3 DEF At
  <2>5. \A j \in DOMAIN line' : h \in line'[j].by => j = i
    BY <1>4, <1>5, <2>1, <2>2
  <2> QED BY <2>4, <2>5
<1>8. \A h \in Handlers : Setting(jobs'[h]) <=> Setting(jobs[h])
  BY <1>3, <1>6 DEF Setting, At
<1>9. \A h \in Handlers : At(h, "couple")' => At(h, "couple") /\ jobs'[h] = jobs[h]
  BY <1>3 DEF At
<1>10. LastRight => LastRight'
  <2>1. CASE line' = <<>>
    <3>1. line[Len(line)] = x
      BY <1>1, <1>3, <1>4, <2>1, OnlyHead, Zenon
    <3>2. coupling' => x.own /\ text' = x.text
      <4>1. CASE done
        <5>1. text' = x.text
          BY <1>2, <4>1
        <5>2. coupling' <=> x.own
          BY <1>2, <4>1, Zenon
        <5> QED BY <5>1, <5>2
      <4>2. CASE ~done
        BY <1>2, <4>2, Zenon
      <4> QED BY <4>1, <4>2
    <3> QED BY <1>3, <2>1, <3>1, <3>2 DEF LastRight, Right
  <2>2. CASE line' # <<>>
    <3>1. Len(line') \in Nat \ {0} /\ line'[Len(line')] = line[Len(line)]
      BY <1>4, <1>5, <2>2
    <3> QED BY <1>3, <2>2, <3>1 DEF LastRight, Right
  <2> QED BY <2>1, <2>2
<1> QED BY <1>3, <1>5, <1>7, <1>8, <1>9, <1>10 DEF ToneInv, Right

\* A handler that waited is no longer answered.
LEMMA AbandonTone == ASSUME ToneInv, NEW h \in Handlers, Abandon(h) PROVE ToneInv'
<1>1. UNCHANGED <<ctcss, torn, edge, text, coupling>>
  BY DEF Abandon, stateVars, toneHistory
<1>2. CASE /\ At(h, "await") /\ Becomes(h, Idle)
           /\ line' = [i \in DOMAIN line |-> [line[i] EXCEPT !.by = @ \ {h}]]
  <2>1. DOMAIN jobs' = Handlers /\ \A g \in Handlers : jobs'[g] = IF g = h THEN Idle ELSE jobs[g]
    BY <1>2 DEF ToneInv, Becomes
  <2>2. line \in Seq(Commands) /\ Len(line) \in Nat /\ DOMAIN line = 1..Len(line)
    BY DEF ToneInv
  <2>3. \A i \in DOMAIN line :
            [line[i] EXCEPT !.by = @ \ {h}]
                = [text |-> line[i].text, by |-> line[i].by \ {h}, own |-> line[i].own]
    BY LineFacts DEF Commands
  <2>4. \A i \in DOMAIN line :
            /\ line'[i].text = line[i].text
            /\ line'[i].by = line[i].by \ {h}
            /\ line'[i].own = line[i].own
    BY <1>2, <2>3
  <2>5. line' \in [1..Len(line) -> Commands]
    BY <1>2, <2>2, <2>3, LineFacts DEF Commands
  <2>6. line' \in Seq(Commands) /\ Len(line') = Len(line) /\ DOMAIN line' = DOMAIN line
    <3>1. line' \in Seq(Commands)
      BY <2>2, <2>5, SeqDef
    <3>2. DOMAIN line' = 1..Len(line)
      BY <2>5
    <3> QED BY <2>2, <3>1, <3>2
  <2>7. AwaitInv'
    <3> SUFFICES ASSUME NEW i \in DOMAIN line', NEW g \in line'[i].by
                 PROVE  /\ At(g, "await")'
                        /\ \A j \in DOMAIN line' : g \in line'[j].by => j = i
      BY DEF AwaitInv
    <3>1. i \in DOMAIN line /\ g \in line[i].by /\ g # h
      BY <2>4, <2>6
    <3>2. g \in Handlers
      BY <3>1, LineFacts
    <3>3. At(g, "await") /\ \A j \in DOMAIN line : g \in line[j].by => j = i
      BY <3>1 DEF ToneInv, AwaitInv
    <3>4. \A j \in DOMAIN line' : g \in line'[j].by => g \in line[j].by /\ j \in DOMAIN line
      BY <2>4, <2>6
    <3> QED BY <2>1, <3>1, <3>2, <3>3, <3>4 DEF At
  <2>8. \A g \in Handlers : At(g, "couple")' => At(g, "couple") /\ jobs'[g] = jobs[g]
    BY <2>1 DEF At, Idle
  <2>9. (\A g \in Handlers : ~Setting(jobs'[g])) => \A g \in Handlers : ~Setting(jobs[g])
    BY <1>2, <2>1 DEF Setting, At
  <2>10. LastRight => LastRight'
    <3>1. CASE line = <<>>
      <4>1. line' = <<>>
        BY <2>6, <3>1
      <4> QED BY <1>1, <3>1, <4>1 DEF LastRight, Right
    <3>2. CASE line # <<>>
      <4>1. line' # <<>> /\ Len(line) \in DOMAIN line
        BY <2>2, <2>6, <3>2
      <4>2. line'[Len(line')].own = line[Len(line)].own
            /\ line'[Len(line')].text = line[Len(line)].text
        BY <2>4, <2>6, <4>1
      <4> QED BY <1>1, <3>2, <4>1, <4>2 DEF LastRight, Right
    <3> QED BY <3>1, <3>2
  <2> QED BY <1>1, <2>1, <2>6, <2>7, <2>8, <2>9, <2>10 DEF ToneInv, Right
<1>3. CASE jobs[h].pc \in {"lookup", "funnel"} /\ Becomes(h, Idle) /\ UNCHANGED line
  <2>1. ~Engaged(jobs[h]) /\ ~Setting(Idle)
    BY <1>3 DEF Engaged, Setting, Idle
  <2> QED BY <1>1, <1>3, <2>1, QuietToneJob
<1>4. CASE At(h, "db") /\ Becomes(h, [jobs[h] EXCEPT !.gone = TRUE]) /\ UNCHANGED line
  <2>1. PICK job : job = [jobs[h] EXCEPT !.gone = TRUE]
    OBVIOUS
  <2>2. ~Engaged(jobs[h])
    BY <1>4 DEF At, Engaged, Setting
  <2>3. "pc" \in DOMAIN jobs[h] => job.pc = jobs[h].pc
    BY <2>1
  <2>4. job.pc = jobs[h].pc
    BY <2>1
  <2> QED BY <1>1, <1>4, <2>1, <2>2, <2>4, QuietToneJob DEF At, Setting
<1> QED BY <1>2, <1>3, <1>4 DEF Abandon

LEMMA CtcssTone ==
    ASSUME ToneInv, NEW h \in Handlers, NEW tone, SetCtcss(h, tone)
    PROVE  ToneInv'
<1>1. PICK job : job = [pc |-> "get"]
  OBVIOUS
<1>2. MixerSet(h, tone) /\ Becomes(h, job) /\ UNCHANGED <<line, text, coupling>>
  BY <1>1 DEF SetCtcss, radioVars
<1>3. Setting(job) /\ job.pc # "couple"
  BY <1>1 DEF Setting
<1>4. ~Engaged(jobs[h])
  BY DEF SetCtcss, Request, Idle, Engaged, Setting
<1> QED BY <1>2, <1>3, <1>4, SetTone

\* What a handler does besides the tone.
LEMMA OtherTone ==
    ASSUME ToneInv, NEW h \in Handlers,
           \/ Lookup(h) \/ NotTuned(h) \/ Commit(h) \/ Load(h) \/ Emit(h)
           \/ \E row : PostTune(h, row) \/ DeleteChannel(h, row)
           \/ \E side, f : SetFilters(h, side, f)
           \/ \E group : DeleteGroup(h, group) \/ \E file : Import(h, group, file)
    PROVE  ToneInv'
<1>1. UNCHANGED <<ctcss, torn, edge, line, text, coupling>>
  BY DEF Lookup, NotTuned, Commit, Load, Emit, PostTune, DeleteChannel, SetFilters, DeleteGroup,
         Import, stateVars, radioVars, toneHistory
<1>2. ~Engaged(jobs[h])
  <2>1. jobs[h].pc \in {"lookup", "funnel", "db", "load", "send"} \/ jobs[h] = Idle
    BY DEF Lookup, NotTuned, Commit, Load, Emit, PostTune, DeleteChannel, SetFilters, DeleteGroup,
           Import, Request, At
  <2> QED BY <2>1 DEF Idle, Engaged, Setting
<1>3. \E job : Becomes(h, job) /\ ~Setting(job)
  <2>1. CASE Lookup(h)
    <3>1. ASSUME NEW row, Becomes(h, [pc |-> "funnel", channel |-> row])
          PROVE  \E job : Becomes(h, job) /\ ~Setting(job)
      BY <3>1 DEF Setting
    <3>2. CASE Becomes(h, Idle)
      BY <3>2 DEF Setting, Idle
    <3> QED BY <2>1, <3>1, <3>2 DEF Lookup
  <2>2. CASE NotTuned(h) \/ Emit(h)
    BY <2>2 DEF NotTuned, Emit, Setting, Idle
  <2>3. CASE Load(h)
    BY <2>3 DEF Load, Setting
  <2>4. CASE Commit(h)
    <3>1. CASE Becomes(h, Idle)
      BY <3>1 DEF Setting, Idle
    <3>2. CASE Becomes(h, [pc |-> "send", event |-> [kind |-> "library"]])
      BY <3>2 DEF Setting
    <3>3. CASE Done(h)
      BY <3>1, <3>2, <3>3 DEF Done
    <3> QED BY <2>4, <3>1, <3>3 DEF Commit
  <2>5. CASE \E row : PostTune(h, row) \/ DeleteChannel(h, row)
    BY <2>5 DEF PostTune, DeleteChannel, Setting
  <2>6. CASE \E side, f : SetFilters(h, side, f)
    BY <2>6 DEF SetFilters, Setting
  <2>7. CASE \E group : DeleteGroup(h, group)
    BY <2>7 DEF DeleteGroup, Setting
  <2>8. CASE \E group, file : Import(h, group, file)
    BY <2>8 DEF Import, Setting
  <2> QED BY <2>1, <2>2, <2>3, <2>4, <2>5, <2>6, <2>7, <2>8
<1> QED BY <1>1, <1>2, <1>3, QuietToneJob

LEMMA InitTone == Init => ToneInv
<1> SUFFICES ASSUME Init PROVE ToneInv
  OBVIOUS
<1>1. line = <<>> /\ coupling = FALSE /\ ctcss = MixerOff /\ jobs = [h \in Handlers |-> Idle]
  BY DEF Init
<1>2. \A h \in Handlers : ~At(h, "couple")
  BY <1>1 DEF At, Idle
<1>3. AwaitInv /\ LastRight
  BY <1>1 DEF AwaitInv, LastRight
<1> QED BY <1>1, <1>2, <1>3 DEF ToneInv, MixerOff

LEMMA RestartTone == ASSUME ToneInv, Restart PROVE ToneInv'
<1>1. /\ line' = <<>> /\ coupling' = FALSE /\ ctcss' = MixerOff
      /\ jobs' = [h \in Handlers |-> Idle]
  BY DEF Restart
<1>2. \A h \in Handlers : ~At(h, "couple")'
  BY <1>1 DEF At, Idle
<1>3. AwaitInv' /\ LastRight'
  BY <1>1 DEF AwaitInv, LastRight
<1> QED BY <1>1, <1>2, <1>3 DEF ToneInv, MixerOff

LEMMA NextTone == ToneInv /\ [Next]_vars => ToneInv'
<1> SUFFICES ASSUME ToneInv, [Next]_vars PROVE ToneInv'
  OBVIOUS
<1>1. ASSUME NEW h \in Handlers, ServerStep(h) PROVE ToneInv'
  BY <1>1, GetTone, SendTone, TuneTone, AbandonTone, OtherTone DEF ServerStep
<1>2. ASSUME NEW h \in Handlers, Asked(h) PROVE ToneInv'
  <2>1. CASE \E tone \in Tones : SetCtcss(h, tone)
    BY <2>1, CtcssTone
  <2>2. CASE \E t \in Tabs : \E row \in list[t] : PostTune(h, row) \/ DeleteChannel(h, row)
    BY <2>2, OtherTone
  <2>3. CASE \E side \in Sides, f \in Filters : SetFilters(h, side, f)
    BY <2>3, OtherTone
  <2>4. CASE \E group \in Groups :
                DeleteGroup(h, group) \/ \E file \in Files : Import(h, group, file)
    BY <2>4, OtherTone
  <2> QED BY <1>2, <2>1, <2>2, <2>3, <2>4 DEF Asked
<1>3. ASSUME NEW t \in Tabs, PageStep(t) PROVE ToneInv'
  <2>1. UNCHANGED <<ctcss, torn, edge, line, text, coupling, jobs>>
    BY <1>3 DEF PageStep, Subscribe, Snapshot, Deliver, Disconnect, ReadList, Arrive,
                stateVars, radioVars, toneHistory
  <2> QED BY <2>1, QuietTone DEF ToneInv
<1>4. CASE UNCHANGED vars
  <2>1. UNCHANGED <<ctcss, torn, edge, line, text, coupling, jobs>>
    BY <1>4 DEF vars, stateVars, radioVars, toneHistory
  <2> QED BY <2>1, QuietTone DEF ToneInv
<1> QED BY <1>1, <1>2, <1>3, <1>4, TextTone, ReadTone, RestartTone DEF Next

\* Coupled: once every X has been carried out and the last one was the server's own, the radio
\* is in the text mode that the tone needs, whatever requests raced, failed or were abandoned
\* (main.rs, couple_text_mode_to_ctcss).
THEOREM TextGoesWithTone == Spec => []Coupled
<1>1. Init => ToneInv
  BY InitTone
<1>2. ToneInv /\ [Next]_vars => ToneInv'
  BY NextTone
<1>3. ToneInv => Coupled
  BY DEF ToneInv, LastRight, Right, Coupled, Setting
<1> QED BY <1>1, <1>2, <1>3, PTL DEF Spec

-----------------------------------------------------------------------------
(* TypeOK.  Beside the library and the line to the radio, whose types the  *)
(* invariants above hold, what the handlers carry and what the pages are   *)
(* told.                                                                   *)

ValuesOf(kind) == IF kind = "ctcss" THEN Mixer ELSE Filters
Events == {[kind |-> "library"]} \union UNION {[kind : {k}, value : ValuesOf(k)] : k \in Soft}
Views == {view \in [Soft -> Mixer \union Filters] : \A k \in Soft : view[k] \in ValuesOf(k)}
Connections == {"off", "subscribed", "on"}

JobTyped(job) ==
    /\ job.pc \in {"idle", "get", "couple", "await", "lookup", "funnel", "db", "load", "send"}
    /\ job.pc = "db" => job.gone \in BOOLEAN
    /\ job.pc = "load" => job.kind \in Soft
    /\ job.pc = "send" => job.event \in Events

JobsTyped == DOMAIN jobs = Handlers /\ \A h \in Handlers : JobTyped(jobs[h])

StateTyped ==
    /\ ctcss \in Mixer /\ filters \in [Sides -> Filters]
    /\ text \in {"PT", "CT"}
    /\ loose \in [Kinds -> BOOLEAN]

PagesTyped ==
    /\ conn \in [Tabs -> Connections]
    /\ queue \in [Tabs -> Seq(Events)] /\ \A t \in Tabs : Len(queue[t]) <= Capacity
    /\ told \in [Tabs -> Views]
    /\ missed \in [Tabs -> SUBSET Kinds]
    /\ crossed \in [Tabs -> BOOLEAN]

Typed == JobsTyped /\ StateTyped /\ PagesTyped

LEMMA KindFacts ==
    /\ "ctcss" \in Soft /\ "library" \notin Soft /\ "library" \in Kinds
    /\ Soft \subseteq Kinds
    /\ \A k \in Soft : k = "ctcss" \/ k \in Sides
    /\ \A side \in Sides : side \in Soft /\ side # "ctcss" /\ side # "library"
BY SharedAssumption DEF Soft, Kinds

LEMMA EventFacts ==
    /\ [kind |-> "library"] \in Events
    /\ \A k \in Soft : \A v \in ValuesOf(k) : [kind |-> k, value |-> v] \in Events
    /\ \A e \in Events : /\ e.kind \in Kinds
                         /\ e.kind \in Soft => e.value \in ValuesOf(e.kind)
<1>1. \A k \in Soft : \A v \in ValuesOf(k) : [kind |-> k, value |-> v] \in Events
  BY DEF Events
<1>2. ASSUME NEW e \in Events
      PROVE  e.kind \in Kinds /\ (e.kind \in Soft => e.value \in ValuesOf(e.kind))
  <2>1. CASE e = [kind |-> "library"]
    BY <2>1, KindFacts
  <2>2. CASE e # [kind |-> "library"]
    <3>1. PICK k \in Soft : e \in [kind : {k}, value : ValuesOf(k)]
      BY <2>2 DEF Events
    <3> QED BY <3>1, KindFacts
  <2> QED BY <2>1, <2>2
<1> QED BY <1>1, <1>2 DEF Events

LEMMA MixerTyped ==
    ASSUME NEW h \in Handlers, NEW tone \in Nat, ctcss \in Mixer, MixerSet(h, tone)
    PROVE  ctcss' \in Mixer
<1>1. CASE Mixes(tone)
  <2>1. tone \in 301..2999
    BY <1>1 DEF Mixes
  <2> QED BY <1>1, <2>1 DEF MixerSet, Mixer
<1>2. CASE ~Mixes(tone)
  <2> DEFINE freqs == {0} \union 301..2999
  <2>1. ctcss \in [enabled : BOOLEAN, freq : freqs]
    BY DEF Mixer
  <2> HIDE DEF freqs
  <2>2. [ctcss EXCEPT !.enabled = FALSE] \in [enabled : BOOLEAN, freq : freqs]
    BY <2>1
  <2>3. ctcss' \in [enabled : BOOLEAN, freq : freqs]
    BY <1>2, <2>2 DEF MixerSet
  <2> QED BY <2>3 DEF Mixer, freqs
<1> QED BY <1>1, <1>2

LEMMA CurrentTyped ==
    ASSUME StateTyped, NEW k \in Soft
    PROVE  Current(k) \in ValuesOf(k)
BY KindFacts DEF StateTyped, Current, ValuesOf

LEMMA JobKeepsTypes ==
    ASSUME JobsTyped, NEW h \in Handlers, NEW job, Becomes(h, job), JobTyped(job)
    PROVE  JobsTyped'
BY DEF JobsTyped, Becomes

LEMMA DoneTypes ==
    ASSUME JobsTyped, loose \in [Kinds -> BOOLEAN], NEW h \in Handlers, Done(h)
    PROVE  JobsTyped' /\ loose' \in [Kinds -> BOOLEAN]
<1>1. JobTyped(Idle) /\ JobTyped([pc |-> "send", event |-> [kind |-> "library"]])
  BY EventFacts DEF JobTyped, Idle
<1>2. \E job : Becomes(h, job) /\ JobTyped(job)
  BY <1>1 DEF Done
<1>3. loose' \in [Kinds -> BOOLEAN]
  BY DEF Done
<1> QED BY <1>2, <1>3, JobKeepsTypes

\* What a handler does, but for sending.
LEMMA HandlerTypes ==
    ASSUME IdInv, Typed, NEW h \in Handlers,
           \/ GetCtcss(h) \/ Couple(h) \/ Lookup(h) \/ Tuned(h) \/ NotTuned(h)
           \/ Commit(h) \/ Load(h) \/ Abandon(h)
    PROVE  Typed'
<1>1. StateTyped /\ JobsTyped /\ PagesTyped
  BY DEF Typed
<1>2. PagesTyped'
  <2>1. UNCHANGED <<conn, queue, told, missed, crossed>>
    BY DEF GetCtcss, Couple, Lookup, Tuned, NotTuned, Commit, Load, Abandon, eventVars, pageVars
  <2> QED BY <1>1, <2>1 DEF PagesTyped
<1>3. ASSUME NEW job, Becomes(h, job), JobTyped(job), UNCHANGED <<stateVars, text, loose>>
      PROVE  Typed'
  BY <1>1, <1>2, <1>3, JobKeepsTypes DEF Typed, StateTyped, stateVars
<1>4. JobTyped(Idle)
  BY DEF JobTyped, Idle
<1>5. CASE GetCtcss(h)
  BY <1>3, <1>5 DEF GetCtcss, JobTyped, radioVars
<1>6. CASE Couple(h)
  BY <1>3, <1>6 DEF Couple, JobTyped
<1>7. CASE Lookup(h)
  <2>1. \A row : JobTyped([pc |-> "funnel", channel |-> row])
    BY DEF JobTyped
  <2>2. \E job : Becomes(h, job) /\ JobTyped(job)
    BY <1>4, <1>7, <2>1 DEF Lookup
  <2> QED BY <1>3, <1>7, <2>2 DEF Lookup, radioVars
<1>8. CASE Tuned(h)
  <2>1. jobs[h].channel \in AnyRow
    BY <1>8 DEF Tuned, At, IdInv, JobFits
  <2>2. PICK tone \in Nat : tone = ToneOf[jobs[h].channel.name]
    BY <2>1, SharedAssumption DEF AnyRow
  <2>3. MixerSet(h, tone) /\ UNCHANGED <<filters, text, loose>>
    BY <1>8, <2>2 DEF Tuned, radioVars
  <2>4. StateTyped'
    BY <1>1, <2>3, MixerTyped DEF StateTyped
  <2>5. Becomes(h, [pc |-> "couple", text |-> TextFor(tone # NoTone)])
    BY <1>8, <2>2 DEF Tuned
  <2>6. JobsTyped'
    BY <1>1, <2>5, JobKeepsTypes DEF JobTyped
  <2> QED BY <1>2, <2>4, <2>6 DEF Typed
<1>9. CASE NotTuned(h)
  BY <1>3, <1>4, <1>9 DEF NotTuned, radioVars
<1>10. CASE Commit(h)
  <2>1. UNCHANGED <<stateVars, text>>
    BY <1>10 DEF Commit, radioVars
  <2>2. CASE Done(h)
    BY <1>1, <1>2, <2>1, <2>2, DoneTypes DEF Typed, StateTyped, stateVars
  <2>3. CASE Becomes(h, Idle) /\ UNCHANGED loose
    BY <1>3, <1>4, <2>1, <2>3
  <2> QED BY <1>10, <2>2, <2>3 DEF Commit
<1>11. CASE Load(h)
  <2>1. PICK k \in Soft : k = jobs[h].kind
    BY <1>1, <1>11 DEF Load, At, JobsTyped, JobTyped
  <2>2. Becomes(h, [pc |-> "send", event |-> [kind |-> k, value |-> Current(k)]])
    BY <1>11, <2>1 DEF Load
  <2>3. [kind |-> k, value |-> Current(k)] \in Events
    BY <1>1, CurrentTyped, EventFacts
  <2>4. JobsTyped'
    BY <1>1, <2>2, <2>3, JobKeepsTypes DEF JobTyped
  <2>5. loose' = [loose EXCEPT ![k] = \E g \in Others(h) : At(g, "send") /\ jobs[g].event.kind = k]
    BY <1>11, <2>1 DEF Load
  <2>6. loose' \in [Kinds -> BOOLEAN]
    BY <1>1, <2>5 DEF StateTyped
  <2>7. StateTyped'
    BY <1>1, <1>11, <2>6 DEF Load, StateTyped, stateVars, radioVars
  <2> QED BY <1>2, <2>4, <2>7 DEF Typed
<1>12. CASE Abandon(h)
  <2>1. UNCHANGED <<stateVars, text>>
    BY <1>12 DEF Abandon
  <2>2. loose' \in [Kinds -> BOOLEAN]
    BY <1>1, <1>12 DEF Abandon, StateTyped
  <2>3. StateTyped'
    BY <1>1, <2>1, <2>2 DEF StateTyped, stateVars
  <2>4. \E job : Becomes(h, job) /\ JobTyped(job)
    <3>1. CASE Becomes(h, Idle)
      BY <1>4, <3>1
    <3>2. CASE At(h, "db") /\ Becomes(h, [jobs[h] EXCEPT !.gone = TRUE])
      <4>1. PICK job : job = [jobs[h] EXCEPT !.gone = TRUE]
        OBVIOUS
      <4>2. JobTyped(jobs[h])
        BY <1>1 DEF JobsTyped
      <4>3. job.pc = jobs[h].pc /\ job.kind = jobs[h].kind /\ job.event = jobs[h].event
        BY <4>1
      <4>4. job.gone = TRUE \/ job.gone = jobs[h].gone
        BY <4>1
      <4>5. JobTyped(job)
        BY <3>2, <4>2, <4>3, <4>4 DEF JobTyped, At
      <4> QED BY <3>2, <4>1, <4>5
    <3> QED BY <1>12, <3>1, <3>2 DEF Abandon
  <2>5. JobsTyped'
    BY <1>1, <2>4, JobKeepsTypes
  <2> QED BY <1>2, <2>3, <2>5 DEF Typed
<1> QED BY <1>5, <1>6, <1>7, <1>8, <1>9, <1>10, <1>11, <1>12

LEMMA AskedTypes ==
    ASSUME Typed, NEW h \in Handlers, Asked(h)
    PROVE  Typed'
<1>1. StateTyped /\ JobsTyped /\ PagesTyped
  BY DEF Typed
<1>2. UNCHANGED <<conn, queue, told, missed, crossed, text, loose>>
  BY DEF Asked, SetCtcss, PostTune, DeleteChannel, SetFilters, DeleteGroup, Import,
         eventVars, pageVars, radioVars
<1>3. PagesTyped'
  BY <1>1, <1>2 DEF PagesTyped
<1>4. ASSUME NEW job, Becomes(h, job), JobTyped(job), ctcss' \in Mixer, filters' \in [Sides -> Filters]
      PROVE  Typed'
  BY <1>1, <1>2, <1>3, <1>4, JobKeepsTypes DEF Typed, StateTyped
<1>5. ctcss \in Mixer /\ filters \in [Sides -> Filters]
  BY <1>1 DEF StateTyped
<1>6. ASSUME NEW tone \in Tones, SetCtcss(h, tone) PROVE Typed'
  <2>1. tone \in Nat
    BY SharedAssumption
  <2>2. ctcss' \in Mixer /\ UNCHANGED filters
    BY <1>5, <1>6, <2>1, MixerTyped DEF SetCtcss
  <2> QED BY <1>4, <1>5, <1>6, <2>2 DEF SetCtcss, JobTyped
<1>7. ASSUME NEW row, PostTune(h, row) \/ DeleteChannel(h, row) PROVE Typed'
  BY <1>4, <1>5, <1>7 DEF PostTune, DeleteChannel, JobTyped, stateVars
<1>8. ASSUME NEW side \in Sides, NEW f \in Filters, SetFilters(h, side, f) PROVE Typed'
  BY <1>4, <1>5, <1>8, KindFacts DEF SetFilters, JobTyped
<1>9. ASSUME NEW group, NEW file, DeleteGroup(h, group) \/ Import(h, group, file) PROVE Typed'
  BY <1>4, <1>5, <1>9 DEF DeleteGroup, Import, JobTyped, stateVars
<1> QED BY <1>6, <1>7, <1>8, <1>9 DEF Asked

-----------------------------------------------------------------------------
(* A receiver's backlog *)

\* What broadcast leaves in the backlog of a receiver: the newest events, in order.
LEMMA Backlog ==
    ASSUME NEW q \in Seq(Events), Len(q) <= Capacity, NEW e \in Events,
           NEW r, r = Append(IF Len(q) = Capacity THEN Tail(q) ELSE q, e)
    PROVE  /\ r \in Seq(Events) /\ Len(r) <= Capacity /\ Len(r) >= 1 /\ r[Len(r)] = e
           /\ Len(q) = Capacity
                 => /\ q # <<>> /\ Head(q) = q[1] /\ Head(q) \in Events
                    /\ Len(r) = Len(q) /\ \A i \in 1..(Len(q) - 1) : r[i] = q[i + 1]
           /\ Len(q) # Capacity
                 => Len(r) = Len(q) + 1 /\ \A i \in 1..Len(q) : r[i] = q[i]
<1>1. Capacity \in Nat \ {0} /\ Len(q) \in Nat
  BY SharedAssumption
<1>2. CASE Len(q) = Capacity
  <2>1. q # <<>> /\ Head(q) = q[1] /\ Head(q) \in Events
    BY <1>1, <1>2
  <2>2. PICK s : s = Tail(q)
    OBVIOUS
  <2>3. s \in Seq(Events) /\ Len(s) = Len(q) - 1 /\ \A i \in 1..(Len(q) - 1) : s[i] = q[i + 1]
    BY <1>1, <2>1, <2>2
  <2>4. r = Append(s, e)
    BY <1>2, <2>2
  <2> QED BY <1>1, <1>2, <2>1, <2>3, <2>4
<1>3. CASE Len(q) # Capacity
  <2>1. r = Append(q, e)
    BY <1>3
  <2> QED BY <1>1, <1>3, <2>1
<1> QED BY <1>2, <1>3

LEMMA EmitTypes ==
    ASSUME Typed, NEW h \in Handlers, Emit(h)
    PROVE  Typed'
<1>1. StateTyped /\ JobsTyped /\ PagesTyped
  BY DEF Typed
<1>2. PICK e \in Events : e = jobs[h].event
  BY <1>1 DEF Emit, At, JobsTyped, JobTyped
<1>3. /\ queue' = [t \in Tabs |-> IF conn[t] = "off" THEN <<>>
                                  ELSE Append(IF Full(t) THEN Tail(queue[t]) ELSE queue[t], e)]
      /\ missed' = [t \in Tabs |-> missed[t] \union
                     IF conn[t] = "off" THEN {e.kind} ELSE IF Full(t) THEN {Head(queue[t]).kind} ELSE {}]
      /\ loose' = IF e.kind = "library" THEN [loose EXCEPT !["library"] = FALSE] ELSE loose
      /\ Becomes(h, Idle)
      /\ UNCHANGED <<ctcss, filters, text, conn, told, crossed>>
  BY <1>2 DEF Emit, stateVars, radioVars, pageVars
<1>4. StateTyped'
  BY <1>1, <1>3 DEF StateTyped
<1>5. JobsTyped'
  BY <1>1, <1>3, JobKeepsTypes DEF JobTyped, Idle
<1>6. ASSUME NEW t \in Tabs
      PROVE  /\ queue'[t] \in Seq(Events) /\ Len(queue'[t]) <= Capacity
             /\ missed'[t] \in SUBSET Kinds
  <2>1. queue[t] \in Seq(Events) /\ Len(queue[t]) <= Capacity /\ missed[t] \in SUBSET Kinds
    BY <1>1 DEF PagesTyped
  <2>2. CASE conn[t] = "off"
    <3>1. queue'[t] = <<>> /\ missed'[t] = missed[t] \union {e.kind}
      BY <1>3, <2>2
    <3> QED BY <2>1, <3>1, EventFacts, SharedAssumption
  <2>3. CASE conn[t] # "off"
    <3>1. queue'[t] = Append(IF Len(queue[t]) = Capacity THEN Tail(queue[t]) ELSE queue[t], e)
      BY <1>3, <2>3 DEF Full
    <3>2. Len(queue[t]) = Capacity => Head(queue[t]) \in Events
      BY <2>1, Backlog
    <3>3. missed'[t] \in SUBSET Kinds
      <4>1. CASE Full(t)
        <5>1. missed'[t] = missed[t] \union {Head(queue[t]).kind}
          BY <1>3, <2>3, <4>1
        <5> QED BY <2>1, <3>2, <4>1, <5>1, EventFacts DEF Full
      <4>2. CASE ~Full(t)
        BY <1>3, <2>1, <2>3, <4>2
      <4> QED BY <4>1, <4>2
    <3> QED BY <2>1, <3>1, <3>3, Backlog
  <2> QED BY <2>2, <2>3
<1>7. PagesTyped'
  BY <1>1, <1>3, <1>6 DEF PagesTyped
<1> QED BY <1>4, <1>5, <1>7 DEF Typed

LEMMA PageTypes ==
    ASSUME Typed, NEW t \in Tabs, PageStep(t)
    PROVE  Typed'
<1>1. StateTyped /\ JobsTyped /\ PagesTyped
  BY DEF Typed
<1>2. UNCHANGED <<ctcss, filters, text, loose, jobs>>
  BY DEF PageStep, Subscribe, Snapshot, Deliver, Disconnect, ReadList, Arrive, stateVars, radioVars
<1>3. StateTyped' /\ JobsTyped'
  BY <1>1, <1>2 DEF StateTyped, JobsTyped
<1>4. /\ queue[t] \in Seq(Events) /\ Len(queue[t]) <= Capacity /\ missed[t] \in SUBSET Kinds
      /\ told[t] \in Views
  BY <1>1 DEF PagesTyped
<1>5. CASE Subscribe(t)
  <2>1. conn' = [conn EXCEPT ![t] = "subscribed"] /\ UNCHANGED <<queue, told, missed, crossed>>
    BY <1>5 DEF Subscribe, pageVars
  <2>2. PagesTyped'
    BY <1>1, <2>1 DEF PagesTyped, Connections
  <2> QED BY <1>3, <2>2 DEF Typed
<1>6. CASE Snapshot(t)
  <2>1. PICK view : view = [k \in Soft |-> Current(k)]
    OBVIOUS
  <2>2. /\ conn' = [conn EXCEPT ![t] = "on"] /\ told' = [told EXCEPT ![t] = view]
        /\ missed' = [missed EXCEPT ![t] = @ \intersect {"library"}]
        /\ UNCHANGED <<queue, crossed>>
    BY <1>6, <2>1 DEF Snapshot, pageVars
  <2>3. \A k \in Soft : Current(k) \in ValuesOf(k)
    BY <1>1, CurrentTyped
  <2>4. view \in Views
    BY <2>1, <2>3 DEF Views, ValuesOf
  <2>5. PagesTyped'
    BY <1>1, <2>2, <2>4 DEF PagesTyped, Connections
  <2> QED BY <1>3, <2>5 DEF Typed
<1>7. CASE Deliver(t)
  <2>1. PICK e : e = Head(queue[t])
    OBVIOUS
  <2>2. queue[t] # <<>> /\ e \in Events /\ Tail(queue[t]) \in Seq(Events)
        /\ Len(Tail(queue[t])) <= Capacity
    BY <1>4, <1>7, <2>1, SharedAssumption DEF Deliver
  <2>3. /\ queue' = [queue EXCEPT ![t] = Tail(queue[t])]
        /\ missed' = [missed EXCEPT ![t] = @ \ {e.kind}]
        /\ UNCHANGED conn
    BY <1>1, <1>7, <2>1 DEF Deliver, PagesTyped
  <2>4. told' \in [Tabs -> Views] /\ crossed' \in [Tabs -> BOOLEAN]
    <3>1. CASE e.kind = "library"
      BY <1>1, <1>7, <2>1, <3>1 DEF Deliver, Ask, PagesTyped
    <3>2. CASE e.kind # "library"
      <4>1. told' = [told EXCEPT ![t][e.kind] = e.value] /\ UNCHANGED crossed
        BY <1>7, <2>1, <3>2 DEF Deliver, pageVars
      <4>2. e.kind \in Soft /\ e.value \in ValuesOf(e.kind)
        BY <2>2, <3>2, EventFacts DEF Kinds
      <4>3. [told[t] EXCEPT ![e.kind] = e.value] \in Views
        BY <1>4, <4>2 DEF Views, ValuesOf
      <4>4. told' = [told EXCEPT ![t] = [told[t] EXCEPT ![e.kind] = e.value]]
        BY <1>1, <4>1 DEF PagesTyped
      <4> QED BY <1>1, <4>1, <4>3, <4>4 DEF PagesTyped
    <3> QED BY <3>1, <3>2
  <2>5. PagesTyped'
    BY <1>1, <2>2, <2>3, <2>4 DEF PagesTyped
  <2> QED BY <1>3, <2>5 DEF Typed
<1>8. CASE Disconnect(t)
  <2>1. \A i \in DOMAIN queue[t] : queue[t][i].kind \in Kinds
    BY <1>4, EventFacts
  <2>2. PICK kinds : kinds = {queue[t][i].kind : i \in DOMAIN queue[t]}
    OBVIOUS
  <2>3. /\ conn' = [conn EXCEPT ![t] = "off"] /\ queue' = [queue EXCEPT ![t] = <<>>]
        /\ missed' = [missed EXCEPT ![t] = @ \union kinds]
        /\ UNCHANGED <<told, crossed>>
    BY <1>8, <2>2 DEF Disconnect, pageVars
  <2>4. kinds \subseteq Kinds
    BY <2>1, <2>2
  <2>5. PagesTyped'
    BY <1>1, <2>3, <2>4, SharedAssumption DEF PagesTyped, Connections
  <2> QED BY <1>3, <2>5 DEF Typed
<1>9. ASSUME NEW i \in DOMAIN asks[t], ReadList(t, i) \/ Arrive(t, i)
      PROVE  Typed'
  <2>1. UNCHANGED <<conn, queue, told, missed>> /\ crossed' \in [Tabs -> BOOLEAN]
    BY <1>1, <1>9 DEF ReadList, Arrive, eventVars, PagesTyped
  <2>2. PagesTyped'
    BY <1>1, <2>1 DEF PagesTyped
  <2> QED BY <1>3, <2>2 DEF Typed
<1> QED BY <1>5, <1>6, <1>7, <1>8, <1>9 DEF PageStep

LEMMA InitTypes == Init => Typed
<1> SUFFICES ASSUME Init PROVE Typed
  OBVIOUS
<1>1. /\ ctcss = MixerOff /\ filters = [side \in Sides |-> DefaultFilter] /\ text \in {"PT", "CT"}
      /\ loose = [k \in Kinds |-> FALSE] /\ jobs = [h \in Handlers |-> Idle]
  BY DEF Init
<1>2. StateTyped
  BY <1>1, SharedAssumption DEF StateTyped, Mixer, MixerOff
<1>3. JobsTyped
  BY <1>1 DEF JobsTyped, JobTyped, Idle
<1>4. \A k \in Soft : Current(k) \in ValuesOf(k)
  BY <1>2, CurrentTyped
<1>5. [k \in Soft |-> Current(k)] \in Views
  BY <1>4 DEF Views, ValuesOf
<1>6. PagesTyped
  BY <1>5, SharedAssumption DEF Init, PagesTyped, Connections
<1> QED BY <1>2, <1>3, <1>6 DEF Typed

LEMMA NextTypes == IdInv /\ ToneInv /\ Typed /\ [Next]_vars => Typed'
<1> SUFFICES ASSUME IdInv, ToneInv, Typed, [Next]_vars PROVE Typed'
  OBVIOUS
<1>1. StateTyped /\ JobsTyped /\ PagesTyped
  BY DEF Typed
<1>2. ASSUME NEW h \in Handlers, ServerStep(h) PROVE Typed'
  BY <1>2, HandlerTypes, EmitTypes DEF ServerStep
<1>3. ASSUME NEW h \in Handlers, Asked(h) PROVE Typed'
  BY <1>3, AskedTypes
<1>4. ASSUME NEW t \in Tabs, PageStep(t) PROVE Typed'
  BY <1>4, PageTypes
<1>5. CASE UNCHANGED vars
  BY <1>1, <1>5 DEF vars, Typed, StateTyped, JobsTyped, PagesTyped,
                    stateVars, radioVars, eventVars, pageVars
<1>6. ASSUME NEW mode \in {"PT", "CT"}, PostText(mode) PROVE Typed'
  BY <1>1, <1>6 DEF PostText, Typed, StateTyped, JobsTyped, PagesTyped, stateVars, eventVars, pageVars
<1>7. CASE RadioReads
  <2>1. PICK x \in Commands : x = Head(line)
    BY <1>7 DEF RadioReads, ToneInv
  <2>2. text' \in {"PT", "CT"}
    BY <1>1, <1>7, <2>1 DEF RadioReads, StateTyped, Commands
  <2>3. StateTyped'
    BY <1>1, <1>7, <2>2 DEF RadioReads, StateTyped, stateVars
  <2>4. JobsTyped'
    BY <1>1, <1>7, KindFacts DEF RadioReads, JobsTyped, JobTyped
  <2>5. PagesTyped'
    BY <1>1, <1>7 DEF RadioReads, PagesTyped, eventVars, pageVars
  <2> QED BY <2>3, <2>4, <2>5 DEF Typed
<1>8. CASE Restart
  <2>1. StateTyped'
    BY <1>1, <1>8, SharedAssumption DEF Restart, StateTyped, Mixer, MixerOff
  <2>2. JobsTyped'
    BY <1>8 DEF Restart, JobsTyped, JobTyped, Idle
  <2>3. PagesTyped'
    BY <1>1, <1>8, SharedAssumption DEF Restart, PagesTyped, Connections
  <2> QED BY <2>1, <2>2, <2>3 DEF Typed
<1> QED BY <1>2, <1>3, <1>4, <1>5, <1>6, <1>7, <1>8 DEF Next

\* TypeOK: the mixer only ever holds a tone that it can make, a receiver's backlog never exceeds
\* the broadcast channel, and every row a page shows or waits for was once given its id, for
\* every number of handlers and pages, any tones, filters and imports (main.rs, db.rs).
THEOREM SharedTypeCorrect == Spec => []TypeOK
<1>1. Init => IdInv /\ ToneInv /\ Typed
  BY InitIds, InitTone, InitTypes
<1>2. IdInv /\ ToneInv /\ Typed /\ [Next]_vars => (IdInv /\ ToneInv /\ Typed)'
  BY NextIds, NextTone, NextTypes
<1>3. IdInv /\ ToneInv /\ Typed => TypeOK
  <2> SUFFICES ASSUME IdInv, ToneInv, Typed PROVE TypeOK
    OBVIOUS
  <2>1. StateTyped /\ JobsTyped /\ PagesTyped /\ TypeInv
    BY DEF Typed, IdInv
  <2>2. \A row \in AnyRow : Fits(row) => row \in Row
    <3>1. next \in Nat \ {0}
      BY <2>1 DEF TypeInv
    <3> QED BY <3>1 DEF AnyRow, Row, Fits
  <2>3. lib \subseteq Row /\ next \in Nat
    BY <2>1, <2>2 DEF IdInv, TypeInv
  <2>4. \A i \in DOMAIN line : line[i].text \in {"PT", "CT"} /\ line[i].by \subseteq Handlers
    BY LineFacts DEF Commands
  <2>5. ASSUME NEW t \in Tabs
        PROVE  list[t] \subseteq Row /\ \A i \in DOMAIN asks[t] : asks[t][i].rows \subseteq Row
    <3>1. list[t] \subseteq AnyRow /\ asks[t] \in Seq(Answers)
      BY <2>1 DEF TypeInv
    <3>2. \A i \in DOMAIN asks[t] : asks[t][i] \in Answers
      BY <3>1
    <3> QED BY <2>2, <3>1, <3>2 DEF IdInv, Answers
  <2>6. ASSUME NEW t \in Tabs
        PROVE  /\ conn[t] \in {"off", "subscribed", "on"} /\ Len(queue[t]) <= Capacity
               /\ told[t]["ctcss"] \in Mixer /\ \A side \in Sides : told[t][side] \in Filters
               /\ missed[t] \subseteq Kinds
    BY <2>1, KindFacts DEF PagesTyped, Connections, Views, ValuesOf
  <2> QED BY <2>1, <2>3, <2>4, <2>5, <2>6 DEF TypeOK, StateTyped, JobsTyped, JobTyped
<1> QED BY <1>1, <1>2, <1>3, PTL DEF Spec

-----------------------------------------------------------------------------
(* PagesAreRight.  It speaks of a system at rest; the invariant follows    *)
(* each piece of news on its way.  A change makes somebody announce it; who *)
(* announces takes a snapshot of the present value and becomes the only     *)
(* sender; what it sends is the last event of that kind in every backlog;   *)
(* and what is last in a backlog is what the page will have been told.      *)
(* A change of the library likewise, but that the event makes the page ask, *)
(* and the last list asked for is read after the change.                    *)

Announces(job, kind) == \/ kind = "ctcss" /\ job.pc \in {"get", "couple", "await"}
                        \/ job.pc = "load" /\ job.kind = kind
Sends(job, kind) == job.pc = "send" /\ job.event.kind = kind

Quiet(kind) == \A h \in Handlers : ~Announces(jobs[h], kind)
Silent(kind) == \A h \in Handlers : ~Sends(jobs[h], kind)

Lacks(q, kind) == \A i \in DOMAIN q : q[i].kind # kind

\* The last event of the kind, if there is one, tells this value.
LastTells(q, kind, value) ==
    \A i \in DOMAIN q :
        q[i].kind = kind /\ (\A j \in DOMAIN q : j > i => q[j].kind # kind) => q[i].value = value

OneSender(kind) ==
    ~loose[kind] =>
        /\ \A h, g \in Handlers : Sends(jobs[h], kind) /\ Sends(jobs[g], kind) => h = g
        /\ Quiet(kind) => \A h \in Handlers :
                             Sends(jobs[h], kind) => jobs[h].event.value = Current(kind)

Hears(t, kind) ==
    /\ LastTells(queue[t], kind, Current(kind))
    /\ conn[t] = "on" /\ kind \notin missed[t] /\ Lacks(queue[t], kind)
          => told[t][kind] = Current(kind)

PagesHear(kind) == ~loose[kind] /\ Quiet(kind) /\ Silent(kind) => \A t \in Tabs : Hears(t, kind)

News(kind) == OneSender(kind) /\ PagesHear(kind)

\* The page shows the library, or will ask for it, or waits for a list that is or will be right.
LastAsk(t) == asks[t][Len(asks[t])]
WillList(t) ==
    \/ ~Lacks(queue[t], "library")
    \/ asks[t] = <<>> /\ list[t] = lib
    \/ asks[t] # <<>> /\ (LastAsk(t).read => LastAsk(t).rows = lib)

Lists(t) == "library" \notin missed[t] /\ ~crossed[t] => WillList(t)
PagesList == ~loose["library"] /\ Silent("library") => \A t \in Tabs : Lists(t)

NothingOff == \A t \in Tabs : conn[t] = "off" => queue[t] = <<>>

PagesInv == (\A kind \in Soft : News(kind)) /\ PagesList /\ NothingOff

\* What a new event, and the loss of the oldest one, does to the last one of each kind.
LEMMA BacklogTells ==
    ASSUME NEW q \in Seq(Events), Len(q) <= Capacity, NEW e \in Events,
           NEW r, r = Append(IF Len(q) = Capacity THEN Tail(q) ELSE q, e),
           NEW kind, NEW value
    PROVE  /\ e.kind = kind => ~Lacks(r, kind) /\ (e.value = value => LastTells(r, kind, value))
           /\ e.kind # kind /\ LastTells(q, kind, value) => LastTells(r, kind, value)
           /\ (Len(q) = Capacity => Head(q).kind # kind) /\ Lacks(r, kind) => Lacks(q, kind)
<1>1. /\ r \in Seq(Events) /\ Len(r) >= 1 /\ r[Len(r)] = e
      /\ Len(q) = Capacity
            => /\ q # <<>> /\ Head(q) = q[1]
               /\ Len(r) = Len(q) /\ \A i \in 1..(Len(q) - 1) : r[i] = q[i + 1]
      /\ Len(q) # Capacity
            => Len(r) = Len(q) + 1 /\ \A i \in 1..Len(q) : r[i] = q[i]
  BY Backlog
<1>2. /\ Len(q) \in Nat /\ Len(r) \in Nat
      /\ DOMAIN q = 1..Len(q) /\ DOMAIN r = 1..Len(r) /\ Len(r) \in DOMAIN r
  BY <1>1
<1> PICK m, n : m = Len(q) /\ n = Len(r)
  OBVIOUS
<1>len. /\ m \in Nat /\ n \in Nat /\ n >= 1
        /\ \A i : i \in DOMAIN q <=> i \in Int /\ 1 <= i /\ i <= m
        /\ \A i : i \in DOMAIN r <=> i \in Int /\ 1 <= i /\ i <= n
        /\ r[n] = e
  BY <1>1, <1>2
<1>3. ASSUME e.kind = kind
      PROVE  ~Lacks(r, kind) /\ (e.value = value => LastTells(r, kind, value))
  <2>1. ~Lacks(r, kind)
    BY <1>1, <1>2, <1>3 DEF Lacks
  <2>2. ASSUME e.value = value, NEW i \in DOMAIN r, r[i].kind = kind,
               \A j \in DOMAIN r : j > i => r[j].kind # kind
        PROVE  r[i].value = value
    <3>1. i = n
      BY <1>len, <1>3, <2>2
    <3> QED BY <1>len, <2>2, <3>1
  <2> QED BY <2>1, <2>2 DEF LastTells
<1>4. ASSUME e.kind # kind, LastTells(q, kind, value), NEW i \in DOMAIN r, r[i].kind = kind,
             \A j \in DOMAIN r : j > i => r[j].kind # kind
      PROVE  r[i].value = value
  <2>1. i # n /\ i \in Int /\ 1 <= i /\ i <= n
    BY <1>len, <1>4
  <2>2. CASE Len(q) = Capacity
    <3>1. i \in 1..(Len(q) - 1) /\ i + 1 \in DOMAIN q /\ r[i] = q[i + 1]
      BY <1>1, <1>2, <2>1, <2>2
    <3>2. ASSUME NEW j \in DOMAIN q, j > i + 1 PROVE q[j].kind # kind
      <4>1. j - 1 \in 1..(Len(q) - 1) /\ j - 1 > i /\ (j - 1) + 1 = j
        BY <1>2, <2>1, <3>2
      <4>2. r[j - 1] = q[j] /\ j - 1 \in DOMAIN r
        BY <1>1, <1>2, <2>2, <4>1
      <4> QED BY <1>4, <4>1, <4>2
    <3> QED BY <1>4, <3>1, <3>2 DEF LastTells
  <2>3. CASE Len(q) # Capacity
    <3>len. n = m + 1 /\ \A j \in DOMAIN q : r[j] = q[j] /\ j \in DOMAIN r
      BY <1>len, <1>1, <1>2, <2>3
    <3>1. i \in DOMAIN q /\ r[i] = q[i]
      BY <1>len, <2>1, <3>len
    <3>2. ASSUME NEW j \in DOMAIN q, j > i PROVE q[j].kind # kind
      BY <1>4, <3>len, <3>2
    <3> QED BY <1>4, <3>1, <3>2 DEF LastTells
  <2> QED BY <2>2, <2>3
<1>5. ASSUME Len(q) = Capacity => Head(q).kind # kind, Lacks(r, kind), NEW i \in DOMAIN q
      PROVE  q[i].kind # kind
  <2>1. CASE Len(q) = Capacity
    <3>1. CASE i = 1
      BY <1>1, <1>5, <2>1, <3>1
    <3>2. CASE i # 1
      <4>1. i - 1 \in 1..(Len(q) - 1) /\ (i - 1) + 1 = i
        BY <1>2, <3>2
      <4>2. r[i - 1] = q[i] /\ i - 1 \in DOMAIN r
        BY <1>1, <1>2, <2>1, <4>1
      <4> QED BY <1>5, <4>2 DEF Lacks
    <3> QED BY <3>1, <3>2
  <2>2. CASE Len(q) # Capacity
    <3>1. r[i] = q[i] /\ i \in DOMAIN r
      <4>1. n = m + 1 /\ r[i] = q[i]
        BY <1>1, <1>2, <2>2
      <4> QED BY <1>len, <4>1
    <3> QED BY <1>5, <3>1 DEF Lacks
  <2> QED BY <2>1, <2>2
<1>6. e.kind # kind /\ LastTells(q, kind, value) => LastTells(r, kind, value)
  BY <1>4 DEF LastTells
<1>7. (Len(q) = Capacity => Head(q).kind # kind) /\ Lacks(r, kind) => Lacks(q, kind)
  BY <1>5 DEF Lacks
<1> QED BY <1>3, <1>6, <1>7

\* What the delivery of the oldest event does.
LEMMA DeliveryTells ==
    ASSUME NEW q \in Seq(Events), q # <<>>, NEW r, r = Tail(q), NEW kind, NEW value
    PROVE  /\ LastTells(q, kind, value) => LastTells(r, kind, value)
           /\ Lacks(r, kind) /\ Head(q).kind # kind => Lacks(q, kind)
           /\ Lacks(r, kind) /\ Head(q).kind = kind /\ LastTells(q, kind, value)
                 => Head(q).value = value
<1>1. /\ Len(q) \in Nat /\ Len(q) >= 1 /\ DOMAIN q = 1..Len(q) /\ Head(q) = q[1]
      /\ DOMAIN r = 1..(Len(q) - 1) /\ \A i \in 1..(Len(q) - 1) : r[i] = q[i + 1]
  OBVIOUS
<1>2. \A j \in DOMAIN q : j # 1 => j - 1 \in DOMAIN r /\ r[j - 1] = q[j]
  BY <1>1
<1>3. ASSUME LastTells(q, kind, value), NEW i \in DOMAIN r, r[i].kind = kind,
             \A j \in DOMAIN r : j > i => r[j].kind # kind
      PROVE  r[i].value = value
  <2>1. i + 1 \in DOMAIN q /\ r[i] = q[i + 1] /\ i \in Int /\ 1 <= i
    BY <1>1
  <2>2. ASSUME NEW j \in DOMAIN q, j > i + 1 PROVE q[j].kind # kind
    <3>1. j # 1 /\ j - 1 > i
      BY <1>1, <2>1, <2>2
    <3> QED BY <1>2, <1>3, <3>1
  <2> QED BY <1>3, <2>1, <2>2 DEF LastTells
<1>4. Lacks(r, kind) => \A j \in DOMAIN q : j # 1 => q[j].kind # kind
  BY <1>2 DEF Lacks
<1>5. Lacks(r, kind) /\ Head(q).kind # kind => Lacks(q, kind)
  BY <1>1, <1>4 DEF Lacks
<1>6. Lacks(r, kind) /\ Head(q).kind = kind /\ LastTells(q, kind, value) => Head(q).value = value
  <2>1. 1 \in DOMAIN q /\ \A j \in DOMAIN q : j > 1 => j # 1
    BY <1>1
  <2> QED BY <1>1, <1>4, <2>1 DEF LastTells
<1>7. LastTells(q, kind, value) => LastTells(r, kind, value)
  BY <1>3 DEF LastTells
<1> QED BY <1>5, <1>6, <1>7

-----------------------------------------------------------------------------
(* The news of the tone and of the filters *)

\* A step that touches no page and no sender: it changes nothing of this kind, or leaves somebody
\* who will announce it.
LEMMA NewsKept ==
    ASSUME NEW kind \in Soft, News(kind),
           UNCHANGED <<queue, conn, told, missed>>, loose'[kind] <=> loose[kind],
           \A h \in Handlers : Sends(jobs[h], kind) \/ Sends(jobs'[h], kind) => jobs'[h] = jobs[h],
           \/ \E h \in Handlers : Announces(jobs'[h], kind)
           \/ /\ Current(kind)' = Current(kind)
              /\ \A h \in Handlers : Announces(jobs[h], kind) => Announces(jobs'[h], kind)
    PROVE  News(kind)'
<1>1. /\ \A h \in Handlers : Sends(jobs'[h], kind) => Sends(jobs[h], kind) /\ jobs'[h] = jobs[h]
      /\ Silent(kind)' => Silent(kind)
  BY DEF Silent
<1>2. CASE \E h \in Handlers : Announces(jobs'[h], kind)
  <2>1. ~Quiet(kind)'
    BY <1>2 DEF Quiet
  <2>2. OneSender(kind)'
    BY <1>1, <2>1 DEF News, OneSender
  <2>3. PagesHear(kind)'
    BY <2>1 DEF PagesHear
  <2> QED BY <2>2, <2>3 DEF News
<1>3. CASE /\ Current(kind)' = Current(kind)
           /\ \A h \in Handlers : Announces(jobs[h], kind) => Announces(jobs'[h], kind)
  <2>1. Quiet(kind)' => Quiet(kind)
    BY <1>3 DEF Quiet
  <2>2. OneSender(kind)'
    BY <1>1, <1>3, <2>1 DEF News, OneSender
  <2>3. \A t \in Tabs : Hears(t, kind) => Hears(t, kind)'
    BY <1>3 DEF Hears, LastTells, Lacks
  <2>4. PagesHear(kind)'
    BY <1>1, <2>1, <2>3 DEF News, PagesHear
  <2> QED BY <2>2, <2>4 DEF News
<1> QED BY <1>2, <1>3

\* Steps of one handler, of that sort.
LEMMA JobNews ==
    ASSUME NEW kind \in Soft, News(kind), JobsTyped,
           UNCHANGED <<queue, conn, told, missed>>, loose'[kind] <=> loose[kind],
           NEW h \in Handlers, NEW job, Becomes(h, job),
           ~Sends(jobs[h], kind), ~Sends(job, kind),
           \/ Announces(job, kind)
           \/ Current(kind)' = Current(kind) /\ ~Announces(jobs[h], kind)
    PROVE  News(kind)'
<1>1. \A g \in Handlers : jobs'[g] = IF g = h THEN job ELSE jobs[g]
  BY DEF JobsTyped, Becomes
<1>2. \A g \in Handlers : Sends(jobs[g], kind) \/ Sends(jobs'[g], kind) => jobs'[g] = jobs[g]
  BY <1>1
<1>3. CASE Announces(job, kind)
  <2>1. Announces(jobs'[h], kind)
    BY <1>1, <1>3
  <2> QED BY <1>2, <2>1, NewsKept
<1>4. CASE Current(kind)' = Current(kind) /\ ~Announces(jobs[h], kind)
  <2>1. \A g \in Handlers : Announces(jobs[g], kind) => Announces(jobs'[g], kind)
    BY <1>1, <1>4
  <2> QED BY <1>2, <1>4, <2>1, NewsKept
<1> QED BY <1>3, <1>4

LEMMA AskedNews ==
    ASSUME NEW kind \in Soft, News(kind), JobsTyped, NEW h \in Handlers, Asked(h)
    PROVE  News(kind)'
<1>1. UNCHANGED <<queue, conn, told, missed, loose>> /\ jobs[h] = Idle
  BY DEF Asked, SetCtcss, PostTune, DeleteChannel, SetFilters, DeleteGroup, Import, Request, eventVars
<1>2. ~Sends(Idle, kind) /\ ~Announces(Idle, kind)
  BY DEF Sends, Announces, Idle
<1>3. ASSUME NEW job, Becomes(h, job), job.pc # "send",
             Announces(job, kind) \/ Current(kind)' = Current(kind)
      PROVE  News(kind)'
  BY <1>1, <1>2, <1>3, JobNews DEF Sends
<1>4. ASSUME NEW tone, SetCtcss(h, tone) PROVE News(kind)'
  <2>1. kind = "ctcss" => Announces([pc |-> "get"], kind)
    BY DEF Announces
  <2>2. kind # "ctcss" => Current(kind)' = Current(kind)
    BY <1>4 DEF SetCtcss, Current
  <2> QED BY <1>3, <1>4, <2>1, <2>2 DEF SetCtcss
<1>5. ASSUME NEW side \in Sides, NEW f, SetFilters(h, side, f) PROVE News(kind)'
  <2>1. kind = side => Announces([pc |-> "load", kind |-> side], kind)
    BY DEF Announces
  <2>2. kind # side => Current(kind)' = Current(kind)
    BY <1>5 DEF SetFilters, Current
  <2> QED BY <1>3, <1>5, <2>1, <2>2 DEF SetFilters
<1>6. ASSUME UNCHANGED stateVars PROVE Current(kind)' = Current(kind)
  BY <1>6 DEF stateVars, Current
<1>7. ASSUME NEW row, PostTune(h, row) \/ DeleteChannel(h, row) PROVE News(kind)'
  BY <1>3, <1>6, <1>7 DEF PostTune, DeleteChannel
<1>8. ASSUME NEW group, NEW file, DeleteGroup(h, group) \/ Import(h, group, file) PROVE News(kind)'
  BY <1>3, <1>6, <1>8 DEF DeleteGroup, Import
<1> QED BY <1>4, <1>5, <1>7, <1>8 DEF Asked

LEMMA HandlerNews ==
    ASSUME NEW kind \in Soft, News(kind), Typed, NEW h \in Handlers,
           \/ GetCtcss(h) \/ Couple(h) \/ Lookup(h) \/ Tuned(h) \/ NotTuned(h)
           \/ Commit(h) \/ Abandon(h)
    PROVE  News(kind)'
<1>1. JobsTyped /\ StateTyped
  BY DEF Typed
<1>2. UNCHANGED <<queue, conn, told, missed>>
  BY DEF GetCtcss, Couple, Lookup, Tuned, NotTuned, Commit, Abandon, eventVars
<1>3. jobs[h].pc \notin {"load", "send"}
  BY DEF GetCtcss, Couple, Lookup, Tuned, NotTuned, Commit, Abandon, At
<1>4. ~Sends(jobs[h], kind)
  BY <1>3 DEF Sends
<1>5. ASSUME NEW job, Becomes(h, job), ~Sends(job, kind), loose'[kind] <=> loose[kind],
             Announces(job, kind) \/ (Current(kind)' = Current(kind) /\ ~Announces(jobs[h], kind))
      PROVE  News(kind)'
  BY <1>1, <1>2, <1>4, <1>5, JobNews, KindFacts
<1>6. ~Sends(Idle, kind) /\ ~Sends([pc |-> "send", event |-> [kind |-> "library"]], kind)
  BY KindFacts DEF Sends, Idle
<1>7. ASSUME UNCHANGED stateVars PROVE Current(kind)' = Current(kind)
  BY <1>7 DEF stateVars, Current
<1>8. jobs[h].pc \notin {"get", "couple", "await"} \/ kind # "ctcss" => ~Announces(jobs[h], kind)
  BY <1>3 DEF Announces
<1>9. \A mode : /\ kind = "ctcss" => Announces([pc |-> "couple", text |-> mode], kind)
               /\ ~Sends([pc |-> "couple", text |-> mode], kind)
  BY DEF Announces, Sends
<1>10. CASE GetCtcss(h)
  <2>1. PICK mode : Becomes(h, [pc |-> "couple", text |-> mode])
    BY <1>10 DEF GetCtcss
  <2>2. UNCHANGED <<stateVars, loose>>
    BY <1>10 DEF GetCtcss
  <2> QED BY <1>5, <1>7, <1>8, <1>9, <2>1, <2>2
<1>11. CASE Couple(h)
  <2>1. UNCHANGED <<stateVars, loose>> /\ Becomes(h, [pc |-> "await"])
    BY <1>11 DEF Couple
  <2>2. (kind = "ctcss" => Announces([pc |-> "await"], kind)) /\ ~Sends([pc |-> "await"], kind)
    BY DEF Announces, Sends
  <2> QED BY <1>5, <1>7, <1>8, <2>1, <2>2
<1>12. CASE Lookup(h)
  <2>1. UNCHANGED <<stateVars, loose>> /\ jobs[h].pc = "lookup"
    BY <1>12 DEF Lookup, At
  <2>2. \A row : ~Sends([pc |-> "funnel", channel |-> row], kind)
    BY DEF Sends
  <2>3. \E job : Becomes(h, job) /\ ~Sends(job, kind)
    BY <1>6, <1>12, <2>2 DEF Lookup
  <2> QED BY <1>5, <1>7, <1>8, <2>1, <2>3
<1>13. CASE Tuned(h)
  <2>1. PICK mode : Becomes(h, [pc |-> "couple", text |-> mode])
    BY <1>13 DEF Tuned
  <2>2. UNCHANGED <<filters, loose>> /\ jobs[h].pc = "funnel"
    BY <1>13 DEF Tuned, At
  <2>3. kind # "ctcss" => Current(kind)' = Current(kind)
    BY <2>2 DEF Current
  <2> QED BY <1>5, <1>8, <1>9, <2>1, <2>2, <2>3
<1>14. CASE NotTuned(h)
  <2>1. UNCHANGED <<stateVars, loose>> /\ jobs[h].pc = "funnel" /\ Becomes(h, Idle)
    BY <1>14 DEF NotTuned, At
  <2> QED BY <1>5, <1>6, <1>7, <1>8, <2>1
<1>15. CASE Commit(h)
  <2>1. UNCHANGED stateVars /\ jobs[h].pc = "db"
    BY <1>15 DEF Commit, At
  <2>2. loose'[kind] = loose[kind]
    BY <1>1, <1>15, KindFacts DEF Commit, Done, StateTyped
  <2>3. \E job : Becomes(h, job) /\ ~Sends(job, kind)
    BY <1>6, <1>15 DEF Commit, Done
  <2> QED BY <1>5, <1>7, <1>8, <2>1, <2>2, <2>3
<1>16. CASE Abandon(h)
  <2>1. UNCHANGED stateVars
    BY <1>16 DEF Abandon
  <2>2. CASE At(h, "await") /\ Becomes(h, Idle) /\ loose' = [loose EXCEPT !["ctcss"] = TRUE]
    <3>1. CASE kind = "ctcss"
      <4>1. loose'[kind]
        BY <1>1, <2>2, <3>1, KindFacts DEF StateTyped
      <4> QED BY <4>1 DEF News, OneSender, PagesHear
    <3>2. CASE kind # "ctcss"
      <4>1. loose'[kind] = loose[kind]
        BY <1>1, <2>2, <3>2 DEF StateTyped
      <4> QED BY <1>5, <1>6, <1>7, <1>8, <2>1, <2>2, <3>2, <4>1
    <3> QED BY <3>1, <3>2
  <2>3. CASE jobs[h].pc \in {"lookup", "funnel"} /\ Becomes(h, Idle) /\ UNCHANGED loose
    BY <1>5, <1>6, <1>7, <1>8, <2>1, <2>3
  <2>4. CASE At(h, "db") /\ Becomes(h, [jobs[h] EXCEPT !.gone = TRUE]) /\ UNCHANGED loose
    <3>1. PICK job : job = [jobs[h] EXCEPT !.gone = TRUE]
      OBVIOUS
    <3>2. job.pc = "db"
      BY <2>4, <3>1 DEF At
    <3>3. ~Sends(job, kind)
      BY <3>2 DEF Sends
    <3> QED BY <1>5, <1>7, <1>8, <2>1, <2>4, <3>1, <3>3 DEF At
  <2> QED BY <1>16, <2>2, <2>3, <2>4 DEF Abandon
<1> QED BY <1>10, <1>11, <1>12, <1>13, <1>14, <1>15, <1>16

LEMMA LoadNews ==
    ASSUME NEW kind \in Soft, News(kind), Typed, NEW h \in Handlers, Load(h)
    PROVE  News(kind)'
<1>1. JobsTyped /\ StateTyped
  BY DEF Typed
<1>2. PICK k \in Soft : k = jobs[h].kind
  BY <1>1 DEF Load, At, JobsTyped, JobTyped
<1>3. PICK job : job = [pc |-> "send", event |-> [kind |-> k, value |-> Current(k)]]
  OBVIOUS
<1>4. /\ jobs[h].pc = "load" /\ UNCHANGED <<queue, conn, told, missed, stateVars>>
      /\ jobs' = [jobs EXCEPT ![h] = job]
      /\ loose' = [loose EXCEPT ![k] = \E g \in Others(h) : At(g, "send") /\ jobs[g].event.kind = k]
  BY <1>2, <1>3 DEF Load, At, Becomes, eventVars
<1>5. Current(kind)' = Current(kind)
  BY <1>4 DEF Current, stateVars
<1>6. job.pc = "send" /\ job.event.kind = k /\ job.event.value = Current(k)
  BY <1>3
<1>7. \A g \in Handlers : jobs'[g] = IF g = h THEN job ELSE jobs[g]
  BY <1>1, <1>4 DEF JobsTyped
<1>8. CASE kind # k
  <2>1. ~Sends(jobs[h], kind) /\ ~Sends(job, kind) /\ ~Announces(jobs[h], kind)
    BY <1>2, <1>4, <1>6, <1>8 DEF Sends, Announces
  <2>2. loose'[kind] = loose[kind]
    BY <1>1, <1>4, <1>8 DEF StateTyped
  <2> QED BY <1>1, <1>4, <1>5, <2>1, <2>2, JobNews DEF Becomes
<1>9. CASE kind = k
  <2>1. loose'[kind] <=> \E g \in Others(h) : Sends(jobs[g], kind)
    <3>1. k \in Kinds /\ loose \in [Kinds -> BOOLEAN]
      BY <1>1, KindFacts DEF StateTyped
    <3>2. loose'[k] <=> \E g \in Others(h) : At(g, "send") /\ jobs[g].event.kind = k
      BY <1>4, <3>1
    <3> QED BY <1>9, <3>2 DEF Sends, At
  <2>2. Sends(jobs'[h], kind) /\ jobs'[h].event.value = Current(kind)'
    BY <1>5, <1>6, <1>7, <1>9 DEF Sends
  <2>3. ~loose'[kind] => \A g \in Handlers : Sends(jobs'[g], kind) => g = h
    BY <1>7, <2>1 DEF Others
  <2>4. OneSender(kind)'
    BY <2>2, <2>3 DEF OneSender
  <2>5. PagesHear(kind)'
    BY <2>2 DEF PagesHear, Silent
  <2> QED BY <2>4, <2>5 DEF News
<1> QED BY <1>8, <1>9

LEMMA EmitNews ==
    ASSUME NEW kind \in Soft, News(kind), Typed, NEW h \in Handlers, Emit(h)
    PROVE  News(kind)'
<1>1. JobsTyped /\ StateTyped /\ PagesTyped
  BY DEF Typed
<1>2. PICK e \in Events : e = jobs[h].event
  BY <1>1 DEF Emit, At, JobsTyped, JobTyped
<1>3. /\ queue' = [t \in Tabs |-> IF conn[t] = "off" THEN <<>>
                                  ELSE Append(IF Full(t) THEN Tail(queue[t]) ELSE queue[t], e)]
      /\ missed' = [t \in Tabs |-> missed[t] \union
                     IF conn[t] = "off" THEN {e.kind} ELSE IF Full(t) THEN {Head(queue[t]).kind} ELSE {}]
      /\ jobs[h].pc = "send" /\ jobs' = [jobs EXCEPT ![h] = Idle]
      /\ UNCHANGED <<stateVars, conn, told>>
  BY <1>2 DEF Emit, At, Becomes
<1>4. loose'[kind] = loose[kind]
  <2>1. kind # "library"
    BY KindFacts
  <2> QED BY <1>1, <2>1 DEF Emit, StateTyped
<1>5. Current(kind)' = Current(kind)
  BY <1>3 DEF Current, stateVars
<1>6. \A g \in Handlers : jobs'[g] = IF g = h THEN Idle ELSE jobs[g]
  BY <1>1, <1>3 DEF JobsTyped
<1>7. ~Sends(Idle, kind) /\ ~Announces(Idle, kind) /\ ~Announces(jobs[h], kind)
  BY <1>3 DEF Sends, Announces, Idle
<1>8. Quiet(kind)' => Quiet(kind)
  BY <1>6, <1>7 DEF Quiet
<1>9. \A g \in Handlers : Sends(jobs'[g], kind) => g # h /\ Sends(jobs[g], kind) /\ jobs'[g] = jobs[g]
  BY <1>6, <1>7
<1>10. OneSender(kind)'
  BY <1>4, <1>5, <1>8, <1>9 DEF News, OneSender
<1>11. ASSUME ~loose'[kind], Quiet(kind)', Silent(kind)', NEW t \in Tabs
       PROVE  Hears(t, kind)'
  <2>1. ~loose[kind] /\ Quiet(kind)
    BY <1>4, <1>8, <1>11
  <2>2. CASE conn[t] = "off"
    <3>1. queue'[t] = <<>> /\ conn'[t] # "on"
      BY <1>3, <2>2
    <3>2. DOMAIN queue'[t] = {}
      BY <3>1
    <3> QED BY <3>1, <3>2 DEF Hears, LastTells
  <2>3. CASE conn[t] # "off"
    <3>1. PICK q : q = queue[t]
      OBVIOUS
    <3>2. PICK r : r = Append(IF Len(q) = Capacity THEN Tail(q) ELSE q, e)
      OBVIOUS
    <3>3. q \in Seq(Events) /\ Len(q) <= Capacity
      BY <1>1, <3>1 DEF PagesTyped
    <3>4. queue'[t] = r
      BY <1>3, <2>3, <3>1, <3>2 DEF Full
    <3>5. PICK v : v = Current(kind)
      OBVIOUS
    <3>6. /\ e.kind = kind => ~Lacks(r, kind) /\ (e.value = v => LastTells(r, kind, v))
          /\ e.kind # kind /\ LastTells(q, kind, v) => LastTells(r, kind, v)
          /\ (Len(q) = Capacity => Head(q).kind # kind) /\ Lacks(r, kind) => Lacks(q, kind)
      BY <3>2, <3>3, BacklogTells
    <3>7. CASE e.kind = kind
      <4>1. Sends(jobs[h], kind)
        BY <1>2, <1>3, <3>7 DEF Sends
      <4>2. e.value = v
        BY <1>2, <2>1, <3>5, <4>1 DEF News, OneSender
      <4> QED BY <1>5, <3>4, <3>5, <3>6, <3>7, <4>2 DEF Hears
    <3>8. CASE e.kind # kind
      <4>1. Silent(kind)
        BY <1>2, <1>6, <1>11, <3>8 DEF Silent, Sends
      <4>2. Hears(t, kind)
        BY <2>1, <4>1 DEF News, PagesHear
      <4>3. missed'[t] = missed[t] \union IF Len(q) = Capacity THEN {Head(q).kind} ELSE {}
        BY <1>3, <2>3, <3>1 DEF Full
      <4>4. kind \notin missed'[t] => kind \notin missed[t] /\ (Len(q) = Capacity => Head(q).kind # kind)
        BY <4>3
      <4>5. LastTells(r, kind, v)
        BY <3>1, <3>5, <3>6, <3>8, <4>2 DEF Hears
      <4>6. conn'[t] = "on" /\ kind \notin missed'[t] /\ Lacks(r, kind) => told'[t][kind] = v
        BY <1>3, <3>1, <3>5, <3>6, <4>2, <4>4 DEF Hears
      <4> QED BY <1>5, <3>4, <3>5, <4>5, <4>6 DEF Hears
    <3> QED BY <3>7, <3>8
  <2> QED BY <2>2, <2>3
<1>12. PagesHear(kind)'
  BY <1>11 DEF PagesHear
<1> QED BY <1>10, <1>12 DEF News

\* A step of one page: the others hear what they did.
LEMMA OnePage ==
    ASSUME NEW kind \in Soft, News(kind), NEW t \in Tabs,
           UNCHANGED <<jobs, ctcss, filters, loose>>,
           \A u \in Tabs \ {t} :
               /\ queue'[u] = queue[u] /\ conn'[u] = conn[u]
               /\ missed'[u] = missed[u] /\ told'[u] = told[u],
           Hears(t, kind) => Hears(t, kind)'
    PROVE  News(kind)'
<1>1. Current(kind)' = Current(kind)
  BY DEF Current
<1>2. OneSender(kind)'
  BY <1>1 DEF News, OneSender, Quiet
<1>3. \A u \in Tabs \ {t} : Hears(u, kind) => Hears(u, kind)'
  BY <1>1 DEF Hears
<1>4. PagesHear(kind)'
  BY <1>3 DEF News, PagesHear, Quiet, Silent
<1> QED BY <1>2, <1>4 DEF News

LEMMA PageNews ==
    ASSUME NEW kind \in Soft, News(kind), Typed, NEW t \in Tabs, PageStep(t)
    PROVE  News(kind)'
<1>1. PagesTyped
  BY DEF Typed
<1>2. UNCHANGED <<jobs, ctcss, filters, loose>>
  BY DEF PageStep, Subscribe, Snapshot, Deliver, Disconnect, ReadList, Arrive, stateVars
<1>3. Current(kind)' = Current(kind)
  BY <1>2 DEF Current
<1>4. CASE Subscribe(t)
  <2>1. conn' = [conn EXCEPT ![t] = "subscribed"] /\ UNCHANGED <<queue, told, missed>>
    BY <1>4 DEF Subscribe
  <2>2. conn'[t] = "subscribed" /\ \A u \in Tabs \ {t} : conn'[u] = conn[u]
    BY <1>1, <2>1 DEF PagesTyped
  <2>3. Hears(t, kind) => Hears(t, kind)'
    BY <1>3, <2>1, <2>2 DEF Hears
  <2> QED BY <1>2, <2>1, <2>2, <2>3, OnePage
<1>5. CASE Snapshot(t)
  <2>1. /\ told' = [told EXCEPT ![t] = [k \in Soft |-> Current(k)]]
        /\ conn' = [conn EXCEPT ![t] = "on"]
        /\ missed' = [missed EXCEPT ![t] = @ \intersect {"library"}]
        /\ UNCHANGED queue
    BY <1>5 DEF Snapshot
  <2>2. told'[t][kind] = Current(kind)
        /\ \A u \in Tabs \ {t} : conn'[u] = conn[u] /\ missed'[u] = missed[u] /\ told'[u] = told[u]
    BY <1>1, <2>1 DEF PagesTyped
  <2>3. Hears(t, kind) => Hears(t, kind)'
    BY <1>3, <2>1, <2>2 DEF Hears
  <2> QED BY <1>2, <2>1, <2>2, <2>3, OnePage
<1>6. CASE Deliver(t)
  <2>1. PICK q : q = queue[t]
    OBVIOUS
  <2>2. PICK e : e = Head(q)
    OBVIOUS
  <2>3. PICK r : r = Tail(q)
    OBVIOUS
  <2>4. PICK v : v = Current(kind)
    OBVIOUS
  <2>5. q \in Seq(Events) /\ q # <<>> /\ e \in Events
    BY <1>1, <1>6, <2>1, <2>2 DEF PagesTyped, Deliver
  <2>6. /\ LastTells(q, kind, v) => LastTells(r, kind, v)
        /\ Lacks(r, kind) /\ e.kind # kind => Lacks(q, kind)
        /\ Lacks(r, kind) /\ e.kind = kind /\ LastTells(q, kind, v) => e.value = v
    BY <2>2, <2>3, <2>5, DeliveryTells
  <2>7. /\ queue' = [queue EXCEPT ![t] = Tail(@)] /\ missed' = [missed EXCEPT ![t] = @ \ {e.kind}]
        /\ UNCHANGED conn
        /\ e.kind = "library" => UNCHANGED told
        /\ e.kind # "library" => told' = [told EXCEPT ![t][e.kind] = e.value]
    BY <1>6, <2>1, <2>2 DEF Deliver
  <2>8. /\ queue'[t] = r /\ missed'[t] = missed[t] \ {e.kind}
        /\ \A u \in Tabs \ {t} : /\ queue'[u] = queue[u] /\ missed'[u] = missed[u]
                                 /\ told'[u] = told[u]
    BY <1>1, <2>1, <2>3, <2>7 DEF PagesTyped
  <2>9. told'[t][kind] = IF e.kind = kind THEN e.value ELSE told[t][kind]
    <3>1. told[t] \in [Soft -> Mixer \union Filters]
      BY <1>1 DEF PagesTyped, Views
    <3>2. CASE e.kind = "library"
      BY <2>7, <3>2, KindFacts
    <3>3. CASE e.kind # "library"
      BY <1>1, <2>7, <3>1, <3>3 DEF PagesTyped
    <3> QED BY <3>2, <3>3
  <2>10. ASSUME Hears(t, kind) PROVE Hears(t, kind)'
    <3>1. LastTells(q, kind, v) /\ (conn[t] = "on" /\ kind \notin missed[t] /\ Lacks(q, kind)
                                      => told[t][kind] = v)
      BY <2>1, <2>4, <2>10 DEF Hears
    <3>2. conn'[t] = "on" /\ kind \notin missed'[t] /\ Lacks(r, kind) => told'[t][kind] = v
      BY <2>6, <2>7, <2>8, <2>9, <3>1
    <3> QED BY <1>3, <2>4, <2>6, <2>8, <3>1, <3>2 DEF Hears
  <2> QED BY <1>2, <2>7, <2>8, <2>10, OnePage
<1>7. CASE Disconnect(t)
  <2>1. /\ conn' = [conn EXCEPT ![t] = "off"] /\ queue' = [queue EXCEPT ![t] = <<>>]
        /\ missed' = [missed EXCEPT ![t] = @ \union {queue[t][i].kind : i \in DOMAIN queue[t]}]
        /\ UNCHANGED told
    BY <1>7 DEF Disconnect
  <2>2. /\ conn'[t] = "off" /\ queue'[t] = <<>>
        /\ \A u \in Tabs \ {t} : conn'[u] = conn[u] /\ missed'[u] = missed[u] /\ queue'[u] = queue[u]
    BY <1>1, <2>1 DEF PagesTyped
  <2>3. DOMAIN queue'[t] = {}
    BY <2>2
  <2>4. Hears(t, kind)'
    BY <2>2, <2>3 DEF Hears, LastTells
  <2> QED BY <1>2, <2>1, <2>2, <2>4, OnePage
<1>8. ASSUME NEW i \in DOMAIN asks[t], ReadList(t, i) \/ Arrive(t, i)
      PROVE  News(kind)'
  <2>1. UNCHANGED <<queue, conn, told, missed>>
    BY <1>8 DEF ReadList, Arrive, eventVars
  <2>2. Hears(t, kind) => Hears(t, kind)'
    BY <1>3, <2>1 DEF Hears
  <2> QED BY <1>2, <2>1, <2>2, OnePage
<1> QED BY <1>4, <1>5, <1>6, <1>7, <1>8 DEF PageStep

LEMMA RadioNews ==
    ASSUME NEW kind \in Soft, News(kind), ToneInv, RadioReads
    PROVE  News(kind)'
<1>1. line # <<>> /\ line \in Seq(Commands) /\ UNCHANGED <<queue, conn, told, missed, stateVars, loose>>
  BY DEF RadioReads, ToneInv, eventVars
<1>2. PICK x \in Commands : x = Head(line) /\ x = line[1] /\ 1 \in DOMAIN line
  BY <1>1
<1>3. \A h \in x.by : jobs[h].pc = "await"
  BY <1>2 DEF ToneInv, AwaitInv, At
<1>4. PICK job : job = [pc |-> "load", kind |-> "ctcss"]
  OBVIOUS
<1>5. \A h \in Handlers : jobs'[h] = IF h \in x.by THEN job ELSE jobs[h]
  BY <1>2, <1>4 DEF RadioReads
<1>6. job.pc = "load" /\ job.kind = "ctcss"
  BY <1>4
<1>7. \A h \in Handlers : Sends(jobs[h], kind) \/ Sends(jobs'[h], kind) => jobs'[h] = jobs[h]
  BY <1>3, <1>5, <1>6 DEF Sends
<1>8. \A h \in Handlers : Announces(jobs[h], kind) => Announces(jobs'[h], kind)
  BY <1>3, <1>5, <1>6 DEF Announces
<1>9. Current(kind)' = Current(kind)
  BY <1>1 DEF Current, stateVars
<1> QED BY <1>1, <1>7, <1>8, <1>9, NewsKept

LEMMA RestartNews ==
    ASSUME NEW kind \in Soft, Restart
    PROVE  News(kind)'
<1>1. /\ jobs' = [h \in Handlers |-> Idle] /\ queue' = [t \in Tabs |-> <<>>]
      /\ missed' = [t \in Tabs |-> Kinds] /\ kind \in Kinds
  BY KindFacts DEF Restart
<1>2. \A h \in Handlers : ~Sends(jobs'[h], kind)
  BY <1>1 DEF Sends, Idle
<1>3. \A t \in Tabs : Hears(t, kind)'
  BY <1>1 DEF Hears, LastTells
<1> QED BY <1>2, <1>3 DEF News, OneSender, PagesHear

-----------------------------------------------------------------------------
(* The library's lists *)

\* A step that touches neither the library nor a page, and leaves every announcement of it to be made.
LEMMA ListsKept ==
    ASSUME PagesList, NothingOff,
           UNCHANGED <<lib, list, asks, crossed, conn, queue, missed>>,
           loose'["library"] <=> loose["library"],
           \A h \in Handlers : Sends(jobs[h], "library") => Sends(jobs'[h], "library")
    PROVE  PagesList' /\ NothingOff'
<1>1. Silent("library")' => Silent("library")
  BY DEF Silent
<1>2. \A t \in Tabs : Lists(t) => Lists(t)'
  BY DEF Lists, WillList, LastAsk, Lacks
<1> QED BY <1>1, <1>2 DEF PagesList, NothingOff

\* The same of one handler.
LEMMA JobLists ==
    ASSUME PagesList, NothingOff, JobsTyped,
           UNCHANGED <<lib, list, asks, crossed, conn, queue, missed>>,
           loose'["library"] <=> loose["library"],
           NEW h \in Handlers, NEW job, Becomes(h, job), ~Sends(jobs[h], "library")
    PROVE  PagesList' /\ NothingOff'
<1>1. \A g \in Handlers : jobs'[g] = IF g = h THEN job ELSE jobs[g]
  BY DEF JobsTyped, Becomes
<1>2. \A g \in Handlers : Sends(jobs[g], "library") => Sends(jobs'[g], "library")
  BY <1>1
<1> QED BY <1>2, ListsKept

LEMMA HandlerLists ==
    ASSUME PagesList, NothingOff, Typed, NEW h \in Handlers,
           \/ GetCtcss(h) \/ Couple(h) \/ Lookup(h) \/ Tuned(h) \/ NotTuned(h)
           \/ Load(h) \/ Abandon(h) \/ Asked(h)
    PROVE  PagesList' /\ NothingOff'
<1>1. JobsTyped /\ StateTyped
  BY DEF Typed
<1>2. UNCHANGED <<lib, list, asks, crossed, conn, queue, missed>>
  BY DEF GetCtcss, Couple, Lookup, Tuned, NotTuned, Load, Abandon, Asked, SetCtcss, PostTune,
         DeleteChannel, SetFilters, DeleteGroup, Import, libVars, pageVars, eventVars
<1>3. ~Sends(jobs[h], "library")
  <2>1. jobs[h].pc # "send" \/ jobs[h] = Idle
    BY DEF GetCtcss, Couple, Lookup, Tuned, NotTuned, Load, Abandon, Asked, SetCtcss, PostTune,
           DeleteChannel, SetFilters, DeleteGroup, Import, Request, At
  <2> QED BY <2>1 DEF Sends, Idle
<1>4. loose'["library"] <=> loose["library"]
  <2>1. CASE Load(h)
    <3>1. jobs[h].kind \in Soft /\ jobs[h].kind # "library"
      BY <1>1, <2>1, KindFacts DEF Load, At, JobsTyped, JobTyped
    <3> QED BY <1>1, <2>1, <3>1 DEF Load, StateTyped
  <2>2. CASE Abandon(h)
    <3>1. loose' = [loose EXCEPT !["ctcss"] = TRUE] \/ UNCHANGED loose
      BY <2>2 DEF Abandon
    <3>2. loose'["library"] = loose["library"]
      BY <1>1, <3>1, KindFacts DEF StateTyped
    <3> QED BY <3>2
  <2>3. CASE UNCHANGED loose
    BY <2>3
  <2> QED BY <2>1, <2>2, <2>3 DEF GetCtcss, Couple, Lookup, Tuned, NotTuned, Asked, SetCtcss,
             PostTune, DeleteChannel, SetFilters, DeleteGroup, Import
<1>5. \E job : Becomes(h, job)
  BY DEF GetCtcss, Couple, Lookup, Tuned, NotTuned, Load, Abandon, Asked, SetCtcss, PostTune,
         DeleteChannel, SetFilters, DeleteGroup, Import
<1> QED BY <1>1, <1>2, <1>3, <1>4, <1>5, JobLists

LEMMA CommitLists ==
    ASSUME PagesList, NothingOff, Typed, NEW h \in Handlers, Commit(h)
    PROVE  PagesList' /\ NothingOff'
<1>1. JobsTyped /\ StateTyped
  BY DEF Typed
<1>2. UNCHANGED <<list, asks, crossed, conn, queue, missed>> /\ jobs[h].pc = "db"
  BY DEF Commit, At, pageVars, eventVars
<1>3. CASE Becomes(h, Idle) /\ UNCHANGED <<libVars, loose>>
  <2>1. ~Sends(jobs[h], "library")
    BY <1>2 DEF Sends
  <2> QED BY <1>1, <1>2, <1>3, <2>1, JobLists DEF libVars
<1>4. CASE Done(h)
  <2>1. loose'["library"] \/ ~Silent("library")'
    <3>1. CASE jobs[h].gone
      <4>1. loose'["library"]
        BY <1>1, <1>4, <3>1, KindFacts DEF Done, StateTyped
      <4> QED BY <4>1
    <3>2. CASE ~jobs[h].gone
      <4>1. PICK job : job = [pc |-> "send", event |-> [kind |-> "library"]]
        OBVIOUS
      <4>2. Sends(job, "library") /\ jobs'[h] = job
        BY <1>1, <1>4, <3>2, <4>1 DEF Done, Becomes, JobsTyped, Sends
      <4>3. Sends(jobs'[h], "library")
        BY <4>2
      <4> QED BY <4>3 DEF Silent
    <3> QED BY <3>1, <3>2
  <2> QED BY <1>2, <2>1 DEF PagesList, NothingOff
<1> QED BY <1>3, <1>4 DEF Commit

LEMMA EmitLists ==
    ASSUME PagesList, NothingOff, Typed, NEW h \in Handlers, Emit(h)
    PROVE  PagesList' /\ NothingOff'
<1>1. JobsTyped /\ StateTyped /\ PagesTyped
  BY DEF Typed
<1>2. PICK e \in Events : e = jobs[h].event
  BY <1>1 DEF Emit, At, JobsTyped, JobTyped
<1>3. /\ queue' = [t \in Tabs |-> IF conn[t] = "off" THEN <<>>
                                  ELSE Append(IF Full(t) THEN Tail(queue[t]) ELSE queue[t], e)]
      /\ missed' = [t \in Tabs |-> missed[t] \union
                     IF conn[t] = "off" THEN {e.kind} ELSE IF Full(t) THEN {Head(queue[t]).kind} ELSE {}]
      /\ loose' = IF e.kind = "library" THEN [loose EXCEPT !["library"] = FALSE] ELSE loose
      /\ jobs' = [jobs EXCEPT ![h] = Idle]
      /\ UNCHANGED <<lib, list, asks, crossed, conn>>
  BY <1>2 DEF Emit, Becomes, libVars, pageVars
<1>4. NothingOff'
  BY <1>3 DEF NothingOff
<1>5. ASSUME e.kind # "library", ~loose'["library"], Silent("library")'
      PROVE  ~loose["library"] /\ Silent("library")
  <2>1. ~Sends(jobs[h], "library")
    BY <1>2, <1>5 DEF Sends
  <2>2. \A g \in Handlers : g # h => jobs'[g] = jobs[g]
    BY <1>1, <1>3 DEF JobsTyped
  <2> QED BY <1>3, <1>5, <2>1, <2>2 DEF Silent
<1>6. ASSUME ~loose'["library"], Silent("library")', NEW t \in Tabs,
             "library" \notin missed'[t], ~crossed'[t]
      PROVE  WillList(t)'
  <2>1. CASE conn[t] = "off"
    <3>1. queue[t] = <<>> /\ queue'[t] = <<>> /\ missed'[t] = missed[t] \union {e.kind}
      BY <1>3, <2>1 DEF NothingOff
    <3>2. e.kind # "library" /\ Lists(t)
      BY <1>5, <1>6, <3>1 DEF PagesList
    <3>3. WillList(t)
      BY <1>3, <1>6, <3>1, <3>2 DEF Lists
    <3> QED BY <1>3, <3>1, <3>3 DEF WillList, LastAsk, Lacks
  <2>2. CASE conn[t] # "off"
    <3>1. PICK q : q = queue[t]
      OBVIOUS
    <3>2. PICK r : r = Append(IF Len(q) = Capacity THEN Tail(q) ELSE q, e)
      OBVIOUS
    <3>3. q \in Seq(Events) /\ Len(q) <= Capacity
      BY <1>1, <3>1 DEF PagesTyped
    <3>4. /\ e.kind = "library" => ~Lacks(r, "library")
          /\ (Len(q) = Capacity => Head(q).kind # "library") /\ Lacks(r, "library")
                => Lacks(q, "library")
      BY <3>2, <3>3, BacklogTells
    <3>5. queue'[t] = r /\ missed'[t] = missed[t] \union IF Len(q) = Capacity THEN {Head(q).kind} ELSE {}
      BY <1>3, <2>2, <3>1, <3>2 DEF Full
    <3>6. CASE e.kind = "library"
      BY <3>4, <3>5, <3>6 DEF WillList
    <3>7. CASE e.kind # "library"
      <4>1. "library" \notin missed[t] /\ (Len(q) = Capacity => Head(q).kind # "library")
        BY <1>6, <3>5
      <4>2. Lists(t)
        BY <1>5, <1>6, <3>7 DEF PagesList
      <4>3. WillList(t)
        BY <1>3, <1>6, <4>1, <4>2 DEF Lists
      <4>4. ~Lacks(q, "library") => ~Lacks(r, "library")
        BY <3>4, <4>1
      <4> QED BY <1>3, <3>1, <3>5, <4>3, <4>4 DEF WillList, LastAsk
    <3> QED BY <3>6, <3>7
  <2> QED BY <2>1, <2>2
<1> QED BY <1>4, <1>6 DEF PagesList, Lists

\* A step of one page.
LEMMA OneList ==
    ASSUME PagesList, NothingOff, NEW t \in Tabs,
           UNCHANGED <<jobs, lib, loose>>,
           \A u \in Tabs \ {t} :
               /\ queue'[u] = queue[u] /\ conn'[u] = conn[u] /\ missed'[u] = missed[u]
               /\ asks'[u] = asks[u] /\ list'[u] = list[u] /\ crossed'[u] = crossed[u],
           conn'[t] = "off" => queue'[t] = <<>>,
           Lists(t) => Lists(t)'
    PROVE  PagesList' /\ NothingOff'
<1>1. \A u \in Tabs \ {t} : Lists(u) => Lists(u)'
  BY DEF Lists, WillList, LastAsk, Lacks
<1>2. NothingOff'
  BY DEF NothingOff
<1> QED BY <1>1, <1>2 DEF PagesList, Silent

LEMMA PageLists ==
    ASSUME IdInv, Typed, PagesList, NothingOff, NEW t \in Tabs, PageStep(t)
    PROVE  PagesList' /\ NothingOff'
<1>1. PagesTyped /\ TypeInv
  BY DEF Typed, IdInv
<1>2. UNCHANGED <<jobs, lib, loose>>
  BY DEF PageStep, Subscribe, Snapshot, Deliver, Disconnect, ReadList, Arrive, libVars
<1>3. /\ queue[t] \in Seq(Events) /\ asks[t] \in Seq(Answers)
      /\ Len(asks[t]) \in Nat /\ DOMAIN asks[t] = 1..Len(asks[t])
  BY <1>1 DEF PagesTyped, TypeInv
<1>4. CASE Subscribe(t)
  <2>1. conn' = [conn EXCEPT ![t] = "subscribed"]
        /\ UNCHANGED <<queue, missed, asks, list, crossed>>
    BY <1>4 DEF Subscribe, pageVars
  <2>2. conn'[t] = "subscribed" /\ \A u \in Tabs \ {t} : conn'[u] = conn[u]
    BY <1>1, <2>1 DEF PagesTyped
  <2>3. Lists(t) => Lists(t)'
    BY <1>2, <2>1 DEF Lists, WillList, LastAsk
  <2> QED BY <1>2, <2>1, <2>2, <2>3, OneList
<1>5. CASE Snapshot(t)
  <2>1. /\ conn' = [conn EXCEPT ![t] = "on"]
        /\ missed' = [missed EXCEPT ![t] = @ \intersect {"library"}]
        /\ UNCHANGED <<queue, asks, list, crossed>>
    BY <1>5 DEF Snapshot, pageVars
  <2>2. /\ conn'[t] = "on" /\ missed'[t] = missed[t] \intersect {"library"}
        /\ \A u \in Tabs \ {t} : conn'[u] = conn[u] /\ missed'[u] = missed[u]
    BY <1>1, <2>1 DEF PagesTyped
  <2>3. Lists(t) => Lists(t)'
    BY <1>2, <2>1, <2>2 DEF Lists, WillList, LastAsk
  <2> QED BY <1>2, <2>1, <2>2, <2>3, OneList
<1>6. CASE Disconnect(t)
  <2>1. /\ conn' = [conn EXCEPT ![t] = "off"] /\ queue' = [queue EXCEPT ![t] = <<>>]
        /\ missed' = [missed EXCEPT ![t] = @ \union {queue[t][i].kind : i \in DOMAIN queue[t]}]
        /\ UNCHANGED <<asks, list, crossed>>
    BY <1>6 DEF Disconnect, pageVars
  <2>2. /\ conn'[t] = "off" /\ queue'[t] = <<>>
        /\ missed'[t] = missed[t] \union {queue[t][i].kind : i \in DOMAIN queue[t]}
        /\ \A u \in Tabs \ {t} : conn'[u] = conn[u] /\ missed'[u] = missed[u] /\ queue'[u] = queue[u]
    BY <1>1, <2>1 DEF PagesTyped
  <2>3. "library" \notin missed'[t] => "library" \notin missed[t] /\ Lacks(queue[t], "library")
    BY <2>2 DEF Lacks
  <2>4. Lists(t) => Lists(t)'
    BY <1>2, <2>1, <2>3 DEF Lists, WillList, LastAsk
  <2> QED BY <1>2, <2>1, <2>2, <2>4, OneList
<1>7. CASE Deliver(t)
  <2>1. PICK q : q = queue[t]
    OBVIOUS
  <2>2. PICK e : e = Head(q)
    OBVIOUS
  <2>3. PICK r : r = Tail(q)
    OBVIOUS
  <2>4. q \in Seq(Events) /\ q # <<>>
    BY <1>3, <1>7, <2>1 DEF Deliver
  <2>5. Lacks(r, "library") /\ e.kind # "library" => Lacks(q, "library")
    BY <2>2, <2>3, <2>4, DeliveryTells
  <2>6. /\ queue' = [queue EXCEPT ![t] = Tail(@)] /\ missed' = [missed EXCEPT ![t] = @ \ {e.kind}]
        /\ conn[t] = "on" /\ UNCHANGED <<conn, list>>
        /\ e.kind = "library" => Ask(t)
        /\ e.kind # "library" => UNCHANGED <<asks, crossed>>
    BY <1>7, <2>1, <2>2 DEF Deliver, Ask, pageVars
  <2>7. /\ queue'[t] = r /\ missed'[t] = missed[t] \ {e.kind}
        /\ \A u \in Tabs \ {t} : queue'[u] = queue[u] /\ missed'[u] = missed[u]
    BY <1>1, <2>1, <2>3, <2>6 DEF PagesTyped
  <2>8. CASE e.kind = "library"
    <3>1. asks'[t] = Append(asks[t], Unread)
          /\ \A u \in Tabs \ {t} : asks'[u] = asks[u] /\ crossed'[u] = crossed[u]
      BY <1>1, <2>6, <2>8 DEF Ask, PagesTyped, TypeInv
    <3>2. Unread \in Answers /\ Unread.read = FALSE
      BY DEF Unread, Answers
    <3>3. asks'[t] # <<>> /\ asks'[t][Len(asks'[t])] = Unread
      BY <1>3, <3>1, <3>2
    <3>4. Lists(t)'
      BY <3>2, <3>3 DEF Lists, WillList, LastAsk
    <3> QED BY <1>2, <2>6, <2>7, <3>1, <3>4, OneList
  <2>9. CASE e.kind # "library"
    <3>1. ~Lacks(q, "library") => ~Lacks(r, "library")
      BY <2>5, <2>9
    <3>2. UNCHANGED <<asks, crossed, list>> /\ ("library" \in missed[t] => "library" \in missed'[t])
      BY <2>6, <2>7, <2>9
    <3>3. Lists(t) => Lists(t)'
      BY <1>2, <2>1, <2>7, <3>1, <3>2 DEF Lists, WillList, LastAsk
    <3> QED BY <1>2, <2>6, <2>7, <3>2, <3>3, OneList
  <2> QED BY <2>8, <2>9
<1>8. ASSUME NEW i \in DOMAIN asks[t], ReadList(t, i)
      PROVE  PagesList' /\ NothingOff'
  <2>1. PICK answer : answer = [read |-> TRUE, rows |-> lib]
    OBVIOUS
  <2>2. asks' = [asks EXCEPT ![t][i] = answer] /\ UNCHANGED <<queue, missed, conn, list, crossed>>
    BY <1>8, <2>1 DEF ReadList, eventVars
  <2>3. asks'[t] = [asks[t] EXCEPT ![i] = answer] /\ \A u \in Tabs \ {t} : asks'[u] = asks[u]
    BY <1>1, <2>2 DEF TypeInv
  <2>4. /\ asks[t] # <<>> /\ asks'[t] # <<>> /\ Len(asks'[t]) = Len(asks[t])
        /\ Len(asks[t]) \in DOMAIN asks[t]
    BY <1>3, <2>3
  <2>5. asks'[t][Len(asks[t])] = IF i = Len(asks[t]) THEN answer ELSE asks[t][Len(asks[t])]
    BY <1>3, <2>3, <2>4
  <2>6. Lists(t) => Lists(t)'
    BY <1>2, <2>1, <2>2, <2>4, <2>5 DEF Lists, WillList, LastAsk
  <2>7. conn'[t] = "off" => queue'[t] = <<>>
    BY <2>2 DEF NothingOff
  <2> QED BY <1>2, <2>2, <2>3, <2>6, <2>7, OneList
<1>9. ASSUME NEW i \in DOMAIN asks[t], Arrive(t, i)
      PROVE  PagesList' /\ NothingOff'
  <2>1. PICK rest : rest = RemoveAt(asks[t], i)
    OBVIOUS
  <2>2. /\ asks[t][i].read /\ asks' = [asks EXCEPT ![t] = rest]
        /\ list' = [list EXCEPT ![t] = asks[t][i].rows]
        /\ crossed' = [crossed EXCEPT ![t] = @ \/ i > 1]
        /\ UNCHANGED <<queue, missed, conn>>
    BY <1>1, <1>9, <2>1 DEF Arrive, eventVars, TypeInv
  <2>3. /\ asks'[t] = rest /\ list'[t] = asks[t][i].rows
        /\ \A u \in Tabs \ {t} : asks'[u] = asks[u] /\ list'[u] = list[u] /\ crossed'[u] = crossed[u]
    BY <1>1, <2>2 DEF TypeInv, PagesTyped
  <2>4. crossed'[t] <=> crossed[t] \/ i > 1
    BY <1>1, <2>2 DEF PagesTyped
  <2>5. /\ i \in 1..Len(asks[t]) /\ rest \in Seq(Answers) /\ Len(rest) = Len(asks[t]) - 1
        /\ \A j \in 1..(Len(asks[t]) - 1) : rest[j] = asks[t][IF j < i THEN j ELSE j + 1]
    BY <1>3, <2>1, RemoveAtFacts
  <2>6. ASSUME Lists(t), "library" \notin missed'[t], ~crossed'[t]
        PROVE  WillList(t)'
    <3>1. i = 1 /\ WillList(t)
      BY <1>3, <2>2, <2>4, <2>6 DEF Lists
    <3>2. CASE ~Lacks(queue[t], "library")
      BY <2>2, <3>2 DEF WillList
    <3>3. CASE Lacks(queue[t], "library")
      <4>1. asks[t] # <<>> /\ (LastAsk(t).read => LastAsk(t).rows = lib)
        BY <1>3, <3>1, <3>3 DEF WillList
      <4>2. CASE Len(asks[t]) = 1
        <5>1. rest = <<>>
          BY <2>5, <4>2, EmptySeq
        <5>2. asks[t][i].rows = lib
          BY <2>2, <3>1, <4>1, <4>2 DEF LastAsk
        <5> QED BY <1>2, <2>3, <5>1, <5>2 DEF WillList
      <4>3. CASE Len(asks[t]) # 1
        <5>1. PICK n \in Nat : n = Len(asks[t]) /\ 1 \in 1..n /\ n # 1
          BY <1>3, <2>5, <3>1, <4>3
        <5>2. n - 1 \in 1..(n - 1) /\ (n - 1) + 1 = n /\ ~(n - 1 < 1)
          <6>1. \A m \in Nat : 1 \in 1..m /\ m # 1
                   => m - 1 \in 1..(m - 1) /\ (m - 1) + 1 = m /\ ~(m - 1 < 1)
            OBVIOUS
          <6> QED BY <5>1, <6>1
        <5>3. rest[Len(rest)] = asks[t][Len(asks[t])] /\ rest # <<>>
          BY <2>5, <3>1, <5>1, <5>2
        <5> QED BY <1>2, <2>3, <4>1, <5>3 DEF WillList, LastAsk
      <4> QED BY <4>2, <4>3
    <3> QED BY <3>2, <3>3
  <2>7. Lists(t) => Lists(t)'
    BY <2>6 DEF Lists
  <2>8. conn'[t] = "off" => queue'[t] = <<>>
    BY <2>2 DEF NothingOff
  <2> QED BY <1>2, <2>2, <2>3, <2>7, <2>8, OneList
<1> QED BY <1>4, <1>5, <1>6, <1>7, <1>8, <1>9 DEF PageStep

LEMMA InitPages == Init => PagesInv
<1> SUFFICES ASSUME Init PROVE PagesInv
  OBVIOUS
<1>1. /\ jobs = [h \in Handlers |-> Idle] /\ queue = [t \in Tabs |-> <<>>]
      /\ asks = [t \in Tabs |-> <<Unread>>] /\ conn = [t \in Tabs |-> "off"]
  BY DEF Init
<1>2. \A h \in Handlers, kind \in Soft : ~Sends(jobs[h], kind)
  BY <1>1 DEF Sends, Idle
<1>3. \A t \in Tabs, kind \in Soft : Hears(t, kind)
  BY <1>1 DEF Hears, LastTells
<1>4. \A kind \in Soft : News(kind)
  BY <1>2, <1>3 DEF News, OneSender, PagesHear
<1>5. \A t \in Tabs : asks[t] # <<>> /\ ~LastAsk(t).read
  BY <1>1 DEF LastAsk, Unread
<1>6. PagesList
  BY <1>5 DEF PagesList, Lists, WillList
<1> QED BY <1>1, <1>4, <1>6 DEF PagesInv, NothingOff

LEMMA NextPages == IdInv /\ ToneInv /\ Typed /\ PagesInv /\ [Next]_vars => PagesInv'
<1> SUFFICES ASSUME IdInv, ToneInv, Typed, PagesInv, [Next]_vars PROVE PagesInv'
  OBVIOUS
<1>1. (\A kind \in Soft : News(kind)) /\ PagesList /\ NothingOff /\ JobsTyped
  BY DEF PagesInv, Typed
<1>2. ASSUME NEW h \in Handlers, ServerStep(h) PROVE PagesInv'
  <2>1. \A kind \in Soft : News(kind)'
    BY <1>1, <1>2, HandlerNews, LoadNews, EmitNews DEF ServerStep
  <2>2. PagesList' /\ NothingOff'
    BY <1>1, <1>2, HandlerLists, CommitLists, EmitLists DEF ServerStep
  <2> QED BY <2>1, <2>2 DEF PagesInv
<1>3. ASSUME NEW h \in Handlers, Asked(h) PROVE PagesInv'
  <2>1. \A kind \in Soft : News(kind)'
    BY <1>1, <1>3, AskedNews
  <2>2. PagesList' /\ NothingOff'
    BY <1>1, <1>3, HandlerLists
  <2> QED BY <2>1, <2>2 DEF PagesInv
<1>4. ASSUME NEW t \in Tabs, PageStep(t) PROVE PagesInv'
  <2>1. \A kind \in Soft : News(kind)'
    BY <1>1, <1>4, PageNews
  <2>2. PagesList' /\ NothingOff'
    BY <1>1, <1>4, PageLists
  <2> QED BY <2>1, <2>2 DEF PagesInv
<1>5. CASE RadioReads
  <2>1. \A kind \in Soft : News(kind)'
    BY <1>1, <1>5, RadioNews
  <2>2. UNCHANGED <<lib, list, asks, crossed, conn, queue, missed, loose>>
    BY <1>5 DEF RadioReads, libVars, pageVars, eventVars
  <2>3. line # <<>> /\ line \in Seq(Commands)
    BY <1>5 DEF RadioReads, ToneInv
  <2>4. \A h \in Head(line).by : jobs[h].pc = "await"
    BY <2>3 DEF ToneInv, AwaitInv, At
  <2>5. \A h \in Handlers : Sends(jobs[h], "library") => jobs'[h] = jobs[h]
    BY <1>5, <2>4 DEF RadioReads, Sends
  <2>6. PagesList' /\ NothingOff'
    BY <1>1, <2>2, <2>5, ListsKept
  <2> QED BY <2>1, <2>6 DEF PagesInv
<1>6. CASE UNCHANGED <<lib, list, asks, crossed, conn, queue, told, missed, jobs, stateVars, loose>>
  <2>1. \A kind \in Soft : News(kind)'
    <3> TAKE kind \in Soft
    <3>1. Current(kind)' = Current(kind)
      BY <1>6 DEF Current, stateVars
    <3> QED BY <1>1, <1>6, <3>1, NewsKept
  <2>2. PagesList' /\ NothingOff'
    BY <1>1, <1>6, ListsKept
  <2> QED BY <2>1, <2>2 DEF PagesInv
<1>7. ASSUME NEW mode \in {"PT", "CT"}, PostText(mode) PROVE PagesInv'
  BY <1>6, <1>7 DEF PostText, libVars, pageVars, eventVars
<1>8. CASE Restart
  <2>1. \A kind \in Soft : News(kind)'
    BY <1>8, RestartNews
  <2>2. queue' = [t \in Tabs |-> <<>>] /\ missed' = [t \in Tabs |-> Kinds] /\ "library" \in Kinds
    BY <1>8, KindFacts DEF Restart
  <2>3. PagesList' /\ NothingOff'
    BY <2>2 DEF PagesList, Lists, NothingOff
  <2> QED BY <2>1, <2>3 DEF PagesInv
<1>9. CASE UNCHANGED vars
  BY <1>6, <1>9 DEF vars, libVars, pageVars, eventVars
<1> QED BY <1>2, <1>3, <1>4, <1>5, <1>7, <1>8, <1>9 DEF Next

\* PagesAreRight: once everything has come to rest, a page that has heard every event shows the
\* tone, the filters and the library that the server has, for every number of handlers and
\* pages, however requests, connections, abandoned requests, commits and restarts interleaved
\* (main.rs, AppState::emit_state, handle_ws_telemetry; channels.rs, channels_changed).
THEOREM PagesHearEverything == Spec => []PagesAreRight
<1>1. Init => IdInv /\ ToneInv /\ Typed /\ PagesInv
  BY InitIds, InitTone, InitTypes, InitPages
<1>2. IdInv /\ ToneInv /\ Typed /\ PagesInv /\ [Next]_vars => (IdInv /\ ToneInv /\ Typed /\ PagesInv)'
  BY NextIds, NextTone, NextTypes, NextPages
<1>3. PagesInv => PagesAreRight
  <2> SUFFICES ASSUME PagesInv PROVE PagesAreRight
    OBVIOUS
  <2>1. ASSUME NEW t \in Tabs, Settled(t), NEW kind \in Kinds
        PROVE  Quiet(kind) /\ Silent(kind) /\ Lacks(queue[t], kind) /\ conn[t] = "on" /\ asks[t] = <<>>
    BY <2>1 DEF Settled, At, Quiet, Silent, Lacks, Announces, Sends
  <2>2. ToldIsTrue
    BY <2>1, KindFacts DEF PagesInv, News, PagesHear, Hears, ToldIsTrue
  <2>3. ListIsCurrent
    BY <2>1, KindFacts DEF PagesInv, PagesList, Lists, WillList, ListIsCurrent
  <2> QED BY <2>2, <2>3 DEF PagesAreRight
<1> QED BY <1>1, <1>2, <1>3, PTL DEF Spec
=============================================================================
