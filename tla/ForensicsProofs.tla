-------------------------- MODULE ForensicsProofs --------------------------
(***************************************************************************)
(* The files of the flight recorder are always such that the post-mortem   *)
(* reads them right.  First what is true of the lines on disk and of those *)
(* about to be written, then the loops of the post-mortem over such files, *)
(* then the properties.                                                    *)
(***************************************************************************)
EXTENDS Forensics, Induction, SequenceTheorems, TLAPS

LineKinds == {"rollover", "header", "prune", "start", "resumed", "sample", "stop", "torn", "junk"}
Lines == [kind : LineKinds, day : Days, session : Sessions, cols : Columns]

\* Line i of file d was written before line j of file e.
Before(d, i, e, j) == d < e \/ (d = e /\ i < j)

\* Sessions follow one another: whatever else than a header is written before a
\* session's first line, and whatever closes one, is of an earlier session.
InOrder(f) ==
    \A d, e \in Days : \A i \in DOMAIN f[d], j \in DOMAIN f[e] : Before(d, i, e, j) =>
        /\ f[d][i].session <= f[e][j].session
        /\ f[e][j].kind = "start" /\ f[d][i].kind # "header" => f[d][i].session < f[e][j].session
        /\ f[d][i].kind = "stop" => f[d][i].session < f[e][j].session

\* A file begins with a session's first line, as far as the post-mortem reads it.
Opens(l) == l.kind \in {"sample", "stop", "torn", "junk"}
Opened(f) ==
    \A d \in Days : \A i \in DOMAIN f[d] : Opens(f[d][i]) =>
        \E h \in DOMAIN f[d] : h < i /\ IsStart(f[d][h])
OpenedOwn(f) ==
    \A d \in Days : \A i \in DOMAIN f[d] : Opens(f[d][i]) =>
        \E h \in DOMAIN f[d] : h < i /\ IsStart(f[d][h]) /\ f[d][h].session = f[d][i].session

\* A "start" stands between line i of file d and line j of file e.
StartBetween(f, d, i, e, j) ==
    \E c \in Days : \E h \in DOMAIN f[c] :
        f[c][h].kind = "start" /\ Before(d, i, c, h) /\ Before(c, h, e, j)
StartAfter(f, d, i) ==
    \E c \in Days : \E h \in DOMAIN f[c] : f[c][h].kind = "start" /\ Before(d, i, c, h)

\* After a session that closed in order nothing is read before a new one starts.
Reopened(f) ==
    \A d, e \in Days : \A i \in DOMAIN f[d], j \in DOMAIN f[e] :
        /\ Before(d, i, e, j)
        /\ f[d][i].kind = "stop"
        /\ Opens(f[e][j]) \/ f[e][j].kind = "resumed"
        => StartBetween(f, d, i, e, j)

\* The same for one session: it is continued after its own start.
OwnStartBetween(f, d, i, e, j) ==
    \E c \in Days : \E h \in DOMAIN f[c] :
        /\ f[c][h].kind = "start" /\ f[c][h].session = f[e][j].session
        /\ Before(d, i, c, h) /\ Before(c, h, e, j)
OwnStartAfter(f, s, d, i) ==
    \E c \in Days : \E h \in DOMAIN f[c] :
        f[c][h].kind = "start" /\ f[c][h].session = s /\ Before(d, i, c, h)
Continued(f) ==
    \A d, e \in Days : \A i \in DOMAIN f[d], j \in DOMAIN f[e] :
        /\ Before(d, i, e, j)
        /\ IsStart(f[d][i]) /\ f[e][j].kind = "resumed"
        /\ f[d][i].session < f[e][j].session
        => OwnStartBetween(f, d, i, e, j)

FilesOK(f) == f \in [Days -> Seq(Lines)] /\ InOrder(f) /\ Opened(f) /\ Reopened(f)
FilesOwn(f) == OpenedOwn(f) /\ Continued(f)

\* The order in which lines are written.
Rank(k) ==
    IF k = "rollover" THEN 1 ELSE IF k = "header" THEN 2 ELSE IF k = "prune" THEN 3
    ELSE IF k = "resumed" THEN 4 ELSE 5
Pending(q, k) == \E i \in DOMAIN q : q[i].kind = k

Types ==
    /\ today \in Days /\ day \in Days \cup {NoDay}
    /\ cur \in 0..MaxSessions /\ cols \in Columns
    /\ running \in BOOLEAN /\ verdict \in BOOLEAN /\ truth \in BOOLEAN
    /\ boot \in Nat \ {0} /\ booted \in [Sessions -> Nat]
    /\ reused \subseteq Sessions
    /\ samples \in 0..MaxSamples

\* What the sampler is about to write.
TodoOK ==
    /\ todo \in Seq(Lines)
    /\ ~running => todo = <<>>
    /\ running => day \in Days /\ day <= today /\ cur \in Sessions
    /\ \A i \in DOMAIN todo :
           /\ todo[i].session = cur /\ todo[i].cols = cols
           /\ todo[i].kind \notin {"torn", "junk"}
           /\ IF todo[i].kind = "rollover" THEN i = 1 /\ todo[i].day < day ELSE todo[i].day = day
    /\ \A i, j \in DOMAIN todo : i < j => Rank(todo[i].kind) < Rank(todo[j].kind)
    /\ Pending(todo, "start") => ~Pending(todo, "resumed") /\ ~Pending(todo, "rollover")
    /\ Pending(todo, "prune") => Pending(todo, "start") \/ Pending(todo, "resumed")
    /\ todo # <<>> => today \in {day, day + 1}

\* The file that is written next; those after it are empty.
WriteDay ==
    IF todo # <<>> /\ todo[1].kind = "rollover" THEN todo[1].day ELSE day
LaterEmpty ==
    /\ \A e \in Days : e > today => files[e] = <<>>
    /\ running => \A e \in Days : e > WriteDay => files[e] = <<>>

\* What is on disk is of this session or an earlier one.
SoFar ==
    \A d \in Days : \A i \in DOMAIN files[d] :
        /\ files[d][i].session <= cur
        /\ running /\ files[d][i].kind = "stop" => files[d][i].session < cur
        /\ Pending(todo, "start") /\ files[d][i].kind # "header" => files[d][i].session < cur

\* Once the first line is written, anything may follow.
Started == running /\ ~Pending(todo, "start")
Ready ==
    /\ Started => \A d \in Days : \A i \in DOMAIN files[d] :
           files[d][i].kind = "stop" => StartAfter(files, d, i)
    /\ Started /\ ~Pending(todo, "resumed") =>
           \E h \in DOMAIN files[day] : IsStart(files[day][h])
ReadyOwn ==
    /\ Started => \A d \in Days : \A i \in DOMAIN files[d] :
           IsStart(files[d][i]) /\ files[d][i].session < cur => OwnStartAfter(files, cur, d, i)
    /\ Started /\ ~Pending(todo, "resumed") =>
           \E h \in DOMAIN files[day] : IsStart(files[day][h]) /\ files[day][h].session = cur

\* The last header of a file has these columns.
LastHeader(f, c) ==
    \E h \in DOMAIN f :
        /\ f[h].kind = "header" /\ f[h].cols = c
        /\ \A j \in DOMAIN f : f[j].kind = "header" => j <= h
HeaderReady == running => Pending(todo, "header") \/ LastHeader(files[day], cols)

\* The invariant, with any faults,
RecorderInv == Types /\ FilesOK(files) /\ TodoOK /\ LaterEmpty /\ SoFar /\ Ready

\* and with none.
NoFaults == Faults = {}
Whole == \A d \in Days : \A i \in DOMAIN files[d] : files[d][i].kind \notin {"torn", "junk"}
HeaderAbove(f, i, c) ==
    \E h \in DOMAIN f :
        /\ h < i /\ f[h].kind = "header" /\ f[h].cols = c
        /\ \A j \in DOMAIN f : f[j].kind = "header" /\ j <= i => j <= h
HeadersAre ==
    \A d \in Days : \A i \in DOMAIN files[d] : files[d][i].kind = "sample" =>
        HeaderAbove(files[d], i, files[d][i].cols)
StrictInv ==
    /\ Whole /\ FilesOwn(files) /\ ReadyOwn /\ HeaderReady /\ HeadersAre
    /\ reused = {} /\ (running => booted[cur] = boot)
    /\ VerdictRight

-----------------------------------------------------------------------------
(* Files that change *)

\* g is f with line l at the end of file d, the last one that is not empty.
Extends(f, g, d, l) ==
    /\ f \in [Days -> Seq(Lines)] /\ d \in Days /\ l \in Lines
    /\ \A e \in Days : e > d => f[e] = <<>>
    /\ g = [f EXCEPT ![d] = Append(f[d], l)]

\* The lines of g are those of f and l, which comes after all of them.
LEMMA LinesOfExtended ==
    ASSUME NEW f, NEW g, NEW d, NEW l, Extends(f, g, d, l)
    PROVE  /\ g \in [Days -> Seq(Lines)]
           /\ Len(f[d]) + 1 \in DOMAIN g[d] /\ g[d][Len(f[d]) + 1] = l
           /\ \A e \in Days : \A i \in DOMAIN f[e] :
                  /\ i \in DOMAIN g[e] /\ g[e][i] = f[e][i] /\ i \in Nat
                  /\ Before(e, i, d, Len(f[d]) + 1) /\ ~Before(d, Len(f[d]) + 1, e, i)
                  /\ ~(e = d /\ i = Len(f[d]) + 1)
           /\ \A e \in Days : \A i \in DOMAIN g[e] :
                  i \in DOMAIN f[e] \/ (e = d /\ i = Len(f[d]) + 1)
           /\ ~Before(d, Len(f[d]) + 1, d, Len(f[d]) + 1)
           /\ Len(f[d]) \in Nat /\ DOMAIN f[d] = 1..Len(f[d])
<1> USE DEF Extends
<1>1. f[d] \in Seq(Lines) /\ Len(f[d]) \in Nat /\ DOMAIN f[d] = 1..Len(f[d])
  OBVIOUS
<1>2. /\ Append(f[d], l) \in Seq(Lines) /\ Len(Append(f[d], l)) = Len(f[d]) + 1
      /\ DOMAIN Append(f[d], l) = 1..(Len(f[d]) + 1)
      /\ Append(f[d], l)[Len(f[d]) + 1] = l
      /\ \A i \in 1..Len(f[d]) : Append(f[d], l)[i] = f[d][i]
  BY <1>1
<1>3. g \in [Days -> Seq(Lines)] /\ g[d] = Append(f[d], l) /\ \A e \in Days : e # d => g[e] = f[e]
  BY <1>2
<1>4. \A e \in Days : e > d => DOMAIN f[e] = {}
  OBVIOUS
<1>5. d \in Int /\ \A e \in Days : e \in Int
  BY DEF Days
<1>6. ASSUME NEW e \in Days, NEW i \in DOMAIN f[e]
      PROVE  /\ i \in DOMAIN g[e] /\ g[e][i] = f[e][i] /\ i \in Nat
             /\ Before(e, i, d, Len(f[d]) + 1) /\ ~Before(d, Len(f[d]) + 1, e, i)
             /\ ~(e = d /\ i = Len(f[d]) + 1)
  <2>1. i \in Nat /\ e <= d
    BY <1>4, <1>5
  <2>2. CASE e = d
    BY <1>1, <1>2, <1>3, <1>5, <2>1, <2>2 DEF Before
  <2>3. CASE e # d
    BY <1>3, <1>5, <2>1, <2>3 DEF Before
  <2> QED BY <2>2, <2>3
<1>7. ASSUME NEW e \in Days, NEW i \in DOMAIN g[e]
      PROVE  i \in DOMAIN f[e] \/ (e = d /\ i = Len(f[d]) + 1)
  BY <1>1, <1>2, <1>3
<1>8. ~Before(d, Len(f[d]) + 1, d, Len(f[d]) + 1)
  BY <1>1, <1>5 DEF Before
<1> HIDE DEF Extends
<1> QED BY <1>1, <1>2, <1>3, <1>6, <1>7, <1>8

\* A line may be written if it is right for its session, its file and what was
\* closed before it.
LEMMA ExtendedIsOK ==
    ASSUME NEW f, NEW g, NEW d, NEW l, Extends(f, g, d, l), FilesOK(f),
           \A e \in Days : \A i \in DOMAIN f[e] :
               /\ f[e][i].session <= l.session
               /\ l.kind = "start" /\ f[e][i].kind # "header" => f[e][i].session < l.session
               /\ f[e][i].kind = "stop" => f[e][i].session < l.session
               /\ f[e][i].kind = "stop" /\ (Opens(l) \/ l.kind = "resumed") => StartAfter(f, e, i),
           Opens(l) => \E h \in DOMAIN f[d] : IsStart(f[d][h])
    PROVE  FilesOK(g)
<1> DEFINE n == Len(f[d]) + 1
<1>0. /\ g \in [Days -> Seq(Lines)] /\ d \in Days
      /\ n \in DOMAIN g[d] /\ g[d][n] = l
      /\ \A e \in Days : \A i \in DOMAIN f[e] :
             /\ i \in DOMAIN g[e] /\ g[e][i] = f[e][i]
             /\ Before(e, i, d, n) /\ ~Before(d, n, e, i)
      /\ \A e \in Days : \A i \in DOMAIN g[e] : i \in DOMAIN f[e] \/ (e = d /\ i = n)
      /\ ~Before(d, n, d, n)
  BY LinesOfExtended DEF Extends
<1>d. \A h \in DOMAIN f[d] : h < n
  BY LinesOfExtended DEF Extends
<1> HIDE DEF n
<1>1. InOrder(g)
  <2> SUFFICES ASSUME NEW b \in Days, NEW e \in Days, NEW i \in DOMAIN g[b], NEW j \in DOMAIN g[e],
                      Before(b, i, e, j)
               PROVE  /\ g[b][i].session <= g[e][j].session
                      /\ g[e][j].kind = "start" /\ g[b][i].kind # "header" =>
                             g[b][i].session < g[e][j].session
                      /\ g[b][i].kind = "stop" => g[b][i].session < g[e][j].session
    BY DEF InOrder
  <2>1. i \in DOMAIN f[b] /\ g[b][i] = f[b][i]
    BY <1>0
  <2>2. CASE j \in DOMAIN f[e]
    BY <1>0, <2>1, <2>2 DEF FilesOK, InOrder
  <2>3. CASE e = d /\ j = n
    BY <1>0, <2>1, <2>3
  <2> QED BY <1>0, <2>2, <2>3
<1>2. Opened(g)
  <2> SUFFICES ASSUME NEW e \in Days, NEW j \in DOMAIN g[e], Opens(g[e][j])
               PROVE  \E h \in DOMAIN g[e] : h < j /\ IsStart(g[e][h])
    BY DEF Opened
  <2>1. CASE j \in DOMAIN f[e]
    BY <1>0, <2>1 DEF FilesOK, Opened
  <2>2. CASE e = d /\ j = n
    BY <1>0, <1>d, <2>2
  <2> QED BY <1>0, <2>1, <2>2
<1>3. Reopened(g)
  <2> SUFFICES ASSUME NEW b \in Days, NEW e \in Days, NEW i \in DOMAIN g[b], NEW j \in DOMAIN g[e],
                      Before(b, i, e, j), g[b][i].kind = "stop",
                      Opens(g[e][j]) \/ g[e][j].kind = "resumed"
               PROVE  StartBetween(g, b, i, e, j)
    BY DEF Reopened
  <2>1. i \in DOMAIN f[b] /\ g[b][i] = f[b][i]
    BY <1>0
  <2>2. CASE j \in DOMAIN f[e]
    <3>1. StartBetween(f, b, i, e, j)
      BY <1>0, <2>1, <2>2 DEF FilesOK, Reopened
    <3> QED BY <1>0, <3>1 DEF StartBetween
  <2>3. CASE e = d /\ j = n
    <3>1. StartAfter(f, b, i)
      BY <1>0, <2>1, <2>3
    <3> QED BY <1>0, <2>3, <3>1 DEF StartAfter, StartBetween
  <2> QED BY <1>0, <2>2, <2>3
<1> QED BY <1>0, <1>1, <1>2, <1>3 DEF FilesOK

\* The same for what holds of files that are not torn.
LEMMA ExtendedIsOwn ==
    ASSUME NEW f, NEW g, NEW d, NEW l, Extends(f, g, d, l), FilesOwn(f),
           \A e \in Days : \A i \in DOMAIN f[e] :
               IsStart(f[e][i]) /\ l.kind = "resumed" /\ f[e][i].session < l.session =>
                   OwnStartAfter(f, l.session, e, i),
           Opens(l) => \E h \in DOMAIN f[d] : IsStart(f[d][h]) /\ f[d][h].session = l.session
    PROVE  FilesOwn(g)
<1> DEFINE n == Len(f[d]) + 1
<1>0. /\ d \in Days
      /\ n \in DOMAIN g[d] /\ g[d][n] = l
      /\ \A e \in Days : \A i \in DOMAIN f[e] :
             /\ i \in DOMAIN g[e] /\ g[e][i] = f[e][i]
             /\ Before(e, i, d, n) /\ ~Before(d, n, e, i)
      /\ \A e \in Days : \A i \in DOMAIN g[e] : i \in DOMAIN f[e] \/ (e = d /\ i = n)
      /\ ~Before(d, n, d, n)
  BY LinesOfExtended DEF Extends
<1>d. \A h \in DOMAIN f[d] : h < n
  BY LinesOfExtended DEF Extends
<1> HIDE DEF n
<1>1. OpenedOwn(g)
  <2> SUFFICES ASSUME NEW e \in Days, NEW j \in DOMAIN g[e], Opens(g[e][j])
               PROVE  \E h \in DOMAIN g[e] :
                          h < j /\ IsStart(g[e][h]) /\ g[e][h].session = g[e][j].session
    BY DEF OpenedOwn
  <2>1. CASE j \in DOMAIN f[e]
    BY <1>0, <2>1 DEF FilesOwn, OpenedOwn
  <2>2. CASE e = d /\ j = n
    BY <1>0, <1>d, <2>2
  <2> QED BY <1>0, <2>1, <2>2
<1>2. Continued(g)
  <2> SUFFICES ASSUME NEW b \in Days, NEW e \in Days, NEW i \in DOMAIN g[b], NEW j \in DOMAIN g[e],
                      Before(b, i, e, j), IsStart(g[b][i]), g[e][j].kind = "resumed",
                      g[b][i].session < g[e][j].session
               PROVE  OwnStartBetween(g, b, i, e, j)
    BY DEF Continued
  <2>1. i \in DOMAIN f[b] /\ g[b][i] = f[b][i]
    BY <1>0
  <2>2. CASE j \in DOMAIN f[e]
    <3>1. OwnStartBetween(f, b, i, e, j)
      BY <1>0, <2>1, <2>2 DEF FilesOwn, Continued
    <3> QED BY <1>0, <2>2, <3>1 DEF OwnStartBetween
  <2>3. CASE e = d /\ j = n
    <3>1. OwnStartAfter(f, l.session, b, i)
      BY <1>0, <2>1, <2>3
    <3> QED BY <1>0, <2>3, <3>1 DEF OwnStartAfter, OwnStartBetween
  <2> QED BY <1>0, <2>2, <2>3
<1> QED BY <1>1, <1>2 DEF FilesOwn

\* g is f with the torn end of file d, the last one that is not empty, completed.
Swallows(f, g, d) ==
    /\ f \in [Days -> Seq(Lines)] /\ g \in [Days -> Seq(Lines)] /\ d \in Days
    /\ \A e \in Days : e > d => f[e] = <<>>
    /\ f[d] # <<>> /\ f[d][Len(f[d])].kind = "torn"
    /\ \A e \in Days : DOMAIN g[e] = DOMAIN f[e]
    /\ \A e \in Days : \A i \in DOMAIN f[e] :
           g[e][i] = IF e = d /\ i = Len(f[d]) THEN [f[e][i] EXCEPT !.kind = "junk"] ELSE f[e][i]

\* A line that is written is added or swallowed.
LEMMA AppendedIs ==
    ASSUME NEW f \in [Days -> Seq(Lines)], NEW d \in Days, NEW l \in Lines,
           \A e \in Days : e > d => f[e] = <<>>,
           NEW g, g = [f EXCEPT ![d] = Appended(f[d], l)]
    PROVE  Extends(f, g, d, l) \/ Swallows(f, g, d)
<1>1. CASE f[d] # <<>> /\ f[d][Len(f[d])].kind = "torn"
  <2> DEFINE n == Len(f[d])
             t == [f[d][n] EXCEPT !.kind = "junk"]
  <2>1. f[d] \in Seq(Lines) /\ n \in Nat \ {0} /\ DOMAIN f[d] = 1..n /\ f[d][n] \in Lines
    BY <1>1
  <2>2. t \in Lines
    BY <2>1 DEF Lines, LineKinds
  <2>3. Front(f[d]) = [i \in 1..(n - 1) |-> f[d][i]]
    BY <2>1 DEF Front
  <2>4. Front(f[d]) \in Seq(Lines) /\ Len(Front(f[d])) = n - 1
    BY <2>1, <2>3
  <2>5. /\ Append(Front(f[d]), t) \in Seq(Lines)
        /\ DOMAIN Append(Front(f[d]), t) = 1..n
        /\ \A i \in 1..n : Append(Front(f[d]), t)[i] = IF i = n THEN t ELSE f[d][i]
    <3> HIDE DEF t, n
    <3>1. Append(Front(f[d]), t) \in Seq(Lines) /\ Len(Append(Front(f[d]), t)) = n
      BY <2>1, <2>2, <2>4
    <3>2. \A i \in 1..n : Append(Front(f[d]), t)[i] = IF i = n THEN t ELSE Front(f[d])[i]
      BY <2>1, <2>2, <2>4
    <3>3. \A i \in 1..n : i # n => Front(f[d])[i] = f[d][i]
      BY <2>1, <2>3
    <3> QED BY <3>1, <3>2, <3>3, <2>1
  <2>6. g = [f EXCEPT ![d] = Append(Front(f[d]), t)]
    BY <1>1 DEF Appended, Last
  <2>7. /\ g \in [Days -> Seq(Lines)] /\ g[d] = Append(Front(f[d]), t)
        /\ \A e \in Days : e # d => g[e] = f[e]
    <3> HIDE DEF t
    <3> QED BY <2>5, <2>6
  <2>8. \A e \in Days : DOMAIN g[e] = DOMAIN f[e]
    <3> HIDE DEF t, n
    <3> QED BY <2>1, <2>5, <2>7
  <2>9. \A e \in Days : \A i \in DOMAIN f[e] :
            g[e][i] = IF e = d /\ i = n THEN [f[e][i] EXCEPT !.kind = "junk"] ELSE f[e][i]
    <3>1. \A i \in DOMAIN f[d] : g[d][i] = IF i = n THEN t ELSE f[d][i]
      <4> HIDE DEF t, n
      <4> QED BY <2>1, <2>5, <2>7
    <3> QED BY <3>1, <2>7
  <2> QED BY <1>1, <2>7, <2>8, <2>9 DEF Swallows
<1>2. CASE ~(f[d] # <<>> /\ f[d][Len(f[d])].kind = "torn")
  BY <1>2 DEF Appended, Last, Extends
<1> QED BY <1>1, <1>2

\* To complete a torn line changes nothing that matters.
LEMMA SwallowedIsOK ==
    ASSUME NEW f, NEW g, NEW d, Swallows(f, g, d), FilesOK(f)
    PROVE  /\ FilesOK(g)
           /\ \A e \in Days : \A i \in DOMAIN g[e] :
                  /\ i \in DOMAIN f[e] /\ g[e][i].session = f[e][i].session
                  /\ \A k \in {"start", "resumed", "stop", "header"} :
                         g[e][i].kind = k <=> f[e][i].kind = k
           /\ \A e \in Days : DOMAIN g[e] = DOMAIN f[e]
<1>1. ASSUME NEW e \in Days, NEW i \in DOMAIN g[e]
      PROVE  /\ i \in DOMAIN f[e] /\ g[e][i].session = f[e][i].session
             /\ \A k \in {"start", "resumed", "stop", "header"} :
                    g[e][i].kind = k <=> f[e][i].kind = k
             /\ Opens(g[e][i]) <=> Opens(f[e][i])
  <2>1. i \in DOMAIN f[e] /\ f[e][i] \in Lines
    BY DEF Swallows
  <2>2. CASE e = d /\ i = Len(f[d])
    <3>1. g[e][i] = [f[e][i] EXCEPT !.kind = "junk"] /\ f[e][i].kind = "torn"
      BY <2>1, <2>2 DEF Swallows
    <3> QED BY <2>1, <3>1 DEF Lines, Opens
  <2>3. CASE ~(e = d /\ i = Len(f[d]))
    BY <2>1, <2>3 DEF Swallows
  <2> QED BY <2>2, <2>3
<1>2. \A e \in Days : DOMAIN g[e] = DOMAIN f[e]
  BY DEF Swallows
<1>3. InOrder(g)
  BY <1>1 DEF FilesOK, InOrder
<1>4. Opened(g)
  BY <1>1, <1>2 DEF FilesOK, Opened, IsStart
<1>5. Reopened(g)
  <2>1. ASSUME NEW b \in Days, NEW e \in Days, NEW i \in DOMAIN g[b], NEW j \in DOMAIN g[e],
               Before(b, i, e, j), g[b][i].kind = "stop", Opens(g[e][j]) \/ g[e][j].kind = "resumed"
        PROVE  StartBetween(g, b, i, e, j)
    <3>1. StartBetween(f, b, i, e, j)
      BY <1>1, <2>1 DEF FilesOK, Reopened
    <3> QED BY <1>1, <1>2, <3>1 DEF StartBetween
  <2> QED BY <2>1 DEF Reopened
<1> QED BY <1>1, <1>2, <1>3, <1>4, <1>5 DEF FilesOK, Swallows

\* Old files may go.
Pruned(f, k) == [d \in Days |-> IF d < k THEN <<>> ELSE f[d]]

LEMMA PrunedIsOK ==
    ASSUME NEW f, NEW k \in Int, f \in [Days -> Seq(Lines)]
    PROVE  /\ Pruned(f, k) \in [Days -> Seq(Lines)]
           /\ \A d \in Days : \A i \in DOMAIN Pruned(f, k)[d] :
                  d >= k /\ i \in DOMAIN f[d] /\ Pruned(f, k)[d] = f[d]
           /\ \A d \in Days : d >= k => Pruned(f, k)[d] = f[d]
           /\ FilesOK(f) => FilesOK(Pruned(f, k))
           /\ FilesOwn(f) => FilesOwn(Pruned(f, k))
           /\ \A d \in Days, i \in Nat : d >= k /\ StartAfter(f, d, i) => StartAfter(Pruned(f, k), d, i)
           /\ \A d \in Days, i \in Nat, s \in Nat :
                  d >= k /\ OwnStartAfter(f, s, d, i) => OwnStartAfter(Pruned(f, k), s, d, i)
<1> DEFINE g == Pruned(f, k)
<1>0. \A d \in Days : d \in Int
  BY DEF Days
<1>1. g \in [Days -> Seq(Lines)]
  BY DEF Pruned
<1>2. \A d \in Days : d >= k => g[d] = f[d]
  BY <1>0 DEF Pruned
<1>3. \A d \in Days : \A i \in DOMAIN g[d] : d >= k /\ i \in DOMAIN f[d] /\ g[d] = f[d]
  BY <1>0 DEF Pruned
<1> HIDE DEF g
<1>4. \A d, e \in Days : \A i, j : Before(d, i, e, j) => e >= d
  BY <1>0 DEF Before
<1>5. \A c, d \in Days : d >= k /\ c >= d => g[c] = f[c]
  BY <1>0, <1>2
<1>6. \A d \in Days, i \in Nat : d >= k /\ StartAfter(f, d, i) => StartAfter(g, d, i)
  BY <1>4, <1>5 DEF StartAfter
<1>7. \A d \in Days, i \in Nat, s \in Nat :
          d >= k /\ OwnStartAfter(f, s, d, i) => OwnStartAfter(g, s, d, i)
  BY <1>4, <1>5 DEF OwnStartAfter
<1>8. ASSUME FilesOK(f) PROVE FilesOK(g)
  <2>1. InOrder(g)
    BY <1>3, <1>8 DEF FilesOK, InOrder
  <2>2. Opened(g)
    BY <1>3, <1>8 DEF FilesOK, Opened
  <2>3. Reopened(g)
    <3> SUFFICES ASSUME NEW b \in Days, NEW e \in Days, NEW i \in DOMAIN g[b], NEW j \in DOMAIN g[e],
                        Before(b, i, e, j), g[b][i].kind = "stop",
                        Opens(g[e][j]) \/ g[e][j].kind = "resumed"
                 PROVE  StartBetween(g, b, i, e, j)
      BY DEF Reopened
    <3>1. StartBetween(f, b, i, e, j) /\ b >= k
      BY <1>3, <1>8 DEF FilesOK, Reopened
    <3> QED BY <1>4, <1>5, <3>1 DEF StartBetween
  <2> QED BY <1>1, <2>1, <2>2, <2>3 DEF FilesOK
<1>9. ASSUME FilesOwn(f) PROVE FilesOwn(g)
  <2>2. OpenedOwn(g)
    BY <1>3, <1>9 DEF FilesOwn, OpenedOwn
  <2>3. Continued(g)
    <3> SUFFICES ASSUME NEW b \in Days, NEW e \in Days, NEW i \in DOMAIN g[b], NEW j \in DOMAIN g[e],
                        Before(b, i, e, j), IsStart(g[b][i]), g[e][j].kind = "resumed",
                        g[b][i].session < g[e][j].session
                 PROVE  OwnStartBetween(g, b, i, e, j)
      BY DEF Continued
    <3>1. OwnStartBetween(f, b, i, e, j) /\ b >= k /\ g[e] = f[e]
      BY <1>3, <1>9 DEF FilesOwn, Continued
    <3> QED BY <1>4, <1>5, <3>1 DEF OwnStartBetween
  <2> QED BY <2>2, <2>3 DEF FilesOwn
<1> QED BY <1>1, <1>2, <1>3, <1>6, <1>7, <1>8, <1>9 DEF g

-----------------------------------------------------------------------------
(* The lines to be written *)

\* What Write puts there, k being the line that is wanted.
Wanted(k, d, s, c) ==
    (IF d = today THEN <<>> ELSE Roll(d, today, s, c)) \o <<Line(k, today, s, c)>>

\* Sequences of two to five lines, one after the other.
LEMMA OneMore ==
    ASSUME NEW T, NEW q \in Seq(T), NEW e \in T
    PROVE  /\ q \o <<e>> \in Seq(T) /\ Len(q \o <<e>>) = Len(q) + 1
           /\ (q \o <<e>>)[Len(q) + 1] = e
           /\ \A i \in 1..Len(q) : (q \o <<e>>)[i] = q[i]
<1>1. q \o <<e>> = Append(q, e)
  BY AppendIsConcat
<1> QED BY <1>1

LEMMA Chain2 ==
    ASSUME NEW T, NEW a \in T, NEW b \in T, NEW q, q = <<a>> \o <<b>>
    PROVE  q \in Seq(T) /\ Len(q) = 2 /\ DOMAIN q = {1, 2} /\ q[1] = a /\ q[2] = b
<1>1. <<a>> \in Seq(T) /\ Len(<<a>>) = 1 /\ <<a>>[1] = a
  OBVIOUS
<1>2. q \in Seq(T) /\ Len(q) = Len(<<a>>) + 1 /\ q[Len(<<a>>) + 1] = b /\ q[1] = a
  BY <1>1, OneMore
<1> QED BY <1>1, <1>2

LEMMA Chain3 ==
    ASSUME NEW T, NEW a \in T, NEW b \in T, NEW c \in T, NEW q, q = <<a>> \o <<b>> \o <<c>>
    PROVE  q \in Seq(T) /\ Len(q) = 3 /\ DOMAIN q = {1, 2, 3} /\ q[1] = a /\ q[2] = b /\ q[3] = c
<1> SUFFICES ASSUME NEW p, p = <<a>> \o <<b>>, q = p \o <<c>>
             PROVE  q \in Seq(T) /\ Len(q) = 3 /\ DOMAIN q = {1, 2, 3} /\ q[1] = a /\ q[2] = b /\ q[3] = c
  OBVIOUS
<1>1. p \in Seq(T) /\ Len(p) = 2 /\ p[1] = a /\ p[2] = b
  BY Chain2
<1>2. /\ q \in Seq(T) /\ Len(q) = Len(p) + 1 /\ q[Len(p) + 1] = c
      /\ \A i \in 1..Len(p) : q[i] = p[i]
  BY <1>1, OneMore
<1>3. Len(q) = 3
  BY <1>1, <1>2
<1> QED BY <1>1, <1>2, <1>3

LEMMA Chain4 ==
    ASSUME NEW T, NEW a \in T, NEW b \in T, NEW c \in T, NEW d \in T,
           NEW q, q = <<a>> \o <<b>> \o <<c>> \o <<d>>
    PROVE  q \in Seq(T) /\ Len(q) = 4 /\ DOMAIN q = {1, 2, 3, 4} /\ q[1] = a /\ q[2] = b /\ q[3] = c /\ q[4] = d
<1> SUFFICES ASSUME NEW p, p = <<a>> \o <<b>> \o <<c>>, q = p \o <<d>>
             PROVE  q \in Seq(T) /\ Len(q) = 4 /\ DOMAIN q = {1, 2, 3, 4} /\ q[1] = a /\ q[2] = b /\ q[3] = c /\ q[4] = d
  OBVIOUS
<1>1. p \in Seq(T) /\ Len(p) = 3 /\ p[1] = a /\ p[2] = b /\ p[3] = c
  BY Chain3
<1>2. /\ q \in Seq(T) /\ Len(q) = Len(p) + 1 /\ q[Len(p) + 1] = d
      /\ \A i \in 1..Len(p) : q[i] = p[i]
  BY <1>1, OneMore
<1>3. Len(q) = 4
  BY <1>1, <1>2
<1> QED BY <1>1, <1>2, <1>3

LEMMA Chain5 ==
    ASSUME NEW T, NEW a \in T, NEW b \in T, NEW c \in T, NEW d \in T, NEW e \in T,
           NEW q, q = <<a>> \o <<b>> \o <<c>> \o <<d>> \o <<e>>
    PROVE  q \in Seq(T) /\ Len(q) = 5 /\ DOMAIN q = {1, 2, 3, 4, 5} /\ q[1] = a /\ q[2] = b /\ q[3] = c /\ q[4] = d /\ q[5] = e
<1> SUFFICES ASSUME NEW p, p = <<a>> \o <<b>> \o <<c>> \o <<d>>, q = p \o <<e>>
             PROVE  q \in Seq(T) /\ Len(q) = 5 /\ DOMAIN q = {1, 2, 3, 4, 5} /\ q[1] = a /\ q[2] = b /\ q[3] = c /\ q[4] = d /\ q[5] = e
  OBVIOUS
<1>1. p \in Seq(T) /\ Len(p) = 4 /\ p[1] = a /\ p[2] = b /\ p[3] = c /\ p[4] = d
  BY Chain4
<1>2. /\ q \in Seq(T) /\ Len(q) = Len(p) + 1 /\ q[Len(p) + 1] = e
      /\ \A i \in 1..Len(p) : q[i] = p[i]
  BY <1>1, OneMore
<1>3. Len(q) = 5
  BY <1>1, <1>2
<1> QED BY <1>1, <1>2, <1>3

LEMMA WantedIs ==
    ASSUME today \in Days, NEW d \in Days \cup {NoDay}, d <= today, NEW s \in Sessions,
           NEW c \in Columns, NEW k \in {"start", "sample", "stop"}, k = "start" <=> d = NoDay,
           NEW q, q = Wanted(k, d, s, c)
    PROVE  /\ q \in Seq(Lines) /\ q # <<>>
           /\ \A i \in DOMAIN q :
                  /\ q[i].session = s /\ q[i].cols = c /\ q[i].kind \notin {"torn", "junk"}
                  /\ IF q[i].kind = "rollover" THEN i = 1 /\ q[i].day < today ELSE q[i].day = today
           /\ \A i, j \in DOMAIN q : i < j => Rank(q[i].kind) < Rank(q[j].kind)
           /\ Pending(q, "start") => ~Pending(q, "resumed") /\ ~Pending(q, "rollover")
           /\ Pending(q, "prune") => Pending(q, "start") \/ Pending(q, "resumed")
           /\ Pending(q, "start") <=> k = "start"
           /\ d \in Days /\ d # today =>
                  q[1].kind = "rollover" /\ q[1].day = d /\ Pending(q, "resumed")
           /\ d \notin Days \/ d = today => q[1].kind # "rollover" /\ ~Pending(q, "resumed")
           /\ Pending(q, "header") \/ d = today \/ ~NeedHeader(today, c)
<1> DEFINE L(kd) == Line(kd, today, s, c)
           R == Line("rollover", d, s, c)
<1>0. today \in Int /\ d \in Int /\ NoDay \notin Days /\ today # NoDay
  BY DEF Days, NoDay
<1>1. \A kd \in LineKinds : /\ L(kd) \in Lines /\ L(kd).kind = kd /\ L(kd).day = today
                            /\ L(kd).session = s /\ L(kd).cols = c
  BY DEF Line, Lines
<1>2. d \in Days => R \in Lines /\ R.kind = "rollover" /\ R.day = d /\ R.session = s /\ R.cols = c
  BY DEF Line, Lines, LineKinds
<1>3. k \in LineKinds /\ {"header", "prune", "resumed"} \subseteq LineKinds /\ Rank(k) = 5
  BY DEF LineKinds, Rank
<1>4. Rank("rollover") = 1 /\ Rank("header") = 2 /\ Rank("prune") = 3 /\ Rank("resumed") = 4
  BY DEF Rank
<1>5. \A kd \in LineKinds : <<L(kd)>> \in Seq(Lines)
  BY <1>1
<1> HIDE DEF L, R
<1>6. CASE d = today
  <2>1. q = <<L(k)>>
    BY <1>3, <1>5, <1>6, ConcatEmptySeq DEF Wanted, L
  <2>2. q \in Seq(Lines) /\ DOMAIN q = {1} /\ q[1] = L(k)
    BY <1>1, <1>3, <2>1
  <2>3. L(k).kind = k /\ L(k).day = today /\ L(k).session = s /\ L(k).cols = c
    BY <1>1, <1>3
  <2>4. k # "start" /\ k \notin {"torn", "junk", "rollover", "resumed", "prune"}
    BY <1>0, <1>6
  <2>5. \A kd : Pending(q, kd) <=> kd = k
    BY <2>2, <2>3 DEF Pending
  <2> QED BY <1>0, <1>6, <2>2, <2>3, <2>4, <2>5
<1>7. CASE d = NoDay /\ NeedHeader(today, c)
  <2>1. q = ((<<>> \o <<L("header")>> \o <<L("prune")>>) \o <<>>) \o <<L(k)>>
    BY <1>0, <1>7 DEF Wanted, Roll, L
  <2>2. <<>> \o <<L("header")>> = <<L("header")>>
    BY <1>3, <1>5, ConcatEmptySeq
  <2>3. /\ q \in Seq(Lines) /\ DOMAIN q = {1, 2, 3}
        /\ q[1] = L("header") /\ q[2] = L("prune") /\ q[3] = L(k)
    <3> DEFINE q2 == <<L("header")>> \o <<L("prune")>>
    <3>1. q2 \in Seq(Lines)
      BY <1>1, <1>3, Chain2
    <3>2. q2 \o <<>> = q2
      BY <3>1, ConcatEmptySeq
    <3>3. q = q2 \o <<L(k)>>
      BY <2>1, <2>2, <3>2
    <3> QED BY <1>1, <1>3, <3>3, Chain3
  <2>4. k = "start"
    BY <1>7
  <2> QED BY <1>0, <1>1, <1>3, <1>4, <1>7, <2>3, <2>4 DEF Pending
<1>8. CASE d = NoDay /\ ~NeedHeader(today, c)
  <2>1. q = ((<<>> \o <<>> \o <<L("prune")>>) \o <<>>) \o <<L(k)>>
    BY <1>0, <1>8 DEF Wanted, Roll, L
  <2>2. <<>> \o <<>> = <<>> /\ <<>> \o <<L("prune")>> = <<L("prune")>> /\ <<L("prune")>> \o <<>> = <<L("prune")>>
    BY <1>3, <1>5, ConcatEmptySeq, EmptySeq
  <2>3. q = <<L("prune")>> \o <<L(k)>>
    BY <2>1, <2>2
  <2>4. q \in Seq(Lines) /\ DOMAIN q = {1, 2} /\ q[1] = L("prune") /\ q[2] = L(k)
    BY <1>1, <1>3, <2>3, Chain2
  <2>5. k = "start"
    BY <1>8
  <2> QED BY <1>0, <1>1, <1>3, <1>4, <1>8, <2>4, <2>5 DEF Pending
<1>9. CASE d # today /\ d # NoDay /\ NeedHeader(today, c)
  <2>1. q = ((<<R>> \o <<L("header")>> \o <<L("prune")>>) \o <<L("resumed")>>) \o <<L(k)>>
    BY <1>0, <1>9 DEF Wanted, Roll, L, R
  <2>2. d \in Days /\ R \in Lines
    BY <1>2, <1>9
  <2>3. /\ q \in Seq(Lines) /\ DOMAIN q = {1, 2, 3, 4, 5}
        /\ q[1] = R /\ q[2] = L("header") /\ q[3] = L("prune") /\ q[4] = L("resumed") /\ q[5] = L(k)
    BY <1>1, <1>3, <2>1, <2>2, Chain5
  <2>4. k \in {"sample", "stop"} /\ d < today
    BY <1>0, <1>9
  <2> QED BY <1>0, <1>1, <1>2, <1>3, <1>4, <1>9, <2>2, <2>3, <2>4 DEF Pending
<1>10. CASE d # today /\ d # NoDay /\ ~NeedHeader(today, c)
  <2>1. q = ((<<R>> \o <<>> \o <<L("prune")>>) \o <<L("resumed")>>) \o <<L(k)>>
    BY <1>0, <1>10 DEF Wanted, Roll, L, R
  <2>2. d \in Days /\ R \in Lines /\ <<R>> \in Seq(Lines)
    BY <1>2, <1>10
  <2>3. <<R>> \o <<>> = <<R>>
    BY <2>2, ConcatEmptySeq
  <2>4. /\ q \in Seq(Lines) /\ DOMAIN q = {1, 2, 3, 4}
        /\ q[1] = R /\ q[2] = L("prune") /\ q[3] = L("resumed") /\ q[4] = L(k)
    BY <1>1, <1>3, <2>1, <2>2, <2>3, Chain4
  <2>5. k \in {"sample", "stop"} /\ d < today
    BY <1>0, <1>10
  <2> QED BY <1>0, <1>1, <1>2, <1>3, <1>4, <1>10, <2>2, <2>4, <2>5 DEF Pending
<1> QED BY <1>6, <1>7, <1>8, <1>9, <1>10

\* What is left when the first line is written.
LEMMA TailIs ==
    ASSUME TodoOK, todo # <<>>, NEW q, q = Tail(todo)
    PROVE  /\ q \in Seq(Lines) /\ todo[1] \in Lines /\ Head(todo) = todo[1] /\ 1 \in DOMAIN todo
           /\ \A i \in DOMAIN q : i + 1 \in DOMAIN todo /\ i \in Nat \ {0} /\ q[i] = todo[i + 1]
           /\ \A k \in LineKinds : k # todo[1].kind => (Pending(q, k) <=> Pending(todo, k))
           /\ ~Pending(q, todo[1].kind) /\ ~Pending(q, "rollover")
           /\ \A k \in LineKinds : Rank(k) <= Rank(todo[1].kind) => ~Pending(q, k)
           /\ running /\ (Rank(todo[1].kind) = 5 => q = <<>>)
<1>1. todo \in Seq(Lines) /\ Len(todo) \in Nat \ {0} /\ DOMAIN todo = 1..Len(todo)
  BY DEF TodoOK
<1>2. /\ q \in Seq(Lines) /\ Len(q) = Len(todo) - 1 /\ DOMAIN q = 1..(Len(todo) - 1)
      /\ \A i \in DOMAIN q : q[i] = todo[i + 1]
  BY <1>1
<1>3. \A i \in DOMAIN q : i + 1 \in DOMAIN todo /\ i \in Nat \ {0} /\ 1 < i + 1
  BY <1>1, <1>2
<1>4. \A i \in DOMAIN q : Rank(todo[1].kind) < Rank(q[i].kind)
  BY <1>1, <1>2, <1>3 DEF TodoOK
<1>5. \A k : Rank(k) \in Int
  BY DEF Rank
<1>6. \A k : Rank(k) <= Rank(todo[1].kind) => ~Pending(q, k)
  BY <1>4, <1>5 DEF Pending
<1>7. ASSUME NEW k, k # todo[1].kind PROVE Pending(q, k) <=> Pending(todo, k)
  <2>1. ASSUME NEW i \in DOMAIN todo, todo[i].kind = k PROVE i - 1 \in DOMAIN q /\ q[i - 1] = todo[i]
    BY <1>1, <1>2, <1>7, <2>1
  <2> QED BY <1>2, <1>3, <2>1 DEF Pending
<1>8. ~Pending(q, todo[1].kind) /\ ~Pending(q, "rollover")
  <2>1. Rank("rollover") <= Rank(todo[1].kind)
    BY DEF Rank
  <2> QED BY <1>5, <1>6, <2>1
<1>9. Rank(todo[1].kind) = 5 => q = <<>>
  <2>1. \A k : Rank(k) <= 5
    BY DEF Rank
  <2>2. Rank(todo[1].kind) = 5 => DOMAIN q = {}
    BY <1>4, <1>5, <2>1
  <2> QED BY <1>1, <1>2, <2>2
<1> QED BY <1>1, <1>2, <1>3, <1>6, <1>7, <1>8, <1>9 DEF TodoOK

-----------------------------------------------------------------------------
(* The steps of the sampler *)

\* A set of positions that is not empty has a last one.
LEMMA GreatestOf ==
    ASSUME NEW n \in Nat, NEW T \in SUBSET (1..n), T # {}
    PROVE  Max(T) \in T /\ \A y \in T : y <= Max(T)
<1> DEFINE U == {n - x : x \in T}
<1>0. \A x \in T : x \in 1..n /\ x \in Int /\ n - x \in Nat /\ n - x \in U
  OBVIOUS
<1>1. U \subseteq Nat /\ U # {}
  BY <1>0
<1>2. PICK u \in U : \A y \in U : u <= y
  <2> HIDE DEF U
  <2> QED BY <1>1, LeastNatural
<1>3. PICK x \in T : u = n - x
  BY <1>2
<1>4. \A y \in T : x >= y
  <2> HIDE DEF U
  <2> QED BY <1>0, <1>2, <1>3
<1>5. Max(T) \in T /\ \A y \in T : Max(T) >= y
  BY <1>3, <1>4 DEF Max
<1> QED BY <1>5

LEMMA HeaderIsThere ==
    ASSUME files \in [Days -> Seq(Lines)], NEW d \in Days, NEW c, ~NeedHeader(d, c)
    PROVE  LastHeader(files[d], c)
<1> DEFINE T == {i \in DOMAIN files[d] : files[d][i].kind = "header"}
<1>1. Len(files[d]) \in Nat /\ T \in SUBSET (1..Len(files[d]))
  OBVIOUS
<1>2. T # {} /\ files[d][Max(T)].cols = c
  BY DEF NeedHeader
<1>3. Max(T) \in T /\ \A y \in T : y <= Max(T)
  BY <1>1, <1>2, GreatestOf
<1> QED BY <1>2, <1>3 DEF LastHeader

\* Initially.
LEMMA RecorderInit ==
    ASSUME ForensicsAssumption, Init PROVE RecorderInv /\ (NoFaults => StrictInv)
<1>1. files = [d \in Days |-> <<>>] /\ todo = <<>> /\ ~running /\ reused = {} /\ verdict = truth
  BY DEF Init
<1>2. files \in [Days -> Seq(Lines)] /\ \A d \in Days : files[d] = <<>> /\ DOMAIN files[d] = {}
  BY <1>1
<1>3. Types
  <2>1. today \in Days /\ day \in Days \cup {NoDay} /\ cur \in 0..MaxSessions /\ samples \in 0..MaxSamples
    BY DEF Init, ForensicsAssumption, Days
  <2>2. booted \in [Sessions -> Nat] /\ boot \in Nat \ {0} /\ reused \subseteq Sessions
    BY DEF Init
  <2> QED BY <2>1, <2>2 DEF Init, Types
<1>4. FilesOK(files) /\ FilesOwn(files) /\ Whole /\ HeadersAre
  BY <1>2 DEF FilesOK, FilesOwn, InOrder, Opened, Reopened, OpenedOwn, Continued, Whole, HeadersAre
<1>5. TodoOK
  BY <1>1 DEF TodoOK, Pending
<1>6. LaterEmpty /\ SoFar /\ Ready /\ ReadyOwn /\ HeaderReady
  BY <1>1, <1>2 DEF LaterEmpty, SoFar, Ready, ReadyOwn, HeaderReady, Started
<1> QED BY <1>1, <1>3, <1>4, <1>5, <1>6 DEF RecorderInv, StrictInv, VerdictRight

\* A session that wants to write k, on the same day or on another one.
LEMMA WriteKeeps ==
    ASSUME RecorderInv, NEW k \in {"sample", "stop"}, running, todo = <<>>,
           Write(k, day, cur, cols), UNCHANGED <<today, files, cur, cols, running>>
    PROVE  /\ TodoOK' /\ LaterEmpty' /\ SoFar' /\ Ready'
           /\ ReadyOwn => ReadyOwn'
           /\ HeaderReady => HeaderReady'
           /\ day' \in Days
<1> USE DEF RecorderInv
<1>0. /\ today \in Days /\ day \in Days /\ day <= today /\ cur \in Sessions /\ cols \in Columns
      /\ today \in Int /\ day \in Int
  BY DEF TodoOK, Types, Days
<1>1. todo' = Wanted(k, day, cur, cols) /\ day' = today
  BY DEF Write, Wanted
<1>2. k \in {"start", "sample", "stop"} /\ (k = "start" <=> day = NoDay) /\ day \in Days \cup {NoDay}
  BY <1>0 DEF Days, NoDay
<1>3. /\ todo' \in Seq(Lines) /\ todo' # <<>>
      /\ \A i \in DOMAIN todo' :
             /\ todo'[i].session = cur /\ todo'[i].cols = cols /\ todo'[i].kind \notin {"torn", "junk"}
             /\ IF todo'[i].kind = "rollover" THEN i = 1 /\ todo'[i].day < today
                ELSE todo'[i].day = today
      /\ \A i, j \in DOMAIN todo' : i < j => Rank(todo'[i].kind) < Rank(todo'[j].kind)
      /\ Pending(todo', "prune") => Pending(todo', "start") \/ Pending(todo', "resumed")
      /\ ~Pending(todo', "start")
      /\ day # today =>
             todo'[1].kind = "rollover" /\ todo'[1].day = day /\ Pending(todo', "resumed")
      /\ day = today => todo'[1].kind # "rollover" /\ ~Pending(todo', "resumed")
      /\ Pending(todo', "header") \/ day = today \/ ~NeedHeader(today, cols)
  BY <1>0, <1>1, <1>2, WantedIs
<1>4. TodoOK'
  BY <1>0, <1>1, <1>3 DEF TodoOK
<1>5. Started /\ ~Pending(todo, "resumed") /\ WriteDay = day
  BY DEF Started, Pending, WriteDay
<1>6. LaterEmpty'
  BY <1>0, <1>1, <1>3, <1>5 DEF LaterEmpty, WriteDay
<1>7. SoFar'
  BY <1>3 DEF SoFar
<1>8. Ready' /\ (ReadyOwn => ReadyOwn')
  BY <1>1, <1>3, <1>5 DEF Ready, ReadyOwn, Started
<1>9. HeaderReady => HeaderReady'
  <2>1. CASE day = today
    BY <1>1, <2>1 DEF HeaderReady, Pending
  <2>2. CASE ~NeedHeader(today, cols)
    BY <1>0, <1>1, <2>2, HeaderIsThere DEF HeaderReady, FilesOK
  <2>3. CASE Pending(todo', "header")
    BY <2>3 DEF HeaderReady
  <2> QED BY <1>3, <2>1, <2>2, <2>3
<1> QED BY <1>0, <1>1, <1>4, <1>6, <1>7, <1>8, <1>9

\* The verdict is about the last session with a first line on disk.
LEMMA VerdictIsTrue ==
    ASSUME ForensicsAssumption, FilesOK(files), FilesOwn(files)
    PROVE  PreviousSessionDied <=> (Recorded # {} /\ Max(Recorded) \notin ClosedSessions)
<1> DEFINE started == {d \in Days : \E i \in DOMAIN files[d] : IsStart(files[d][i])}
<1>0. /\ files \in [Days -> Seq(Lines)] /\ MaxDay \in Nat /\ MaxSessions \in Nat
      /\ \A d \in Days : d \in Int /\ Len(files[d]) \in Nat /\ DOMAIN files[d] = 1..Len(files[d])
  BY DEF FilesOK, ForensicsAssumption, Days
<1>1. \A d \in Days : \A i \in DOMAIN files[d] :
          files[d][i].session \in Sessions /\ files[d][i].session \in Int /\ i \in Int
  <2>1. \A d \in Days : \A i \in DOMAIN files[d] : files[d][i] \in Lines /\ i \in Int
    BY <1>0
  <2> QED BY <2>1 DEF Lines, Sessions
<1>2. started = {} <=> Recorded = {}
  BY <1>1 DEF Recorded
<1>3. CASE started = {}
  BY <1>2, <1>3 DEF PreviousSessionDied
<1>4. CASE started # {}
  <2> DEFINE D == Max(started)
             T == {j \in DOMAIN files[D] : IsStart(files[D][j])}
             i == Max(T)
             m == files[D][i].session
  <2>1. D \in started /\ \A e \in started : e <= D
    <3>1. started \in SUBSET (1..MaxDay)
      BY DEF Days
    <3> HIDE DEF started
    <3> QED BY <1>0, <1>4, <3>1, GreatestOf
  <2>2. D \in Days /\ T # {}
    BY <2>1
  <2> HIDE DEF D
  <2>3. i \in T /\ \A j \in T : j <= i
    <3>1. T \in SUBSET (1..Len(files[D])) /\ Len(files[D]) \in Nat
      BY <1>0, <2>2
    <3> HIDE DEF T
    <3> QED BY <2>2, <3>1, GreatestOf
  <2>4. i \in DOMAIN files[D] /\ IsStart(files[D][i])
    BY <2>3
  <2> HIDE DEF i
  <2>5. ASSUME NEW e \in Days, NEW j \in DOMAIN files[e], IsStart(files[e][j])
        PROVE  files[e][j].session <= m /\ (Before(e, j, D, i) \/ (e = D /\ j = i))
    <3>1. e <= D /\ (e = D => j <= i)
      BY <2>1, <2>3, <2>5
    <3>2. Before(e, j, D, i) \/ (e = D /\ j = i)
      BY <1>0, <1>1, <2>2, <2>4, <3>1 DEF Before
    <3> QED BY <1>1, <2>2, <2>4, <3>2 DEF FilesOK, InOrder
  <2>6. m \in Recorded /\ \A s \in Recorded : s <= m
    BY <1>1, <2>2, <2>4, <2>5 DEF Recorded
  <2>7. Max(Recorded) = m
    <3>1. Recorded \in SUBSET (1..MaxSessions)
      BY DEF Recorded, Sessions
    <3>2. Max(Recorded) \in Recorded /\ \A s \in Recorded : s <= Max(Recorded)
      <4> HIDE DEF m
      <4> QED BY <1>0, <2>6, <3>1, GreatestOf
    <3>3. m <= Max(Recorded) /\ Max(Recorded) <= m /\ m \in Int /\ Max(Recorded) \in Int
      <4>1. \A s \in Recorded : s \in Int
        BY <3>1
      <4> HIDE DEF m
      <4> QED BY <2>6, <3>2, <4>1
    <3> HIDE DEF m
    <3> QED BY <3>3
  <2>8. Closed(files[D]) <=> \E j \in DOMAIN files[D] : j > i /\ files[D][j].kind = "stop"
    BY DEF Closed, i
  <2>9. ASSUME NEW j \in DOMAIN files[D], j > i, files[D][j].kind = "stop"
        PROVE  m \in ClosedSessions
    <3>1. Before(D, i, D, j)
      BY <1>0, <2>2, <2>9 DEF Before
    <3>2. m <= files[D][j].session
      BY <2>2, <2>4, <3>1 DEF FilesOK, InOrder
    <3>3. PICK h \in DOMAIN files[D] : IsStart(files[D][h]) /\ files[D][h].session = files[D][j].session
      BY <2>2, <2>9 DEF FilesOwn, OpenedOwn, Opens
    <3>4. files[D][j].session <= m
      BY <2>2, <2>5, <3>3
    <3>5. files[D][j].session = m
      BY <1>1, <2>2, <2>4, <3>2, <3>4
    <3> QED BY <1>1, <2>2, <2>4, <2>9, <3>5 DEF ClosedSessions
  <2>10. ASSUME m \in ClosedSessions
         PROVE  \E j \in DOMAIN files[D] : j > i /\ files[D][j].kind = "stop"
    <3>1. PICK e \in Days : \E j \in DOMAIN files[e] : files[e][j].kind = "stop" /\ files[e][j].session = m
      BY <2>10 DEF ClosedSessions
    <3>2. PICK j \in DOMAIN files[e] : files[e][j].kind = "stop" /\ files[e][j].session = m
      BY <3>1
    <3>3. PICK h \in DOMAIN files[e] : h < j /\ IsStart(files[e][h])
      BY <3>2 DEF FilesOwn, OpenedOwn, Opens
    <3>4. e <= D
      BY <2>1, <3>3
    <3>5. ~Before(e, j, D, i)
      <4>1. ~(m < m)
        BY <1>1, <2>2, <2>4
      <4> QED BY <2>2, <2>4, <3>2, <4>1 DEF FilesOK, InOrder
    <3>6. ~(e = D /\ j = i)
      BY <2>4, <3>2 DEF IsStart
    <3>7. e = D /\ j > i
      BY <1>0, <1>1, <2>2, <2>4, <3>4, <3>5, <3>6 DEF Before
    <3> QED BY <3>2, <3>7
  <2>11. PreviousSessionDied <=> ~Closed(files[D])
    BY <1>4 DEF PreviousSessionDied, D
  <2> QED BY <2>6, <2>7, <2>8, <2>9, <2>10, <2>11
<1> QED BY <1>3, <1>4

\* A sampler that starts.
LEMMA StartKeeps ==
    ASSUME ForensicsAssumption, RecorderInv, NEW c \in Columns, Start(c)
    PROVE  RecorderInv' /\ (StrictInv => StrictInv')
<1> USE DEF RecorderInv
<1>0. /\ today \in Days /\ today \in Int /\ cur + 1 \in Sessions /\ cur \in Int /\ ~running
      /\ MaxSessions \in Nat
  BY DEF Start, Types, Sessions, ForensicsAssumption, Days
<1>1. todo' = Wanted("start", NoDay, cur + 1, c) /\ day' = today
  BY DEF Start, Write, Wanted
<1>2. NoDay \in Days \cup {NoDay} /\ NoDay <= today /\ NoDay \notin Days /\ NoDay # today
  BY <1>0 DEF Days, NoDay
<1>3. /\ todo' \in Seq(Lines) /\ todo' # <<>>
      /\ \A i \in DOMAIN todo' :
             /\ todo'[i].session = cur + 1 /\ todo'[i].cols = c /\ todo'[i].kind \notin {"torn", "junk"}
             /\ IF todo'[i].kind = "rollover" THEN i = 1 /\ todo'[i].day < today
                ELSE todo'[i].day = today
      /\ \A i, j \in DOMAIN todo' : i < j => Rank(todo'[i].kind) < Rank(todo'[j].kind)
      /\ ~Pending(todo', "resumed") /\ ~Pending(todo', "rollover")
      /\ Pending(todo', "start")
      /\ todo'[1].kind # "rollover"
      /\ Pending(todo', "header") \/ ~NeedHeader(today, c)
  <2>1. ASSUME NEW k, k = "start", NEW d, d = NoDay, NEW s, s = cur + 1, NEW q, q = Wanted(k, d, s, c)
        PROVE  /\ q \in Seq(Lines) /\ q # <<>>
               /\ \A i \in DOMAIN q :
                      /\ q[i].session = s /\ q[i].cols = c /\ q[i].kind \notin {"torn", "junk"}
                      /\ IF q[i].kind = "rollover" THEN i = 1 /\ q[i].day < today
                         ELSE q[i].day = today
               /\ \A i, j \in DOMAIN q : i < j => Rank(q[i].kind) < Rank(q[j].kind)
               /\ ~Pending(q, "resumed") /\ ~Pending(q, "rollover")
               /\ Pending(q, "start")
               /\ q[1].kind # "rollover"
               /\ Pending(q, "header") \/ ~NeedHeader(today, c)
    <3>1. k \in {"start", "sample", "stop"} /\ (k = "start" <=> d = NoDay) /\ d \in Days \cup {NoDay}
          /\ d <= today /\ s \in Sessions /\ d \notin Days /\ d # today
      BY <1>0, <1>2, <2>1
    <3> QED BY <1>0, <2>1, <3>1, WantedIs
  <2> QED BY <1>1, <2>1
<1>4. /\ cur' = cur + 1 /\ cols' = c /\ running' = TRUE /\ booted' = [booted EXCEPT ![cur + 1] = boot]
      /\ UNCHANGED <<today, files, boot, reused, samples>>
      /\ verdict' = PreviousSessionDied
      /\ truth' = (Recorded # {} /\ Max(Recorded) \notin ClosedSessions)
  BY DEF Start
<1>5. verdict' \in BOOLEAN /\ truth' \in BOOLEAN
  BY <1>4 DEF PreviousSessionDied
<1>6. Types'
  BY <1>0, <1>1, <1>4, <1>5 DEF Types, Sessions
<1>7. FilesOK(files)' /\ (FilesOwn(files) => FilesOwn(files)')
  BY <1>4
<1>8. TodoOK'
  BY <1>0, <1>1, <1>3, <1>4 DEF TodoOK
<1>9. LaterEmpty'
  BY <1>1, <1>3, <1>4 DEF LaterEmpty, WriteDay
<1>10. SoFar'
  <2>1. \A d \in Days : \A i \in DOMAIN files[d] : files[d][i].session \in Int
    <3>1. \A d \in Days : \A i \in DOMAIN files[d] : files[d][i] \in Lines
      BY DEF FilesOK
    <3> QED BY <3>1 DEF Lines, Sessions
  <2> QED BY <1>0, <1>4, <2>1 DEF SoFar
<1>11. Ready' /\ ReadyOwn'
  BY <1>3 DEF Ready, ReadyOwn, Started
<1>12. HeaderReady'
  BY <1>0, <1>1, <1>3, <1>4, HeaderIsThere DEF HeaderReady, FilesOK
<1>13. ASSUME StrictInv PROVE StrictInv'
  <2>1. verdict' = truth'
    BY <1>4, <1>5, <1>13, VerdictIsTrue DEF StrictInv
  <2>2. booted'[cur + 1] = boot
    BY <1>0, <1>4 DEF Types
  <2>3. Whole' /\ HeadersAre'
    BY <1>4, <1>13 DEF StrictInv, Whole, HeadersAre
  <2> QED BY <1>4, <1>7, <1>11, <1>12, <1>13, <2>1, <2>2, <2>3 DEF StrictInv, VerdictRight
<1> QED BY <1>6, <1>7, <1>8, <1>9, <1>10, <1>11, <1>13

LEMMA SampleKeeps ==
    ASSUME ForensicsAssumption, RecorderInv, Sample \/ Stop
    PROVE  RecorderInv' /\ (StrictInv => StrictInv')
<1> USE DEF RecorderInv
<1>1. PICK k \in {"sample", "stop"} : Write(k, day, cur, cols)
  BY DEF Sample, Stop
<1>2. /\ running /\ todo = <<>> /\ samples' \in 0..MaxSamples
      /\ UNCHANGED <<today, files, cur, cols, running, booted, boot, reused, verdict, truth>>
  BY DEF Sample, Stop, Types, ForensicsAssumption
<1>3. /\ TodoOK' /\ LaterEmpty' /\ SoFar' /\ Ready' /\ day' \in Days
      /\ (ReadyOwn => ReadyOwn') /\ (HeaderReady => HeaderReady')
  BY <1>1, <1>2, WriteKeeps
<1>4. Types' /\ FilesOK(files)'
  BY <1>2, <1>3 DEF Types
<1>5. StrictInv => StrictInv'
  BY <1>2, <1>3 DEF StrictInv, Whole, HeadersAre, VerdictRight
<1> QED BY <1>3, <1>4, <1>5

LEMMA NextDayKeeps ==
    ASSUME ForensicsAssumption, RecorderInv, NextDay \/ (\E s \in Sessions : ReusePid(s)) \/ UNCHANGED vars
    PROVE  RecorderInv' /\ (NoFaults /\ StrictInv => StrictInv')
<1> USE DEF RecorderInv
<1>1. /\ UNCHANGED <<files, cur, cols, running, day, todo, booted, boot, samples, verdict, truth>>
      /\ today' = today \/ (NextDay /\ today' = today + 1)
      /\ reused' \subseteq Sessions /\ (NoFaults => reused' = reused)
  BY DEF NextDay, ReusePid, vars, Types, NoFaults
<1>2. today \in Int /\ today' \in Days /\ today <= today'
  BY <1>1 DEF NextDay, Types, Days, ForensicsAssumption
<1>3. Types'
  BY <1>1, <1>2 DEF Types
<1>4. TodoOK'
  <2>0. running => day \in Int
    BY DEF TodoOK, Days
  <2>1. todo # <<>> => today' \in {day, day + 1}
    BY <1>1 DEF NextDay, TodoOK
  <2> QED BY <1>1, <1>2, <2>0, <2>1 DEF TodoOK
<1>5. LaterEmpty'
  <2>1. \A e \in Days : e \in Int
    BY DEF Days
  <2> QED BY <1>1, <1>2, <2>1 DEF LaterEmpty, WriteDay
<1>6. FilesOK(files)' /\ SoFar' /\ Ready'
  BY <1>1 DEF SoFar, Ready, Started
<1>7. NoFaults /\ StrictInv => StrictInv'
  BY <1>1 DEF StrictInv, Whole, ReadyOwn, Started, HeaderReady, HeadersAre, VerdictRight
<1> QED BY <1>3, <1>4, <1>5, <1>6, <1>7

LEMMA TailOK ==
    ASSUME TodoOK, todo # <<>>, todo' = Tail(todo), UNCHANGED <<today, cur, cols, day>>,
           running' = running \/ (todo[1].kind = "stop" /\ ~running')
    PROVE  TodoOK'
<1>1. /\ todo' \in Seq(Lines) /\ todo[1] \in Lines /\ 1 \in DOMAIN todo
      /\ \A i \in DOMAIN todo' : i + 1 \in DOMAIN todo /\ i \in Nat \ {0} /\ todo'[i] = todo[i + 1]
      /\ \A kd \in LineKinds : kd # todo[1].kind => (Pending(todo', kd) <=> Pending(todo, kd))
      /\ ~Pending(todo', "rollover") /\ ~Pending(todo', todo[1].kind)
      /\ \A kd \in LineKinds : Rank(kd) <= Rank(todo[1].kind) => ~Pending(todo', kd)
      /\ running /\ (Rank(todo[1].kind) = 5 => todo' = <<>>)
  BY TailIs
<1>2. \A i \in DOMAIN todo' : todo'[i].kind # "rollover"
  BY <1>1 DEF Pending
<1>3. \A i \in DOMAIN todo' : todo'[i].session = cur /\ todo'[i].cols = cols
             /\ todo'[i].kind \notin {"torn", "junk"} /\ todo'[i].day = day
  BY <1>1, <1>2 DEF TodoOK
<1>4. ASSUME NEW i \in DOMAIN todo', NEW j \in DOMAIN todo', i < j
      PROVE  Rank(todo'[i].kind) < Rank(todo'[j].kind)
  <2>1. /\ i + 1 \in DOMAIN todo /\ j + 1 \in DOMAIN todo /\ i + 1 < j + 1
        /\ todo'[i] = todo[i + 1] /\ todo'[j] = todo[j + 1]
    BY <1>1, <1>4
  <2> QED BY <2>1 DEF TodoOK
<1>5. Pending(todo', "start") => ~Pending(todo', "resumed") /\ ~Pending(todo', "rollover")
  BY <1>1 DEF TodoOK, LineKinds
<1>6. Pending(todo', "prune") => Pending(todo', "start") \/ Pending(todo', "resumed")
  <2>1. CASE todo[1].kind \in {"start", "resumed"}
    BY <1>1, <2>1 DEF Rank, LineKinds
  <2>2. CASE todo[1].kind \notin {"start", "resumed"}
    BY <1>1, <2>2 DEF TodoOK, LineKinds
  <2> QED BY <2>1, <2>2
<1>7. ~running' => todo' = <<>>
  BY <1>1 DEF Rank
<1>8. /\ running' => day' \in Days /\ day' <= today' /\ cur' \in Sessions
      /\ todo' # <<>> => today' \in {day', day' + 1}
  BY <1>1 DEF TodoOK
<1> QED BY <1>1, <1>2, <1>3, <1>4, <1>5, <1>6, <1>7, <1>8 DEF TodoOK

LEMMA PruneKeeps ==
    ASSUME ForensicsAssumption, RecorderInv, Prune
    PROVE  RecorderInv' /\ (StrictInv => StrictInv')
<1> USE DEF RecorderInv
<1> DEFINE k == today - RetentionDays
<1>0. /\ today \in Int /\ RetentionDays \in Nat \ {0} /\ k \in Int /\ k < today
      /\ \A d \in Days : d \in Int
  BY DEF ForensicsAssumption, Types, Days
<1>1. /\ todo # <<>> /\ Head(todo).kind = "prune" /\ todo' = Tail(todo) /\ files' = Pruned(files, k)
      /\ UNCHANGED <<today, cur, cols, running, day, booted, boot, reused, samples, verdict, truth>>
  BY DEF Prune, Pruned
<1> HIDE DEF k
<1>2. /\ todo' \in Seq(Lines) /\ todo[1] \in Lines /\ Head(todo) = todo[1] /\ 1 \in DOMAIN todo
      /\ \A i \in DOMAIN todo' : i + 1 \in DOMAIN todo /\ i \in Nat \ {0} /\ todo'[i] = todo[i + 1]
      /\ \A kd \in LineKinds : kd # todo[1].kind => (Pending(todo', kd) <=> Pending(todo, kd))
      /\ ~Pending(todo', "rollover") /\ ~Pending(todo', "prune")
      /\ running
  BY <1>1, TailIs
<1>3. /\ Pending(todo', "start") <=> Pending(todo, "start")
      /\ Pending(todo', "resumed") <=> Pending(todo, "resumed")
      /\ Pending(todo', "header") <=> Pending(todo, "header")
      /\ Pending(todo, "start") \/ Pending(todo, "resumed")
  <2>1. Pending(todo, "prune")
    BY <1>1, <1>2 DEF Pending
  <2> QED BY <1>1, <1>2, <2>1 DEF LineKinds, TodoOK
<1>4. TodoOK'
  BY <1>1, <1>2, TailOK
<1>5. /\ files' \in [Days -> Seq(Lines)]
      /\ \A d \in Days : \A i \in DOMAIN files'[d] :
             d >= k /\ i \in DOMAIN files[d] /\ files'[d] = files[d]
      /\ \A d \in Days : d >= k => files'[d] = files[d]
      /\ FilesOK(files') /\ (FilesOwn(files) => FilesOwn(files'))
      /\ \A d \in Days, i \in Nat : d >= k /\ StartAfter(files, d, i) => StartAfter(files', d, i)
      /\ \A d \in Days, i \in Nat, s \in Nat :
             d >= k /\ OwnStartAfter(files, s, d, i) => OwnStartAfter(files', s, d, i)
  <2>1. files \in [Days -> Seq(Lines)] /\ FilesOK(files)
    BY DEF FilesOK
  <2> QED BY <1>0, <1>1, <2>1, PrunedIsOK
<1>6. \A d \in Days : files[d] = <<>> => files'[d] = <<>>
  BY <1>0, <1>1, <1>5 DEF Pruned
<1>7. LaterEmpty'
  <2>1. WriteDay = day /\ WriteDay' = day
    <3>1. todo' # <<>> => todo'[1].kind # "rollover"
      BY <1>2 DEF Pending
    <3> QED BY <1>1, <1>2, <3>1 DEF WriteDay
  <2> QED BY <1>1, <1>6, <2>1 DEF LaterEmpty
<1>8. SoFar'
  BY <1>1, <1>3, <1>5 DEF SoFar
<1>9. \A d \in Days : \A i \in DOMAIN files[d] : i \in Nat
  BY DEF FilesOK
<1>10. Ready' /\ (ReadyOwn => ReadyOwn')
  <2>1. Started' => Started
    BY <1>1, <1>3 DEF Started
  <2>2. ~(Started' /\ ~Pending(todo', "resumed"))
    BY <1>3 DEF Started
  <2>3. Ready'
    <3>1. ASSUME Started', NEW d \in Days, NEW i \in DOMAIN files'[d], files'[d][i].kind = "stop"
          PROVE  StartAfter(files', d, i)
      <4>1. d >= k /\ i \in DOMAIN files[d] /\ files[d][i].kind = "stop" /\ i \in Nat
        BY <1>5, <1>9, <3>1
      <4>2. StartAfter(files, d, i)
        BY <2>1, <3>1, <4>1 DEF Ready
      <4> QED BY <1>5, <4>1, <4>2
    <3> QED BY <2>2, <3>1 DEF Ready
  <2>4. ASSUME ReadyOwn PROVE ReadyOwn'
    <3>1. ASSUME Started', NEW d \in Days, NEW i \in DOMAIN files'[d],
                 IsStart(files'[d][i]), files'[d][i].session < cur
          PROVE  OwnStartAfter(files', cur, d, i)
      <4>1. d >= k /\ i \in DOMAIN files[d] /\ files'[d][i] = files[d][i] /\ i \in Nat /\ cur \in Nat
        BY <1>5, <1>9, <3>1 DEF Types
      <4>2. OwnStartAfter(files, cur, d, i)
        BY <2>1, <2>4, <3>1, <4>1 DEF ReadyOwn
      <4> QED BY <1>5, <4>1, <4>2
    <3> QED BY <1>1, <2>2, <3>1 DEF ReadyOwn
  <2> QED BY <2>3, <2>4
<1>11. Types'
  BY <1>1 DEF Types
<1>12. ASSUME StrictInv PROVE StrictInv'
  <2>1. day >= k /\ day \in Days
    BY <1>0, <1>1, <1>2 DEF TodoOK, k
  <2>2. HeaderReady'
    BY <1>1, <1>3, <1>5, <1>12, <2>1 DEF HeaderReady, StrictInv
  <2>3. Whole' /\ HeadersAre'
    BY <1>5, <1>12 DEF StrictInv, Whole, HeadersAre
  <2> QED BY <1>1, <1>5, <1>10, <1>12, <2>2, <2>3 DEF StrictInv, VerdictRight
<1> QED BY <1>4, <1>5, <1>7, <1>8, <1>10, <1>11, <1>12

\* A line is written.
LEMMA RawKeeps ==
    ASSUME ForensicsAssumption, RecorderInv, Raw
    PROVE  RecorderInv' /\ (StrictInv => StrictInv')
<1> USE DEF RecorderInv
<1> DEFINE l == todo[1]
           d == l.day
           n == Len(files[d]) + 1
<1>1. /\ todo # <<>> /\ Head(todo).kind # "prune" /\ todo' = Tail(todo)
      /\ files' = [files EXCEPT ![Head(todo).day] = Appended(@, Head(todo))]
      /\ running' = (Head(todo).kind # "stop")
      /\ UNCHANGED <<today, cur, cols, day, booted, boot, reused, samples, verdict, truth>>
  BY DEF Raw
<1>2. /\ todo' \in Seq(Lines) /\ l \in Lines /\ Head(todo) = l /\ 1 \in DOMAIN todo
      /\ \A kd \in LineKinds : kd # l.kind => (Pending(todo', kd) <=> Pending(todo, kd))
      /\ ~Pending(todo', "rollover") /\ ~Pending(todo', l.kind)
      /\ \A kd \in LineKinds : Rank(kd) <= Rank(l.kind) => ~Pending(todo', kd)
      /\ running /\ (Rank(l.kind) = 5 => todo' = <<>>)
  BY <1>1, TailIs
<1>3. /\ l.session = cur /\ l.cols = cols /\ l.kind \notin {"torn", "junk", "prune"} /\ l.kind \in LineKinds
      /\ IF l.kind = "rollover" THEN d < day ELSE d = day
      /\ d \in Days /\ d \in Int /\ day \in Days /\ day \in Int /\ \A e \in Days : e \in Int
      /\ cur \in Int
  BY <1>1, <1>2 DEF TodoOK, Lines, Days, Types
<1>4. \A e \in Days : e > d => files[e] = <<>>
  BY <1>1, <1>2, <1>3 DEF LaterEmpty, WriteDay
<1>5. files' = [files EXCEPT ![d] = Appended(files[d], l)]
  BY <1>1, <1>2
<1>6. files \in [Days -> Seq(Lines)] /\ FilesOK(files)
  BY DEF FilesOK
<1>7. Extends(files, files', d, l) \/ Swallows(files, files', d)
  <2> HIDE DEF l, d
  <2> QED BY <1>2, <1>3, <1>4, <1>5, <1>6, AppendedIs
<1> HIDE DEF l, d
\* what is pending before and after
<1>8. /\ l.kind = "start" => Pending(todo, "start")
      /\ l.kind = "resumed" => Pending(todo, "resumed")
      /\ l.kind # "start" => (Pending(todo', "start") <=> Pending(todo, "start"))
      /\ l.kind # "resumed" => (Pending(todo', "resumed") <=> Pending(todo, "resumed"))
      /\ l.kind # "header" => (Pending(todo', "header") <=> Pending(todo, "header"))
      /\ Pending(todo', "start") => l.kind = "header" /\ Pending(todo, "start")
      /\ l.kind = "resumed" \/ Opens(l) => ~Pending(todo, "start")
      /\ Opens(l) => ~Pending(todo, "resumed") /\ ~Pending(todo, "header")
      /\ l.kind \in {"start", "resumed", "sample", "stop"} => ~Pending(todo', "start")
  <2>1. /\ l.kind = "start" => Pending(todo, "start")
        /\ l.kind = "resumed" => Pending(todo, "resumed")
        /\ l.kind = "rollover" => Pending(todo, "rollover")
    BY <1>2 DEF Pending, l
  <2>2. l.kind \in {"rollover", "header", "start", "resumed", "sample", "stop"}
    BY <1>3 DEF LineKinds
  <2>3. {"start", "resumed", "header"} \subseteq LineKinds
    BY DEF LineKinds
  <2>4. l.kind \in {"start", "sample", "stop"} =>
            ~Pending(todo', "start") /\ ~Pending(todo', "resumed") /\ ~Pending(todo', "header")
    BY <1>2, <2>3 DEF Rank
  <2>5. Opens(l) => l.kind \in {"sample", "stop"}
    BY <1>3 DEF Opens
  <2>6. l.kind = "resumed" \/ l.kind = "rollover" => ~Pending(todo, "start")
    BY <2>1 DEF TodoOK
  <2> QED BY <1>2, <2>1, <2>2, <2>3, <2>4, <2>5, <2>6
<1>9. \A e \in Days : \A i \in DOMAIN files[e] : files[e][i].session \in Int /\ files[e][i] \in Lines
  <2>1. \A e \in Days : \A i \in DOMAIN files[e] : files[e][i] \in Lines
    BY <1>6
  <2> QED BY <2>1 DEF Lines, Sessions
<1>10. TodoOK'
  <2>1. running' = running \/ (todo[1].kind = "stop" /\ ~running')
    BY <1>1, <1>2 DEF l, TodoOK, Types
  <2> QED BY <1>1, <2>1, TailOK
<1>11. Types'
  BY <1>1, <1>2 DEF Types
\* the files
<1>12. ASSUME Extends(files, files', d, l)
       PROVE  /\ FilesOK(files')
              /\ n \in DOMAIN files'[d] /\ files'[d][n] = l
              /\ \A e \in Days : \A i \in DOMAIN files[e] :
                     /\ i \in DOMAIN files'[e] /\ files'[e][i] = files[e][i] /\ i \in Nat
                     /\ Before(e, i, d, n) /\ ~(e = d /\ i = n)
              /\ \A e \in Days : \A i \in DOMAIN files'[e] : i \in DOMAIN files[e] \/ (e = d /\ i = n)
  <2>1. \A e \in Days : \A i \in DOMAIN files[e] :
               /\ files[e][i].session <= l.session
               /\ l.kind = "start" /\ files[e][i].kind # "header" => files[e][i].session < l.session
               /\ files[e][i].kind = "stop" => files[e][i].session < l.session
               /\ files[e][i].kind = "stop" /\ (Opens(l) \/ l.kind = "resumed") => StartAfter(files, e, i)
    BY <1>2, <1>3, <1>8 DEF SoFar, Ready, Started
  <2>2. Opens(l) => \E h \in DOMAIN files[d] : IsStart(files[d][h])
    BY <1>2, <1>3, <1>8 DEF Ready, Started, Opens
  <2>3. FilesOK(files')
    BY <1>6, <1>12, <2>1, <2>2, ExtendedIsOK
  <2> QED BY <1>12, <2>3, LinesOfExtended DEF n
<1>13. ASSUME Swallows(files, files', d)
       PROVE  /\ FilesOK(files')
              /\ \A e \in Days : \A i \in DOMAIN files'[e] :
                     /\ i \in DOMAIN files[e] /\ files'[e][i].session = files[e][i].session
                     /\ \A k \in {"start", "resumed", "stop", "header"} :
                            files'[e][i].kind = k <=> files[e][i].kind = k
              /\ \A e \in Days : DOMAIN files'[e] = DOMAIN files[e]
              /\ Len(files[d]) \in DOMAIN files[d] /\ files[d][Len(files[d])].kind = "torn"
              /\ \A e \in Days : \A i \in DOMAIN files[e] :
                     e < d \/ (e = d /\ i <= Len(files[d]))
  <2>1. files[d] # <<>> /\ files[d] \in Seq(Lines) /\ files[d][Len(files[d])].kind = "torn"
    BY <1>3, <1>6, <1>13 DEF Swallows
  <2>2. \A e \in Days : \A i \in DOMAIN files[e] : e < d \/ (e = d /\ i <= Len(files[d]))
    <3>1. \A e \in Days : e > d => DOMAIN files[e] = {}
      BY <1>4
    <3>2. \A i \in DOMAIN files[d] : i <= Len(files[d])
      BY <2>1
    <3> QED BY <1>3, <3>1, <3>2
  <2>3. Len(files[d]) \in DOMAIN files[d]
    BY <2>1
  <2> QED BY <1>6, <1>13, <2>1, <2>2, <2>3, SwallowedIsOK
<1> HIDE DEF n
<1>14. FilesOK(files)'
  BY <1>7, <1>12, <1>13
<1>15. LaterEmpty'
  <2>1. \A e \in Days : e > d => files'[e] = files[e]
    BY <1>3, <1>5, <1>6
  <2>2. WriteDay' = day
    <3>1. todo' # <<>> => todo'[1].kind # "rollover"
      BY <1>2 DEF Pending
    <3> QED BY <1>1, <3>1 DEF WriteDay
  <2>3. day <= today /\ today \in Int
    BY <1>2, <1>3 DEF TodoOK, Types, Days
  <2> QED BY <1>1, <1>2, <1>3, <1>4, <2>1, <2>2, <2>3 DEF LaterEmpty
<1>16. SoFar'
  <2>1. running' => l.kind # "stop"
    BY <1>1, <1>2
  <2>2. CASE Extends(files, files', d, l)
    <3> SUFFICES ASSUME NEW e \in Days, NEW i \in DOMAIN files'[e]
                 PROVE  /\ files'[e][i].session <= cur
                        /\ running' /\ files'[e][i].kind = "stop" => files'[e][i].session < cur
                        /\ Pending(todo', "start") /\ files'[e][i].kind # "header" =>
                               files'[e][i].session < cur
      BY <1>1 DEF SoFar
    <3>1. CASE i \in DOMAIN files[e]
      BY <1>2, <1>8, <1>12, <2>2, <3>1 DEF SoFar
    <3>2. CASE e = d /\ i = n
      BY <1>3, <1>8, <1>12, <2>1, <2>2, <3>2
    <3> QED BY <1>12, <2>2, <3>1, <3>2
  <2>3. CASE Swallows(files, files', d)
    BY <1>1, <1>2, <1>8, <1>13, <2>3 DEF SoFar
  <2> QED BY <1>7, <2>2, <2>3
<1>17. running' => l.kind # "stop"
  BY <1>1, <1>2
<1>18. Ready'
  <2>1. ASSUME Started', NEW e \in Days, NEW i \in DOMAIN files'[e], files'[e][i].kind = "stop"
        PROVE  StartAfter(files', e, i)
    <3>1. i \in DOMAIN files[e] /\ files[e][i].kind = "stop"
      <4>1. l.kind # "stop"
        BY <1>17, <2>1 DEF Started
      <4> QED BY <1>7, <1>12, <1>13, <2>1, <4>1
    <3>2. CASE l.kind # "start"
      <4>1. StartAfter(files, e, i)
        BY <1>2, <1>8, <2>1, <3>1, <3>2 DEF Ready, Started
      <4>2. CASE Extends(files, files', d, l)
        BY <1>12, <4>1, <4>2 DEF StartAfter
      <4>3. CASE Swallows(files, files', d)
        BY <1>13, <4>1, <4>3 DEF StartAfter
      <4> QED BY <1>7, <4>2, <4>3
    <3>3. CASE l.kind = "start" /\ Extends(files, files', d, l)
      BY <1>3, <1>12, <3>1, <3>3 DEF StartAfter
    <3>4. CASE l.kind = "start" /\ Swallows(files, files', d)
      <4> DEFINE m == Len(files[d])
      <4>1. m \in DOMAIN files[d] /\ Opens(files[d][m])
        BY <1>13, <3>4 DEF Opens
      <4>2. Before(e, i, d, m)
        <5>1. ~(e = d /\ i = m)
          BY <1>13, <3>1, <3>4
        <5>2. i \in Int /\ m \in Int
          BY <1>3, <1>6, <3>1
        <5> QED BY <1>3, <1>13, <3>1, <3>4, <5>1, <5>2 DEF Before
      <4>3. StartBetween(files, e, i, d, m)
        BY <1>3, <1>6, <3>1, <4>1, <4>2 DEF FilesOK, Reopened
      <4>4. StartAfter(files, e, i)
        BY <4>3 DEF StartAfter, StartBetween
      <4> QED BY <1>13, <3>4, <4>4 DEF StartAfter
    <3> QED BY <1>7, <3>2, <3>3, <3>4
  <2>2. ASSUME Started', ~Pending(todo', "resumed")
        PROVE  \E h \in DOMAIN files'[day] : IsStart(files'[day][h])
    <3>1. CASE l.kind \notin {"start", "resumed"}
      <4>1. \E h \in DOMAIN files[day] : IsStart(files[day][h])
        BY <1>2, <1>8, <2>2, <3>1 DEF Ready, Started
      <4> QED BY <1>3, <1>7, <1>12, <1>13, <4>1 DEF IsStart
    <3>2. CASE l.kind \in {"start", "resumed"} /\ Extends(files, files', d, l)
      BY <1>3, <1>12, <3>2 DEF IsStart
    <3>3. CASE l.kind \in {"start", "resumed"} /\ Swallows(files, files', d)
      <4>1. Opens(files[d][Len(files[d])]) /\ Len(files[d]) \in DOMAIN files[d] /\ d = day
        BY <1>3, <1>13, <3>3 DEF Opens
      <4>2. \E h \in DOMAIN files[d] : IsStart(files[d][h])
        BY <1>3, <1>6, <4>1 DEF FilesOK, Opened
      <4> QED BY <1>3, <1>13, <3>3, <4>1, <4>2 DEF IsStart
    <3> QED BY <1>7, <3>1, <3>2, <3>3
  <2> QED BY <1>1, <2>1, <2>2 DEF Ready
\* without faults
<1>19. ASSUME StrictInv PROVE StrictInv'
  <2>1. Extends(files, files', d, l)
    BY <1>7, <1>13, <1>3, <1>19 DEF StrictInv, Whole
  <2>2. Whole'
    BY <1>3, <1>12, <1>19, <2>1 DEF StrictInv, Whole
  <2>3. FilesOwn(files')
    <3>1. \A e \in Days : \A i \in DOMAIN files[e] :
               IsStart(files[e][i]) /\ l.kind = "resumed" /\ files[e][i].session < l.session =>
                   OwnStartAfter(files, l.session, e, i)
      BY <1>2, <1>3, <1>8, <1>19 DEF StrictInv, ReadyOwn, Started
    <3>2. Opens(l) => \E h \in DOMAIN files[d] : IsStart(files[d][h]) /\ files[d][h].session = l.session
      BY <1>2, <1>3, <1>8, <1>19 DEF StrictInv, ReadyOwn, Started, Opens
    <3> QED BY <1>19, <2>1, <3>1, <3>2, ExtendedIsOwn DEF StrictInv
  <2>4. ReadyOwn'
    <3>1. ASSUME Started', NEW e \in Days, NEW i \in DOMAIN files'[e],
                 IsStart(files'[e][i]), files'[e][i].session < cur
          PROVE  OwnStartAfter(files', cur, e, i)
      <4>1. i \in DOMAIN files[e] /\ files'[e][i] = files[e][i]
        BY <1>3, <1>12, <2>1, <3>1
      <4>2. CASE l.kind = "start"
        BY <1>3, <1>12, <2>1, <4>1, <4>2 DEF OwnStartAfter
      <4>3. CASE l.kind # "start"
        <5>1. OwnStartAfter(files, cur, e, i)
          BY <1>2, <1>8, <1>19, <3>1, <4>1, <4>3 DEF StrictInv, ReadyOwn, Started
        <5> QED BY <1>12, <2>1, <5>1 DEF OwnStartAfter
      <4> QED BY <4>2, <4>3
    <3>2. ASSUME Started', ~Pending(todo', "resumed")
          PROVE  \E h \in DOMAIN files'[day] : IsStart(files'[day][h]) /\ files'[day][h].session = cur
      <4>1. CASE l.kind \in {"start", "resumed"}
        BY <1>3, <1>12, <2>1, <4>1 DEF IsStart
      <4>2. CASE l.kind \notin {"start", "resumed"}
        BY <1>2, <1>3, <1>8, <1>12, <1>19, <2>1, <3>2, <4>2 DEF StrictInv, ReadyOwn, Started
      <4> QED BY <4>1, <4>2
    <3> QED BY <1>1, <3>1, <3>2 DEF ReadyOwn
  <2>5. \A e \in Days : \A c : LastHeader(files[e], c) /\ l.kind # "header" => LastHeader(files'[e], c)
    BY <1>12, <2>1 DEF LastHeader
  <2>6. HeaderReady'
    <3>1. CASE l.kind = "header"
      <4>1. \A j \in DOMAIN files'[d] : j <= n
        BY <1>3, <1>6, <1>12, <2>1 DEF n
      <4> QED BY <1>1, <1>3, <1>12, <2>1, <3>1, <4>1 DEF HeaderReady, LastHeader
    <3>2. CASE l.kind # "header"
      BY <1>1, <1>2, <1>3, <1>8, <1>19, <2>5, <3>2 DEF StrictInv, HeaderReady
    <3> QED BY <3>1, <3>2
  <2>7. HeadersAre'
    <3> SUFFICES ASSUME NEW e \in Days, NEW i \in DOMAIN files'[e], files'[e][i].kind = "sample"
                 PROVE  HeaderAbove(files'[e], i, files'[e][i].cols)
      BY DEF HeadersAre
    <3>1. CASE i \in DOMAIN files[e]
      <4>1. HeaderAbove(files[e], i, files'[e][i].cols)
        BY <1>12, <1>19, <2>1, <3>1 DEF StrictInv, HeadersAre
      <4>2. \A j \in DOMAIN files'[e] : j <= i => j \in DOMAIN files[e]
        <5>1. e = d => i < n /\ i \in Int /\ n \in Int
          BY <1>3, <1>6, <3>1 DEF n
        <5> QED BY <1>12, <2>1, <5>1
      <4> QED BY <1>12, <2>1, <4>1, <4>2 DEF HeaderAbove
    <3>2. CASE e = d /\ i = n
      <4>1. l.kind = "sample" /\ files'[e][i] = l
        BY <1>12, <2>1, <3>2
      <4>2. LastHeader(files[day], cols) /\ d = day
        BY <1>2, <1>3, <1>8, <1>19, <4>1 DEF StrictInv, HeaderReady, Opens
      <4>3. \A j \in DOMAIN files[d] : j < n
        BY <1>3, <1>6 DEF n
      <4>4. PICK h \in DOMAIN files[d] :
                  /\ files[d][h].kind = "header" /\ files[d][h].cols = cols
                  /\ \A j \in DOMAIN files[d] : files[d][j].kind = "header" => j <= h
        BY <4>2 DEF LastHeader
      <4>5. \A j \in DOMAIN files'[d] : files'[d][j].kind = "header" => j <= h
        BY <1>3, <1>12, <2>1, <4>1, <4>4
      <4> QED BY <1>3, <1>12, <2>1, <3>2, <4>1, <4>3, <4>4, <4>5 DEF HeaderAbove
    <3> QED BY <1>12, <2>1, <3>1, <3>2
  <2> QED BY <1>1, <1>2, <1>19, <2>2, <2>3, <2>4, <2>6, <2>7 DEF StrictInv, VerdictRight
<1> QED BY <1>10, <1>11, <1>14, <1>15, <1>16, <1>18, <1>19

\* A death, with or without a torn line.
LEMMA DieKeeps ==
    ASSUME ForensicsAssumption, RecorderInv, Die
    PROVE  RecorderInv' /\ (NoFaults /\ StrictInv => StrictInv')
<1> USE DEF RecorderInv
<1>1. /\ running /\ running' = FALSE /\ todo' = <<>> /\ day' = NoDay
      /\ boot' \in {boot, boot + 1} /\ reused' \in {reused, {}}
      /\ UNCHANGED <<today, cur, cols, booted, samples, verdict, truth>>
  BY DEF Die
<1>2. Types'
  <2>1. boot' \in Nat \ {0} /\ reused' \subseteq Sessions
    BY <1>1 DEF Types
  <2> QED BY <1>1, <2>1 DEF Types
<1>3. TodoOK'
  BY <1>1 DEF TodoOK, Pending
<1>4. Ready' /\ ReadyOwn' /\ HeaderReady'
  BY <1>1 DEF Ready, ReadyOwn, Started, HeaderReady
<1>5. ~Pending(todo', "start")
  BY <1>1 DEF Pending
<1>6. CASE UNCHANGED files
  <2>1. LaterEmpty' /\ SoFar' /\ FilesOK(files)'
    BY <1>1, <1>5, <1>6 DEF LaterEmpty, SoFar
  <2>2. NoFaults /\ StrictInv => StrictInv'
    BY <1>1, <1>4, <1>6 DEF StrictInv, Whole, HeadersAre, VerdictRight
  <2> QED BY <1>2, <1>3, <1>4, <2>1, <2>2
<1>7. CASE /\ "torn" \in Faults /\ todo # <<>> /\ Head(todo).kind = "sample"
           /\ files' = [files EXCEPT ![Head(todo).day] = Appended(@, [Head(todo) EXCEPT !.kind = "torn"])]
  <2> DEFINE l == [todo[1] EXCEPT !.kind = "torn"]
             d == todo[1].day
  <2>1. /\ todo[1] \in Lines /\ Head(todo) = todo[1] /\ 1 \in DOMAIN todo
        /\ \A kd \in LineKinds : Rank(kd) <= Rank(todo[1].kind) /\ kd # todo[1].kind => ~Pending(todo, kd)
    <3>1. \A q : q = Tail(todo) =>
             /\ todo[1] \in Lines /\ Head(todo) = todo[1] /\ 1 \in DOMAIN todo
             /\ \A kd \in LineKinds : kd # todo[1].kind => (Pending(q, kd) <=> Pending(todo, kd))
             /\ \A kd \in LineKinds : Rank(kd) <= Rank(todo[1].kind) => ~Pending(q, kd)
      BY <1>7, TailIs
    <3> QED BY <3>1
  <2>2. /\ todo[1].session = cur /\ todo[1].kind = "sample" /\ d = day
        /\ d \in Days /\ cur \in Int
    BY <1>1, <1>7, <2>1 DEF TodoOK, Types
  <2>3. l \in Lines /\ l.kind = "torn" /\ l.session = cur
    BY <2>1, <2>2 DEF Lines, LineKinds
  <2>4. files' = [files EXCEPT ![d] = Appended(files[d], l)]
    BY <1>7, <2>1
  <2>5. \A e \in Days : e > d => files[e] = <<>>
    BY <1>1, <1>7, <2>1, <2>2 DEF LaterEmpty, WriteDay
  <2>6. files \in [Days -> Seq(Lines)] /\ FilesOK(files)
    BY DEF FilesOK
  <2> HIDE DEF l, d
  <2>7. Extends(files, files', d, l) \/ Swallows(files, files', d)
    BY <2>2, <2>3, <2>4, <2>5, <2>6, AppendedIs
  <2>8. ~Pending(todo, "start") /\ ~Pending(todo, "resumed")
    BY <2>1, <2>2 DEF Rank, LineKinds
  <2>9. ASSUME Extends(files, files', d, l) PROVE FilesOK(files') /\ SoFar'
    <3>1. \A e \in Days : \A i \in DOMAIN files[e] :
                 /\ files[e][i].session <= l.session
                 /\ l.kind = "start" /\ files[e][i].kind # "header" => files[e][i].session < l.session
                 /\ files[e][i].kind = "stop" => files[e][i].session < l.session
                 /\ files[e][i].kind = "stop" /\ (Opens(l) \/ l.kind = "resumed") => StartAfter(files, e, i)
      BY <1>1, <2>3, <2>8 DEF SoFar, Ready, Started
    <3>2. \E h \in DOMAIN files[d] : IsStart(files[d][h])
      BY <1>1, <2>2, <2>8 DEF Ready, Started
    <3>3. FilesOK(files')
      BY <2>6, <2>9, <3>1, <3>2, ExtendedIsOK
    <3>4. SoFar'
      <4>1. \A e \in Days : \A i \in DOMAIN files'[e] : files'[e][i].session <= cur
        <5> SUFFICES ASSUME NEW e \in Days, NEW i \in DOMAIN files'[e]
                     PROVE  files'[e][i].session <= cur
          OBVIOUS
        <5>1. CASE i \in DOMAIN files[e]
          BY <2>9, <5>1, LinesOfExtended DEF SoFar
        <5>2. CASE e = d /\ i = Len(files[d]) + 1
          BY <2>2, <2>3, <2>9, <5>2, LinesOfExtended
        <5> QED BY <2>9, <5>1, <5>2, LinesOfExtended
      <4> QED BY <1>1, <1>5, <4>1 DEF SoFar
    <3> QED BY <3>3, <3>4
  <2>10. ASSUME Swallows(files, files', d) PROVE FilesOK(files') /\ SoFar'
    <3>1. /\ FilesOK(files')
          /\ \A e \in Days : \A i \in DOMAIN files'[e] :
                 i \in DOMAIN files[e] /\ files'[e][i].session = files[e][i].session
      BY <2>6, <2>10, SwallowedIsOK
    <3>2. SoFar'
      BY <1>1, <1>5, <3>1 DEF SoFar
    <3> QED BY <3>1, <3>2
  <2>11. FilesOK(files)' /\ SoFar'
    BY <2>7, <2>9, <2>10
  <2>12. LaterEmpty'
    <3>1. \A e \in Days : e > today => files'[e] = <<>>
      <4>1. day <= today /\ today \in Int /\ day \in Int /\ \A e \in Days : e \in Int
        BY <1>1 DEF TodoOK, Types, Days
      <4>2. \A e \in Days : e > today => e # d /\ files[e] = <<>>
        BY <2>2, <4>1 DEF LaterEmpty
      <4> QED BY <2>4, <2>6, <4>2
    <3> QED BY <1>1, <3>1 DEF LaterEmpty
  <2>13. ~NoFaults
    BY <1>7 DEF NoFaults
  <2> QED BY <1>2, <1>3, <1>4, <2>11, <2>12, <2>13
<1> QED BY <1>6, <1>7 DEF Die

\* The invariant is inductive, with faults and without.
LEMMA RecorderNext ==
    ASSUME ForensicsAssumption, RecorderInv, NoFaults => StrictInv, [Next]_vars
    PROVE  RecorderInv' /\ (NoFaults => StrictInv')
<1>1. CASE \E c \in Columns : Start(c)
  BY <1>1, StartKeeps
<1>2. CASE Sample \/ Stop
  BY <1>2, SampleKeeps
<1>3. CASE Raw
  BY <1>3, RawKeeps
<1>4. CASE Prune
  BY <1>4, PruneKeeps
<1>5. CASE Die
  BY <1>5, DieKeeps
<1>6. CASE NextDay \/ (\E s \in Sessions : ReusePid(s)) \/ UNCHANGED vars
  BY <1>6, NextDayKeeps
<1> QED BY <1>1, <1>2, <1>3, <1>4, <1>5, <1>6 DEF Next

-----------------------------------------------------------------------------
(* The loops of the post-mortem *)

Records == [session : Nat, resumed : BOOLEAN, clean : BOOLEAN]
Lists == Seq(Records)

LEMMA SessionIs ==
    ASSUME NEW s \in Nat, NEW r \in BOOLEAN
    PROVE  /\ Session(s, r) \in Records /\ Session(s, r).session = s
           /\ Session(s, r).resumed = r /\ Session(s, r).clean = FALSE
  BY DEF Session, Records

\* A list with another mark at its end.
LastMarked(q, b) == [q EXCEPT ![Len(q)].clean = b]

LEMMA LastMarkedIs ==
    ASSUME NEW q \in Lists, q # <<>>, NEW b \in BOOLEAN
    PROVE  /\ LastMarked(q, b) \in Lists /\ Len(LastMarked(q, b)) = Len(q)
           /\ Len(q) \in DOMAIN q /\ Len(q) \in Nat \ {0}
           /\ DOMAIN LastMarked(q, b) = DOMAIN q
           /\ \A i \in DOMAIN q :
                  /\ LastMarked(q, b)[i].session = q[i].session
                  /\ i # Len(q) => LastMarked(q, b)[i] = q[i]
           /\ LastMarked(q, b)[Len(q)] = [q[Len(q)] EXCEPT !.clean = b]
           /\ LastMarked(q, b)[Len(q)].clean = b
<1> DEFINE n == Len(q)
           t == [q[n] EXCEPT !.clean = b]
           p == LastMarked(q, b)
<1>1. n \in Nat \ {0} /\ DOMAIN q = 1..n /\ n \in DOMAIN q /\ \A i \in DOMAIN q : q[i] \in Records
  BY DEF Lists
<1>2. t \in Records /\ t.clean = b /\ t.session = q[n].session
  BY <1>1 DEF Records
<1>3. p = [q EXCEPT ![n] = t]
  BY DEF LastMarked
<1> HIDE DEF t, p, n
<1>4. p \in Lists /\ Len(p) = n /\ DOMAIN p = DOMAIN q
  BY <1>1, <1>2, <1>3 DEF Lists, n
<1>5. \A i \in DOMAIN q : p[i] = IF i = n THEN t ELSE q[i]
  BY <1>1, <1>3
<1> QED BY <1>1, <1>2, <1>4, <1>5 DEF n, p, t

LEMMA AppendIs ==
    ASSUME NEW q \in Lists, NEW s \in Records
    PROVE  /\ Append(q, s) \in Lists /\ Append(q, s) # <<>>
           /\ Len(q) \in Nat /\ DOMAIN q = 1..Len(q)
           /\ Len(Append(q, s)) = Len(q) + 1
           /\ DOMAIN Append(q, s) = 1..(Len(q) + 1)
           /\ Append(q, s)[Len(q) + 1] = s
           /\ \A i \in 1..Len(q) : Append(q, s)[i] = q[i]
  BY DEF Lists

\* Only the last mark counts.
LEMMA MarkedTwice ==
    ASSUME NEW q \in Lists, q # <<>>, NEW b \in BOOLEAN, NEW c \in BOOLEAN
    PROVE  LastMarked(LastMarked(q, b), c) = LastMarked(q, c)
<1> DEFINE n == Len(q)
           x == LastMarked(q, b)
           y == LastMarked(x, c)
           z == LastMarked(q, c)
<1>0. /\ n \in Nat \ {0} /\ DOMAIN q = 1..n /\ q[n] \in Records
      /\ \A p \in Lists : DOMAIN p = 1..Len(p)
  <2>1. q \in Seq(Records) /\ Len(q) \in Nat
    BY DEF Lists
  <2>2. Len(q) # 0
    BY <2>1
  <2> QED BY <2>1, <2>2 DEF Lists
<1>1. /\ x \in Lists /\ Len(x) = n /\ \A i \in 1..n : i # n => x[i] = q[i]
      /\ x[n] = [q[n] EXCEPT !.clean = b]
  BY <1>0, LastMarkedIs
<1>2. /\ z \in Lists /\ Len(z) = n
      /\ \A i \in 1..n : i # n => z[i] = q[i]
      /\ z[n] = [q[n] EXCEPT !.clean = c]
  BY <1>0, LastMarkedIs
<1>3. x # <<>>
  <2> HIDE DEF x
  <2> QED BY <1>0, <1>1
<1>4. /\ y \in Lists /\ Len(y) = n
      /\ \A i \in 1..n : i # n => y[i] = x[i]
      /\ y[n] = [x[n] EXCEPT !.clean = c]
  <2> HIDE DEF x, n
  <2>1. DOMAIN x = 1..n
    BY <1>0, <1>1
  <2>2. /\ y \in Lists /\ Len(y) = Len(x) /\ y[Len(x)] = [x[Len(x)] EXCEPT !.clean = c]
        /\ \A i \in DOMAIN x : i # Len(x) => y[i] = x[i]
    <3>1. x \in Lists /\ x # <<>>
      BY <1>1, <1>3
    <3> QED BY <3>1, LastMarkedIs
  <2> QED BY <1>1, <2>1, <2>2
<1> HIDE DEF n, x, y, z
<1>5. y[n] = z[n]
  <2>1. [[q[n] EXCEPT !.clean = b] EXCEPT !.clean = c] = [q[n] EXCEPT !.clean = c]
    BY <1>0 DEF Records
  <2>2. y[n] = [[q[n] EXCEPT !.clean = b] EXCEPT !.clean = c]
    BY <1>1, <1>4, Zenon
  <2> QED BY <1>2, <2>1, <2>2
<1>6. \A i \in 1..n : y[i] = z[i]
  BY <1>1, <1>2, <1>4, <1>5
<1>7. y = z
  BY <1>2, <1>4, <1>6, SeqEqual DEF Lists
<1> QED BY <1>7 DEF x, y, z

LEMMA MarkedAppended ==
    ASSUME NEW q \in Lists, NEW s \in Records
    PROVE  LastMarked(Append(q, s), TRUE) = Append(q, [s EXCEPT !.clean = TRUE])
<1> DEFINE n == Len(q) + 1
           t == [s EXCEPT !.clean = TRUE]
           x == Append(q, s)
           y == LastMarked(x, TRUE)
           z == Append(q, t)
<1>0. t \in Records
  BY DEF Records
<1>1. /\ x \in Lists /\ x # <<>> /\ Len(x) = n /\ x[n] = s /\ DOMAIN x = 1..n
      /\ \A i \in 1..Len(q) : x[i] = q[i]
      /\ Len(q) \in Nat
  BY AppendIs
<1>2. z \in Lists /\ Len(z) = n /\ z[n] = t /\ \A i \in 1..Len(q) : z[i] = q[i]
  <2> HIDE DEF t
  <2> QED BY <1>0, AppendIs
<1>3. /\ y \in Lists /\ Len(y) = n
      /\ \A i \in 1..n : i # n => y[i] = x[i]
      /\ y[n] = [x[n] EXCEPT !.clean = TRUE]
  <2> HIDE DEF x, n
  <2> QED BY <1>1, LastMarkedIs
<1>4. y[n] = z[n]
  <2> HIDE DEF n, x, y, z
  <2> QED BY <1>1, <1>2, <1>3
<1>5. \A i \in 1..n : i # n => i \in 1..Len(q)
  BY <1>1
<1> HIDE DEF n, x, y, z, t
<1>6. \A i \in 1..n : y[i] = z[i]
  BY <1>1, <1>2, <1>3, <1>4, <1>5
<1>7. y = z
  BY <1>2, <1>3, <1>6, SeqEqual DEF Lists
<1> QED BY <1>7 DEF x, y, z, t

LEMMA LoadLineTyped ==
    ASSUME NEW x \in Lists, NEW l \in Lines
    PROVE  LoadLine(x, l) \in Lists
<1>1. l.session \in Nat
  BY DEF Lines, Sessions
<1>2. /\ Session(l.session, FALSE) \in Records /\ Session(l.session, TRUE) \in Records
      /\ Session(0, TRUE) \in Records
  BY <1>1, SessionIs
<1>3. x # <<>> => [x EXCEPT ![Len(x)].clean = TRUE] \in Lists
  BY LastMarkedIs DEF LastMarked
<1>4. /\ Append(x, Session(l.session, FALSE)) \in Lists
      /\ Append(x, Session(l.session, TRUE)) \in Lists
  BY <1>2, AppendIs
<1>5. <<Session(0, TRUE)>> \in Lists
  <2>1. \A s \in Records : <<s>> \in Lists
    BY DEF Lists
  <2> QED BY <1>2, <2>1
<1> QED BY <1>3, <1>4, <1>5 DEF LoadLine

LEMMA JoinTyped ==
    ASSUME NEW x \in Lists, NEW s \in Records
    PROVE  Join(x, s) \in Lists
<1>1. s.clean \in BOOLEAN
  BY DEF Records
<1>2. x # <<>> => [x EXCEPT ![Len(x)].clean = s.clean] \in Lists
  BY <1>1, LastMarkedIs DEF LastMarked
<1>3. Append(x, s) \in Lists
  BY DEF Lists
<1> QED BY <1>2, <1>3 DEF Join

\* Load is the loop it is written as.
LEMMA LoadRuns ==
    ASSUME NEW f \in Seq(Lines)
    PROVE  /\ Load(f)[0] = <<>>
           /\ \A i \in 1..Len(f) : Load(f)[i] = LoadLine(Load(f)[i - 1], f[i])
           /\ \A i \in 0..Len(f) : Load(f)[i] \in Lists
<1> DEFINE n == Len(f)
           L == Load(f)
           Next1(i, x) == LoadLine(x, f[i])
           step == [i \in 1..n |-> [x \in Lists |-> Next1(i, x)]]
<1>1. n \in Nat /\ \A i \in 1..n : f[i] \in Lines
  OBVIOUS
<1>2. step \in [1..n -> [Lists -> Lists]]
  <2>1. \A i \in 1..n : \A x \in Lists : Next1(i, x) \in Lists
    BY <1>1, LoadLineTyped
  <2> HIDE DEF Next1, n
  <2> QED BY <2>1
<1>3. <<>> \in Lists
  BY DEF Lists
<1>4. PICK g : IsRun(g, n, Lists, <<>>, step)
  <2> HIDE DEF n, step
  <2> QED BY <1>1, <1>2, <1>3, Iterates
<1>5. ASSUME NEW i \in 1..n PROVE g[i] = Next1(i, g[i - 1])
  <2>1. i - 1 \in 0..n
    BY <1>1
  <2>2. g[i - 1] \in Lists /\ g[i] = step[i][g[i - 1]]
    BY <1>4, <2>1 DEF IsRun
  <2> HIDE DEF Next1, n
  <2> QED BY <2>2
<1>6. g = [i \in 0..n |-> IF i = 0 THEN <<>> ELSE Next1(i, g[i - 1])]
  <2> HIDE DEF Next1, step, n
  <2> QED BY <1>4, <1>5 DEF IsRun
<1>7. L = CHOOSE h : h = [i \in 0..n |-> IF i = 0 THEN <<>> ELSE Next1(i, h[i - 1])]
  BY DEF Load
<1>8. L = [i \in 0..n |-> IF i = 0 THEN <<>> ELSE Next1(i, L[i - 1])]
  <2> HIDE DEF Next1, L, n
  <2> QED BY <1>6, <1>7
<1>9. L[0] = <<>> /\ \A i \in 1..n : L[i] = Next1(i, L[i - 1])
  <2> HIDE DEF Next1, L, n
  <2> QED BY <1>1, <1>8
<1> DEFINE Good == {i \in 0..n : L[i] \in Lists}
<1>10. 0 \in Good
  <2> HIDE DEF Next1, L, n
  <2> QED BY <1>1, <1>3, <1>9
<1>11. ASSUME NEW i \in 0..(n - 1), i \in Good PROVE i + 1 \in Good
  <2>1. i + 1 \in 1..n /\ i + 1 \in 0..n /\ (i + 1) - 1 = i
    BY <1>1
  <2>2. L[i + 1] = Next1(i + 1, L[i])
    <3> HIDE DEF Next1, L, n
    <3> QED BY <1>9, <2>1
  <2>3. L[i] \in Lists => Next1(i + 1, L[i]) \in Lists
    <3> HIDE DEF L
    <3> QED BY <1>1, <2>1, LoadLineTyped
  <2> HIDE DEF Next1, L, n
  <2> QED BY <1>11, <2>1, <2>2, <2>3
<1>12. \A i \in 0..n : i \in Good
  <2> HIDE DEF Good, n
  <2> QED BY <1>1, <1>10, <1>11, Induct
<1> HIDE DEF L
<1> QED BY <1>9, <1>12 DEF L

\* So is JoinEach.
LEMMA JoinRuns ==
    ASSUME NEW all \in Lists, NEW f \in Lists
    PROVE  /\ JoinEach(all, f)[0] = all
           /\ \A i \in 1..Len(f) : JoinEach(all, f)[i] = Join(JoinEach(all, f)[i - 1], f[i])
           /\ \A i \in 0..Len(f) : JoinEach(all, f)[i] \in Lists
<1> DEFINE n == Len(f)
           L == JoinEach(all, f)
           Next1(i, x) == Join(x, f[i])
           step == [i \in 1..n |-> [x \in Lists |-> Next1(i, x)]]
<1>1. n \in Nat /\ \A i \in 1..n : f[i] \in Records
  BY DEF Lists
<1>2. step \in [1..n -> [Lists -> Lists]]
  <2>1. \A i \in 1..n : \A x \in Lists : Next1(i, x) \in Lists
    BY <1>1, JoinTyped
  <2> HIDE DEF Next1, n
  <2> QED BY <2>1
<1>4. PICK g : IsRun(g, n, Lists, all, step)
  <2> HIDE DEF n, step
  <2> QED BY <1>1, <1>2, Iterates
<1>5. ASSUME NEW i \in 1..n PROVE g[i] = Next1(i, g[i - 1])
  <2>1. i - 1 \in 0..n
    BY <1>1
  <2>2. g[i - 1] \in Lists /\ g[i] = step[i][g[i - 1]]
    BY <1>4, <2>1 DEF IsRun
  <2> HIDE DEF Next1, n
  <2> QED BY <2>2
<1>6. g = [i \in 0..n |-> IF i = 0 THEN all ELSE Next1(i, g[i - 1])]
  <2> HIDE DEF Next1, step, n
  <2> QED BY <1>4, <1>5 DEF IsRun
<1>7. L = CHOOSE h : h = [i \in 0..n |-> IF i = 0 THEN all ELSE Next1(i, h[i - 1])]
  BY DEF JoinEach
<1>8. L = [i \in 0..n |-> IF i = 0 THEN all ELSE Next1(i, L[i - 1])]
  <2> HIDE DEF Next1, L, n
  <2> QED BY <1>6, <1>7
<1>9. L[0] = all /\ \A i \in 1..n : L[i] = Next1(i, L[i - 1])
  <2> HIDE DEF Next1, L, n
  <2> QED BY <1>1, <1>8
<1> DEFINE Good == {i \in 0..n : L[i] \in Lists}
<1>10. 0 \in Good
  <2> HIDE DEF Next1, L, n
  <2> QED BY <1>1, <1>9
<1>11. ASSUME NEW i \in 0..(n - 1), i \in Good PROVE i + 1 \in Good
  <2>1. i + 1 \in 1..n /\ i + 1 \in 0..n /\ (i + 1) - 1 = i
    BY <1>1
  <2>2. L[i + 1] = Next1(i + 1, L[i])
    <3> HIDE DEF Next1, L, n
    <3> QED BY <1>9, <2>1
  <2>3. L[i] \in Lists => Next1(i + 1, L[i]) \in Lists
    <3> HIDE DEF L
    <3> QED BY <1>1, <2>1, JoinTyped
  <2> HIDE DEF Next1, L, n
  <2> QED BY <1>11, <2>1, <2>2, <2>3
<1>12. \A i \in 0..n : i \in Good
  <2> HIDE DEF Good, n
  <2> QED BY <1>1, <1>10, <1>11, Induct
<1> HIDE DEF L
<1> QED BY <1>9, <1>12 DEF L

LEMMA JoinAllTyped ==
    ASSUME NEW all \in Lists, NEW f \in Lists
    PROVE  JoinAll(all, f) \in Lists
<1>1. Len(f) \in Nat
  BY DEF Lists
<1> QED BY <1>1, JoinRuns DEF JoinAll

\* What was joined first does not depend on what comes after.
LEMMA JoinAgree ==
    ASSUME NEW all \in Lists, NEW p \in Lists, NEW q \in Lists, NEW m \in Nat,
           m <= Len(p), m <= Len(q), \A i \in 1..m : p[i] = q[i]
    PROVE  JoinEach(all, p)[m] = JoinEach(all, q)[m]
<1> DEFINE Good == {i \in 0..m : JoinEach(all, p)[i] = JoinEach(all, q)[i]}
<1>1. Len(p) \in Nat /\ Len(q) \in Nat
  BY DEF Lists
<1>2. 0 \in Good
  BY JoinRuns
<1>3. ASSUME NEW i \in 0..(m - 1), i \in Good PROVE i + 1 \in Good
  <2>1. i + 1 \in 1..m /\ i + 1 \in 1..Len(p) /\ i + 1 \in 1..Len(q) /\ (i + 1) - 1 = i /\ i + 1 \in 0..m
    BY <1>1
  <2>2. /\ JoinEach(all, p)[i + 1] = Join(JoinEach(all, p)[(i + 1) - 1], p[i + 1])
        /\ JoinEach(all, q)[i + 1] = Join(JoinEach(all, q)[(i + 1) - 1], q[i + 1])
    BY <2>1, JoinRuns
  <2>3. p[i + 1] = q[i + 1] /\ JoinEach(all, p)[i] = JoinEach(all, q)[i]
    BY <1>3, <2>1
  <2> QED BY <2>1, <2>2, <2>3
<1>4. \A i \in 0..m : i \in Good
  <2> HIDE DEF Good
  <2> QED BY <1>2, <1>3, Induct
<1>5. m \in 0..m
  OBVIOUS
<1> QED BY <1>4, <1>5

LEMMA JoinEmpty ==
    ASSUME NEW all \in Lists PROVE JoinAll(all, <<>>) = all
<1>1. <<>> \in Lists /\ Len(<<>>) = 0
  BY DEF Lists
<1> QED BY <1>1, JoinRuns DEF JoinAll

LEMMA JoinMore ==
    ASSUME NEW all \in Lists, NEW q \in Lists, NEW s \in Records
    PROVE  JoinAll(all, Append(q, s)) = Join(JoinAll(all, q), s)
<1> DEFINE p == Append(q, s)
           n == Len(q)
<1>1. /\ n \in Nat /\ p \in Lists /\ Len(p) = n + 1 /\ p[n + 1] = s
      /\ \A i \in 1..n : p[i] = q[i]
  BY DEF Lists
<1> HIDE DEF p
<1>2. JoinEach(all, p)[n] = JoinEach(all, q)[n]
  BY <1>1, JoinAgree
<1>3. n + 1 \in 1..Len(p) /\ (n + 1) - 1 = n
  BY <1>1
<1>4. JoinEach(all, p)[n + 1] = Join(JoinEach(all, p)[n], p[n + 1])
  BY <1>1, <1>3, JoinRuns
<1> QED BY <1>1, <1>2, <1>4 DEF JoinAll, p

LEMMA JoinMarked ==
    ASSUME NEW all \in Lists, NEW q \in Lists, q # <<>>
    PROVE  /\ JoinAll(all, q) # <<>>
           /\ JoinAll(all, LastMarked(q, TRUE)) = LastMarked(JoinAll(all, q), TRUE)
<1> DEFINE n == Len(q)
           p == LastMarked(q, TRUE)
           x == JoinEach(all, q)[n - 1]
           s == q[n]
           t == [s EXCEPT !.clean = TRUE]
<1>1. /\ n \in Nat \ {0} /\ DOMAIN q = 1..n /\ s \in Records
  <2>1. q \in Seq(Records) /\ Len(q) \in Nat
    BY DEF Lists
  <2>2. Len(q) # 0
    BY <2>1
  <2> QED BY <2>1, <2>2
<1>2. p \in Lists /\ Len(p) = n /\ p[n] = t /\ \A i \in 1..n : i # n => p[i] = q[i]
  BY <1>1, LastMarkedIs
<1>3. s \in Records /\ t \in Records /\ t.clean = TRUE /\ t.resumed = s.resumed /\ s.clean \in BOOLEAN
  <2> HIDE DEF s
  <2> QED BY <1>1 DEF Records
<1> HIDE DEF p, t
<1>4. JoinEach(all, p)[n - 1] = x /\ x \in Lists
  <2> HIDE DEF n
  <2>1. n - 1 \in Nat /\ n - 1 <= Len(p) /\ n - 1 <= Len(q) /\ \A i \in 1..(n - 1) : p[i] = q[i]
    <3>1. Len(p) = n /\ Len(q) = n
      BY <1>2 DEF n
    <3> QED BY <1>1, <1>2, <3>1
  <2>2. n - 1 \in 0..Len(q)
    BY <1>1 DEF n
  <2>3. JoinEach(all, p)[n - 1] = JoinEach(all, q)[n - 1]
    BY <1>2, <2>1, JoinAgree
  <2> QED BY <2>2, <2>3, JoinRuns
<1>5. JoinAll(all, q) = Join(x, s) /\ JoinAll(all, p) = Join(x, t)
  <2>1. n \in 1..Len(q) /\ n \in 1..Len(p)
    <3>1. Len(p) = n /\ Len(q) = n
      BY <1>2
    <3> HIDE DEF n
    <3> QED BY <1>1, <3>1
  <2>2. JoinEach(all, q)[n] = Join(JoinEach(all, q)[n - 1], q[n])
    BY <2>1, JoinRuns
  <2>3. JoinEach(all, p)[n] = Join(JoinEach(all, p)[n - 1], p[n])
    <3> HIDE DEF n
    <3> QED BY <1>2, <2>1, JoinRuns
  <2> QED BY <1>2, <1>4, <2>2, <2>3 DEF JoinAll
<1> HIDE DEF x, s
<1>6. CASE x # <<>> /\ s.resumed
  <2>1. Join(x, s) = LastMarked(x, s.clean) /\ Join(x, t) = LastMarked(x, TRUE)
    BY <1>3, <1>6 DEF Join, LastMarked
  <2>2. LastMarked(LastMarked(x, s.clean), TRUE) = LastMarked(x, TRUE)
    BY <1>3, <1>4, <1>6, MarkedTwice
  <2>3. LastMarked(x, s.clean) # <<>>
    BY <1>3, <1>4, <1>6, LastMarkedIs
  <2> QED BY <1>5, <2>1, <2>2, <2>3 DEF p
<1>7. CASE ~(x # <<>> /\ s.resumed)
  <2>1. Join(x, s) = Append(x, s) /\ Join(x, t) = Append(x, t)
    BY <1>3, <1>7 DEF Join
  <2>2. Append(x, s) # <<>> /\ LastMarked(Append(x, s), TRUE) = Append(x, t)
    BY <1>3, <1>4, AppendIs, MarkedAppended DEF t
  <2> QED BY <1>5, <2>1, <2>2 DEF p
<1> QED BY <1>6, <1>7

\* What one line does to the sessions of all files read so far.
LEMMA JoinLine ==
    ASSUME NEW all \in Lists, NEW q \in Lists, NEW l \in Lines, Opens(l) => q # <<>>
    PROVE  LET x == JoinAll(all, q)
               y == JoinAll(all, LoadLine(q, l))
           IN  /\ l.kind = "start" => y = Append(x, Session(l.session, FALSE))
               /\ l.kind = "resumed" =>
                      y = IF x = <<>> THEN Append(x, Session(l.session, TRUE)) ELSE LastMarked(x, FALSE)
               /\ l.kind = "stop" => x # <<>> /\ y = LastMarked(x, TRUE)
               /\ l.kind \notin {"start", "resumed", "stop"} => y = x
               /\ q # <<>> \/ IsStart(l) => LoadLine(q, l) # <<>>
<1> DEFINE x == JoinAll(all, q)
           y == JoinAll(all, LoadLine(q, l))
<1>1. /\ Session(l.session, FALSE) \in Records /\ Session(l.session, TRUE) \in Records
      /\ Session(l.session, TRUE).resumed = TRUE /\ Session(l.session, TRUE).clean = FALSE
      /\ Session(l.session, FALSE).resumed = FALSE
  <2>1. l.session \in Nat
    BY DEF Lines, Sessions
  <2> QED BY <2>1, SessionIs
<1>2. CASE l.kind = "start"
  <2>1. LoadLine(q, l) = Append(q, Session(l.session, FALSE))
    BY <1>2 DEF LoadLine
  <2>2. y = Join(x, Session(l.session, FALSE))
    BY <1>1, <2>1, JoinMore
  <2>3. y = Append(x, Session(l.session, FALSE))
    BY <1>1, <2>2 DEF Join
  <2>4. LoadLine(q, l) # <<>>
    BY <1>1, <2>1, AppendIs
  <2> QED BY <1>2, <2>3, <2>4
<1>3. CASE l.kind = "resumed"
  <2>1. LoadLine(q, l) = Append(q, Session(l.session, TRUE))
    BY <1>3 DEF LoadLine
  <2>2. y = Join(x, Session(l.session, TRUE))
    BY <1>1, <2>1, JoinMore
  <2>3. y = IF x = <<>> THEN Append(x, Session(l.session, TRUE)) ELSE LastMarked(x, FALSE)
    BY <1>1, <2>2 DEF Join, LastMarked
  <2>4. LoadLine(q, l) # <<>>
    BY <1>1, <2>1, AppendIs
  <2> QED BY <1>3, <2>3, <2>4
<1>4. CASE l.kind = "stop"
  <2>1. q # <<>> /\ LoadLine(q, l) = LastMarked(q, TRUE)
    BY <1>4 DEF LoadLine, LastMarked, Opens
  <2>2. x # <<>> /\ y = LastMarked(x, TRUE)
    BY <2>1, JoinMarked
  <2>3. LastMarked(q, TRUE) # <<>>
    <3>1. LastMarked(q, TRUE) \in Lists /\ Len(LastMarked(q, TRUE)) = Len(q) /\ Len(q) # 0
      BY <2>1, LastMarkedIs
    <3> HIDE DEF LastMarked
    <3> QED BY <3>1
  <2> QED BY <1>4, <2>1, <2>2, <2>3
<1>5. CASE l.kind \notin {"start", "resumed", "stop"}
  <2>1. LoadLine(q, l) = q /\ ~IsStart(l)
    BY <1>5 DEF LoadLine, Opens, IsStart
  <2> QED BY <1>5, <2>1
<1> QED BY <1>2, <1>3, <1>4, <1>5

\* What a list of sessions tells of a set of lines: its sessions follow one
\* another and have a first line, those that were started are in it, and those
\* that were closed are marked.
Tells(X, q) ==
    /\ q \in Lists
    /\ \A a, b \in DOMAIN q : a < b => q[a].session < q[b].session
    /\ \A a \in DOMAIN q : \E x \in X : IsStart(x) /\ x.session = q[a].session
    /\ \A x \in X : x.kind = "start" => \E a \in DOMAIN q : q[a].session = x.session
    /\ \A x \in X : \A a \in DOMAIN q :
           x.kind = "stop" /\ x.session = q[a].session => q[a].clean

\* Of lines that are not torn it tells all.
TellsAll(X, q) ==
    /\ \A x \in X : IsStart(x) => \E a \in DOMAIN q : q[a].session = x.session
    /\ \A a \in DOMAIN q : q[a].clean =>
           \E x \in X : x.kind = "stop" /\ x.session = q[a].session

\* What the order of the lines says of one that comes after others.
Follows(X, l) ==
    /\ X \subseteq Lines /\ l \in Lines
    /\ \A x \in X :
           /\ x.session <= l.session
           /\ l.kind = "start" /\ x.kind # "header" => x.session < l.session
           /\ x.kind = "stop" => x.session < l.session
           /\ l.kind = "resumed" /\ x.kind = "stop" =>
                  \E y \in X : y.kind = "start" /\ x.session < y.session
FollowsOwn(X, l) ==
    /\ l.kind = "stop" => \E y \in X : IsStart(y) /\ y.session = l.session
    /\ \A x \in X : l.kind = "resumed" /\ IsStart(x) /\ x.session < l.session =>
           \E y \in X : y.kind = "start" /\ y.session = l.session

LEMMA TellsStart ==
    ASSUME NEW X, NEW l, NEW q, Follows(X, l), Tells(X, q), l.kind = "start"
    PROVE  LET p == Append(q, Session(l.session, FALSE)) IN
           /\ Tells(X \cup {l}, p)
           /\ TellsAll(X, q) => TellsAll(X \cup {l}, p)
<1> DEFINE s == Session(l.session, FALSE)
           p == Append(q, s)
           n == Len(q) + 1
<1>1. l.session \in Nat /\ \A x \in X : x.session \in Nat
  BY DEF Follows, Lines, Sessions
<1>2. s \in Records /\ s.session = l.session /\ s.clean = FALSE
  BY <1>1, SessionIs
<1> HIDE DEF s
<1>3. /\ q \in Lists /\ p \in Lists /\ p[n] = s /\ n \in DOMAIN p /\ n \in Nat
      /\ \A a \in DOMAIN q : a \in DOMAIN p /\ p[a] = q[a] /\ a < n /\ a \in Nat
      /\ \A a \in DOMAIN p : a \in DOMAIN q \/ a = n
  <2>1. q \in Lists
    BY DEF Tells
  <2> QED BY <1>2, <2>1, AppendIs
<1> HIDE DEF p, n
<1>4. \A a \in DOMAIN q : q[a].session < l.session
  <2> SUFFICES ASSUME NEW a \in DOMAIN q PROVE q[a].session < l.session
    OBVIOUS
  <2>1. PICK x \in X : IsStart(x) /\ x.session = q[a].session
    BY DEF Tells
  <2> QED BY <2>1 DEF Follows, IsStart
<1>5. \A x \in X : x.kind = "stop" => x.session # l.session
  BY <1>1 DEF Follows
<1>6. \A a, b \in DOMAIN p : a < b => p[a].session < p[b].session
  BY <1>1, <1>2, <1>3, <1>4 DEF Tells
<1>7. \A a \in DOMAIN p : \E x \in X \cup {l} : IsStart(x) /\ x.session = p[a].session
  BY <1>2, <1>3 DEF Tells, IsStart
<1>8. \A x \in X \cup {l} : x.kind = "start" => \E a \in DOMAIN p : p[a].session = x.session
  BY <1>2, <1>3 DEF Tells
<1>9. \A x \in X \cup {l} : \A a \in DOMAIN p :
          x.kind = "stop" /\ x.session = p[a].session => p[a].clean
  BY <1>2, <1>3, <1>5 DEF Tells
<1>10. TellsAll(X, q) => TellsAll(X \cup {l}, p)
  BY <1>2, <1>3 DEF TellsAll
<1> QED BY <1>3, <1>6, <1>7, <1>8, <1>9, <1>10 DEF Tells, p, s

\* The first line of a continuation is the first of all.
LEMMA TellsFirst ==
    ASSUME NEW X, NEW l, Follows(X, l), Tells(X, <<>>), l.kind = "resumed"
    PROVE  LET p == Append(<<>>, Session(l.session, TRUE)) IN
           /\ Tells(X \cup {l}, p)
           /\ TellsAll(X, <<>>) => TellsAll(X \cup {l}, p)
<1> DEFINE s == Session(l.session, TRUE)
           p == Append(<<>>, s)
<1>1. l.session \in Nat /\ \A x \in X : x.session \in Nat
  BY DEF Follows, Lines, Sessions
<1>2. s \in Records /\ s.session = l.session /\ s.clean = FALSE
  BY <1>1, SessionIs
<1> HIDE DEF s
<1>3. p \in Lists /\ DOMAIN p = 1..1 /\ p[1] = s /\ DOMAIN <<>> = {}
  <2>1. <<>> \in Lists /\ Len(<<>>) = 0 /\ DOMAIN <<>> = {}
    BY DEF Lists
  <2>2. /\ p \in Lists /\ DOMAIN p = 1..(Len(<<>>) + 1)
        /\ p[Len(<<>>) + 1] = s
    BY <1>2, <2>1, AppendIs
  <2> HIDE DEF p
  <2> QED BY <2>1, <2>2
<1> HIDE DEF p
<1>4. \A x \in X : x.kind # "start" /\ (x.kind = "stop" => x.session # l.session)
  BY <1>1, <1>3 DEF Follows, Tells
<1>5. \A a \in DOMAIN p : a = 1
  BY <1>3
<1>6. IsStart(l) /\ l.kind # "start" /\ l.kind # "stop"
  BY DEF IsStart
<1>7. 1 \in DOMAIN p
  BY <1>3
<1>8. Tells(X \cup {l}, p)
  BY <1>2, <1>3, <1>4, <1>5, <1>6, <1>7 DEF Tells
<1>9. TellsAll(X, <<>>) => TellsAll(X \cup {l}, p)
  BY <1>2, <1>3, <1>5, <1>6, <1>7 DEF TellsAll
<1> QED BY <1>8, <1>9 DEF p, s

LEMMA LastTold ==
    ASSUME NEW X, NEW l, NEW q, Follows(X, l), Tells(X, q), q # <<>>
    PROVE  /\ Len(q) \in DOMAIN q /\ q[Len(q)].session <= l.session
           /\ q[Len(q)].session \in Nat
           /\ \A a \in DOMAIN q : q[a].session <= q[Len(q)].session /\ q[a].session \in Nat
<1>0. q \in Lists
  BY DEF Tells
<1>1. Len(q) \in DOMAIN q
  BY <1>0, LastMarkedIs
<1>2. PICK x \in X : IsStart(x) /\ x.session = q[Len(q)].session
  BY <1>1 DEF Tells
<1>3. \A a \in DOMAIN q : a \in Nat /\ a <= Len(q) /\ q[a] \in Records
  BY <1>0 DEF Lists
<1>4. \A a \in DOMAIN q : q[a].session \in Nat
  BY <1>3 DEF Records
<1>5. Len(q) \in Nat
  BY <1>0 DEF Lists
<1>6. \A a \in DOMAIN q : q[a].session <= q[Len(q)].session
  BY <1>1, <1>3, <1>4, <1>5 DEF Tells
<1> QED BY <1>1, <1>2, <1>4, <1>6 DEF Follows

\* A continuation is joined to the last session, which has not been closed.
LEMMA TellsResumed ==
    ASSUME NEW X, NEW l, NEW q, Follows(X, l), Tells(X, q), q # <<>>, l.kind = "resumed"
    PROVE  LET p == LastMarked(q, FALSE) IN
           /\ Tells(X \cup {l}, p)
           /\ TellsAll(X, q) /\ FollowsOwn(X, l) => TellsAll(X \cup {l}, p)
<1> DEFINE n == Len(q)
           p == LastMarked(q, FALSE)
<1>0. q \in Lists
  BY DEF Tells
<1>1. /\ p \in Lists /\ DOMAIN p = DOMAIN q /\ p[n].clean = FALSE
      /\ \A a \in DOMAIN q : p[a].session = q[a].session /\ (a # n => p[a] = q[a])
  BY <1>0, LastMarkedIs
<1>2. /\ n \in DOMAIN q /\ q[n].session \in Nat /\ q[n].session <= l.session
      /\ \A a \in DOMAIN q : q[a].session <= q[n].session /\ q[a].session \in Nat
  BY LastTold
<1>3. l.session \in Nat /\ \A x \in X : x.session \in Nat
  BY DEF Follows, Lines, Sessions
<1>4. l.kind # "start" /\ l.kind # "stop" /\ IsStart(l)
  BY DEF IsStart
<1> HIDE DEF p, n
<1>5. ASSUME NEW x \in X, x.kind = "stop", x.session = q[n].session PROVE FALSE
  <2>1. PICK y \in X : y.kind = "start" /\ x.session < y.session
    BY <1>5 DEF Follows
  <2>2. PICK a \in DOMAIN q : q[a].session = y.session
    BY <2>1 DEF Tells
  <2> QED BY <1>2, <1>3, <1>5, <2>1, <2>2
<1>6. \A a, b \in DOMAIN p : a < b => p[a].session < p[b].session
  BY <1>1 DEF Tells
<1>7. \A a \in DOMAIN p : \E x \in X \cup {l} : IsStart(x) /\ x.session = p[a].session
  BY <1>1 DEF Tells
<1>8. \A x \in X \cup {l} : x.kind = "start" => \E a \in DOMAIN p : p[a].session = x.session
  BY <1>1, <1>4 DEF Tells
<1>9. \A x \in X \cup {l} : \A a \in DOMAIN p :
          x.kind = "stop" /\ x.session = p[a].session => p[a].clean
  BY <1>1, <1>4, <1>5 DEF Tells
<1>10. ASSUME TellsAll(X, q), FollowsOwn(X, l) PROVE TellsAll(X \cup {l}, p)
  <2>1. \E a \in DOMAIN q : q[a].session = l.session
    <3>1. PICK x \in X : IsStart(x) /\ x.session = q[n].session
      BY <1>2 DEF Tells
    <3>2. CASE q[n].session = l.session
      BY <1>2, <3>2
    <3>3. CASE q[n].session < l.session
      <4>1. PICK y \in X : y.kind = "start" /\ y.session = l.session
        BY <1>10, <3>1, <3>3 DEF FollowsOwn
      <4> QED BY <4>1 DEF Tells
    <3> QED BY <1>2, <1>3, <3>2, <3>3
  <2>2. \A x \in X \cup {l} : IsStart(x) => \E a \in DOMAIN p : p[a].session = x.session
    BY <1>1, <1>10, <2>1 DEF TellsAll
  <2>3. \A a \in DOMAIN p : p[a].clean => \E x \in X \cup {l} : x.kind = "stop" /\ x.session = p[a].session
    BY <1>1, <1>10 DEF TellsAll
  <2> QED BY <2>2, <2>3 DEF TellsAll
<1>11. Tells(X \cup {l}, p)
  BY <1>1, <1>6, <1>7, <1>8, <1>9 DEF Tells
<1> QED BY <1>10, <1>11 DEF p

\* What closes a session closes the last one.
LEMMA TellsStop ==
    ASSUME NEW X, NEW l, NEW q, Follows(X, l), Tells(X, q), q # <<>>, l.kind = "stop"
    PROVE  LET p == LastMarked(q, TRUE) IN
           /\ Tells(X \cup {l}, p)
           /\ TellsAll(X, q) /\ FollowsOwn(X, l) => TellsAll(X \cup {l}, p)
<1> DEFINE n == Len(q)
           p == LastMarked(q, TRUE)
<1>0. q \in Lists
  BY DEF Tells
<1>1. /\ p \in Lists /\ DOMAIN p = DOMAIN q /\ p[n].clean = TRUE
      /\ \A a \in DOMAIN q : p[a].session = q[a].session /\ (a # n => p[a] = q[a])
  BY <1>0, LastMarkedIs
<1>2. /\ n \in DOMAIN q /\ q[n].session \in Nat /\ q[n].session <= l.session
      /\ \A a \in DOMAIN q : q[a].session <= q[n].session /\ q[a].session \in Nat
      /\ n \in Nat /\ \A a \in DOMAIN q : a \in Nat /\ a <= n
  <2>1. n \in Nat /\ DOMAIN q = 1..n
    BY <1>0 DEF Lists
  <2> QED BY <2>1, LastTold
<1>3. l.session \in Nat /\ \A x \in X : x.session \in Nat
  BY DEF Follows, Lines, Sessions
<1>4. l.kind # "start" /\ ~IsStart(l)
  BY DEF IsStart
<1> HIDE DEF p, n
<1>5. \A a \in DOMAIN q : a # n => q[a].session # l.session
  BY <1>2, <1>3 DEF Tells
<1>6. \A a, b \in DOMAIN p : a < b => p[a].session < p[b].session
  BY <1>1 DEF Tells
<1>7. \A a \in DOMAIN p : \E x \in X \cup {l} : IsStart(x) /\ x.session = p[a].session
  BY <1>1 DEF Tells
<1>8. \A x \in X \cup {l} : x.kind = "start" => \E a \in DOMAIN p : p[a].session = x.session
  BY <1>1, <1>4 DEF Tells
<1>9. \A x \in X \cup {l} : \A a \in DOMAIN p :
          x.kind = "stop" /\ x.session = p[a].session => p[a].clean
  BY <1>1, <1>5 DEF Tells
<1>10. ASSUME TellsAll(X, q), FollowsOwn(X, l) PROVE TellsAll(X \cup {l}, p)
  <2>1. q[n].session = l.session
    <3>1. PICK y \in X : IsStart(y) /\ y.session = l.session
      BY <1>10 DEF FollowsOwn
    <3>2. PICK a \in DOMAIN q : q[a].session = y.session
      BY <1>10, <3>1 DEF TellsAll
    <3> QED BY <1>5, <3>1, <3>2
  <2>2. \A x \in X \cup {l} : IsStart(x) => \E a \in DOMAIN p : p[a].session = x.session
    BY <1>1, <1>4, <1>10 DEF TellsAll
  <2>3. \A a \in DOMAIN p : p[a].clean => \E x \in X \cup {l} : x.kind = "stop" /\ x.session = p[a].session
    BY <1>1, <1>10, <2>1 DEF TellsAll
  <2> QED BY <2>2, <2>3 DEF TellsAll
<1>11. Tells(X \cup {l}, p)
  BY <1>1, <1>6, <1>7, <1>8, <1>9 DEF Tells
<1> QED BY <1>10, <1>11 DEF p

\* Another line tells nothing.
LEMMA TellsOther ==
    ASSUME NEW X, NEW l, NEW q, Tells(X, q), l.kind \notin {"start", "resumed", "stop"}
    PROVE  Tells(X \cup {l}, q) /\ (TellsAll(X, q) => TellsAll(X \cup {l}, q))
<1>1. ~IsStart(l) /\ l.kind # "start" /\ l.kind # "stop"
  BY DEF IsStart
<1>2. Tells(X \cup {l}, q)
  BY <1>1 DEF Tells
<1>3. TellsAll(X, q) => TellsAll(X \cup {l}, q)
  BY <1>1 DEF TellsAll
<1> QED BY <1>2, <1>3

\* So each line keeps what is told.
LEMMA TellsLine ==
    ASSUME NEW all \in Lists, NEW q \in Lists, NEW l, NEW X, Follows(X, l),
           Tells(X, JoinAll(all, q)), Opens(l) => q # <<>>
    PROVE  LET y == JoinAll(all, LoadLine(q, l)) IN
           /\ Tells(X \cup {l}, y)
           /\ TellsAll(X, JoinAll(all, q)) /\ FollowsOwn(X, l) => TellsAll(X \cup {l}, y)
           /\ q # <<>> \/ IsStart(l) => LoadLine(q, l) # <<>>
<1> DEFINE x == JoinAll(all, q)
           y == JoinAll(all, LoadLine(q, l))
<1>0. l \in Lines
  BY DEF Follows
<1>1. /\ l.kind = "start" => y = Append(x, Session(l.session, FALSE))
      /\ l.kind = "resumed" =>
             y = IF x = <<>> THEN Append(x, Session(l.session, TRUE)) ELSE LastMarked(x, FALSE)
      /\ l.kind = "stop" => x # <<>> /\ y = LastMarked(x, TRUE)
      /\ l.kind \notin {"start", "resumed", "stop"} => y = x
      /\ q # <<>> \/ IsStart(l) => LoadLine(q, l) # <<>>
  BY <1>0, JoinLine
<1>2. Tells(X, x)
  OBVIOUS
<1> HIDE DEF x, y
<1>3. Tells(X \cup {l}, y) /\ (TellsAll(X, x) /\ FollowsOwn(X, l) => TellsAll(X \cup {l}, y))
  <2>1. CASE l.kind = "start"
    BY <1>1, <1>2, <2>1, TellsStart
  <2>2. CASE l.kind = "resumed" /\ x = <<>>
    <3>1. Tells(X, <<>>) /\ y = Append(<<>>, Session(l.session, TRUE))
      BY <1>1, <1>2, <2>2
    <3> QED BY <2>2, <3>1, TellsFirst
  <2>3. CASE l.kind = "resumed" /\ x # <<>>
    BY <1>1, <1>2, <2>3, TellsResumed
  <2>4. CASE l.kind = "stop"
    BY <1>1, <1>2, <2>4, TellsStop
  <2>5. CASE l.kind \notin {"start", "resumed", "stop"}
    BY <1>1, <1>2, <2>5, TellsOther
  <2> QED BY <2>1, <2>2, <2>3, <2>4, <2>5
<1> QED BY <1>1, <1>3 DEF x, y

-----------------------------------------------------------------------------
(* The post-mortem reads the files *)

\* The lines up to line i of file d.
Written(d, i) ==
    {x \in Lines : \E e \in Days : \E j \in DOMAIN files[e] :
         x = files[e][j] /\ (e < d \/ (e = d /\ j <= i))}

LEMMA WrittenMore ==
    ASSUME FilesOK(files), NEW d \in Days, NEW i \in Nat, i + 1 \in DOMAIN files[d]
    PROVE  LET X == Written(d, i)
               l == files[d][i + 1]
           IN  /\ Written(d, i + 1) = X \cup {l}
               /\ Follows(X, l)
               /\ FilesOwn(files) => FollowsOwn(X, l)
<1> DEFINE X == Written(d, i)
           l == files[d][i + 1]
<1>0. /\ \A e \in Days : e \in Int /\ \A j \in DOMAIN files[e] : j \in Nat /\ files[e][j] \in Lines
      /\ d \in Int
  <2>1. \A e \in Days : files[e] \in Seq(Lines)
    BY DEF FilesOK
  <2> QED BY <2>1 DEF Days
<1>l. l \in Lines
  BY <1>0
<1>1. \A e \in Days : \A j \in DOMAIN files[e] :
          files[e][j] \in X \/ ~Before(e, j, d, i + 1)
  BY <1>0 DEF Written, Before
<1>2. \A x \in X : \E e \in Days : \E j \in DOMAIN files[e] :
          x = files[e][j] /\ Before(e, j, d, i + 1)
  BY <1>0 DEF Written, Before
<1>3. Written(d, i + 1) = X \cup {l}
  <2>1. \A x \in Written(d, i + 1) : x \in X \cup {l}
    <3> SUFFICES ASSUME NEW x \in Written(d, i + 1) PROVE x \in X \cup {l}
      OBVIOUS
    <3>1. PICK e, j : e \in Days /\ j \in DOMAIN files[e] /\
              x = files[e][j] /\ (e < d \/ (e = d /\ j <= i + 1)) /\ x \in Lines
      BY DEF Written
    <3>2. CASE e = d /\ j = i + 1
      BY <3>1, <3>2
    <3>3. CASE ~(e = d /\ j = i + 1)
      <4>1. e < d \/ (e = d /\ j <= i)
        BY <1>0, <3>1, <3>3
      <4> QED BY <3>1, <4>1 DEF Written
    <3> QED BY <3>2, <3>3
  <2>2. \A x \in X \cup {l} : x \in Written(d, i + 1)
    <3>1. l \in Written(d, i + 1)
      BY <1>0, <1>l DEF Written
    <3>2. ASSUME NEW x \in X PROVE x \in Written(d, i + 1)
      <4>1. PICK e, j : e \in Days /\ j \in DOMAIN files[e] /\
              x = files[e][j] /\ (e < d \/ (e = d /\ j <= i)) /\ x \in Lines
        BY DEF Written
      <4>2. e < d \/ (e = d /\ j <= i + 1)
        BY <1>0, <4>1
      <4> QED BY <4>1, <4>2 DEF Written
    <3> QED BY <3>1, <3>2
  <2> HIDE DEF X, l
  <2> QED BY <2>1, <2>2
<1>x. X \subseteq Lines
  BY DEF Written
<1>4. Follows(X, l)
  <2> SUFFICES ASSUME NEW x \in X
               PROVE  /\ x.session <= l.session
                      /\ l.kind = "start" /\ x.kind # "header" => x.session < l.session
                      /\ x.kind = "stop" => x.session < l.session
                      /\ l.kind = "resumed" /\ x.kind = "stop" =>
                             \E y \in X : y.kind = "start" /\ x.session < y.session
    BY <1>l, <1>x DEF Follows
  <2>1. PICK e, j : e \in Days /\ j \in DOMAIN files[e] /\ x = files[e][j] /\ Before(e, j, d, i + 1)
    BY <1>2
  <2>2. /\ x.session <= l.session
        /\ l.kind = "start" /\ x.kind # "header" => x.session < l.session
        /\ x.kind = "stop" => x.session < l.session
    BY <2>1 DEF FilesOK, InOrder
  <2>3. ASSUME l.kind = "resumed", x.kind = "stop"
        PROVE  \E y \in X : y.kind = "start" /\ x.session < y.session
    <3>1. StartBetween(files, e, j, d, i + 1)
      BY <2>1, <2>3 DEF FilesOK, Reopened
    <3>2. PICK c, h : c \in Days /\ h \in DOMAIN files[c] /\
              files[c][h].kind = "start" /\ Before(e, j, c, h) /\ Before(c, h, d, i + 1)
      BY <3>1 DEF StartBetween
    <3>3. files[c][h] \in X
      BY <1>1, <3>2
    <3>4. x.session < files[c][h].session
      BY <2>1, <2>3, <3>2 DEF FilesOK, InOrder
    <3> QED BY <3>2, <3>3, <3>4
  <2> QED BY <2>2, <2>3
<1>5. ASSUME FilesOwn(files) PROVE FollowsOwn(X, l)
  <2>1. ASSUME l.kind = "stop" PROVE \E y \in X : IsStart(y) /\ y.session = l.session
    <3>1. PICK h \in DOMAIN files[d] :
              h < i + 1 /\ IsStart(files[d][h]) /\ files[d][h].session = l.session
      BY <1>5, <2>1 DEF FilesOwn, OpenedOwn, Opens
    <3>2. Before(d, h, d, i + 1)
      BY <3>1 DEF Before
    <3> QED BY <1>1, <3>1, <3>2
  <2>2. ASSUME NEW x \in X, l.kind = "resumed", IsStart(x), x.session < l.session
        PROVE  \E y \in X : y.kind = "start" /\ y.session = l.session
    <3>1. PICK e, j : e \in Days /\ j \in DOMAIN files[e] /\ x = files[e][j] /\ Before(e, j, d, i + 1)
      BY <1>2
    <3>2. OwnStartBetween(files, e, j, d, i + 1)
      BY <1>5, <2>2, <3>1 DEF FilesOwn, Continued
    <3>3. PICK c, h : c \in Days /\ h \in DOMAIN files[c] /\
              files[c][h].kind = "start" /\ files[c][h].session = l.session /\ Before(c, h, d, i + 1)
      BY <3>2 DEF OwnStartBetween
    <3> QED BY <1>1, <3>3
  <2> QED BY <2>1, <2>2 DEF FollowsOwn
<1> QED BY <1>3, <1>4, <1>5

\* What has been told when line i of file d has been read.
Told(d, i, before) ==
    LET q == Load(files[d])[i]
        all == JoinAll(before, q)
    IN  /\ Tells(Written(d, i), all)
        /\ FilesOwn(files) => TellsAll(Written(d, i), all)
        /\ (\E h \in DOMAIN files[d] : h <= i /\ IsStart(files[d][h])) => q # <<>>

LEMMA ToldLine ==
    ASSUME FilesOK(files), NEW d \in Days, NEW before \in Lists,
           NEW i \in Nat, i + 1 \in DOMAIN files[d], Told(d, i, before)
    PROVE  Told(d, i + 1, before)
<1> DEFINE q == Load(files[d])[i]
           l == files[d][i + 1]
           X == Written(d, i)
<1>1. files[d] \in Seq(Lines) /\ Len(files[d]) \in Nat /\ DOMAIN files[d] = 1..Len(files[d])
  <2>1. files[d] \in Seq(Lines)
    BY DEF FilesOK
  <2> QED BY <2>1
<1>2. i + 1 \in 1..Len(files[d]) /\ i \in 0..Len(files[d]) /\ (i + 1) - 1 = i
  BY <1>1
<1>3. q \in Lists /\ Load(files[d])[i + 1] = LoadLine(q, l)
  BY <1>1, <1>2, LoadRuns
<1>4. /\ Written(d, i + 1) = X \cup {l} /\ Follows(X, l)
      /\ FilesOwn(files) => FollowsOwn(X, l)
  BY WrittenMore
<1>5. ASSUME Opens(l) PROVE q # <<>>
  <2>1. PICK h \in DOMAIN files[d] : h < i + 1 /\ IsStart(files[d][h])
    BY <1>5 DEF FilesOK, Opened
  <2>2. h <= i
    BY <1>1, <2>1
  <2> QED BY <2>1, <2>2 DEF Told
<1>6. /\ Tells(X, JoinAll(before, q))
      /\ FilesOwn(files) => TellsAll(X, JoinAll(before, q))
      /\ (\E h \in DOMAIN files[d] : h <= i /\ IsStart(files[d][h])) => q # <<>>
  BY DEF Told
<1> HIDE DEF q, X, l
<1>7. /\ Tells(X \cup {l}, JoinAll(before, LoadLine(q, l)))
      /\ FilesOwn(files) => TellsAll(X \cup {l}, JoinAll(before, LoadLine(q, l)))
      /\ q # <<>> \/ IsStart(l) => LoadLine(q, l) # <<>>
  BY <1>3, <1>4, <1>5, <1>6, TellsLine
<1>8. ASSUME NEW h \in DOMAIN files[d], h <= i + 1, IsStart(files[d][h]) PROVE LoadLine(q, l) # <<>>
  <2>1. h <= i \/ h = i + 1
    BY <1>1, <1>8
  <2>2. CASE h <= i
    BY <1>6, <1>7, <1>8, <2>2
  <2>3. CASE h = i + 1
    BY <1>7, <1>8, <2>3 DEF l
  <2> QED BY <2>1, <2>2, <2>3
<1> QED BY <1>3, <1>4, <1>7, <1>8 DEF Told

\* Nothing has been told before a file of which nothing has been read.
LEMMA ToldFile ==
    ASSUME FilesOK(files), NEW d \in Days, NEW before \in Lists,
           Tells(Written(d, 0), before),
           FilesOwn(files) => TellsAll(Written(d, 0), before)
    PROVE  LET all == JoinAll(before, LoadSessions(files[d])) IN
           /\ all \in Lists
           /\ Tells(Written(d, Len(files[d])), all)
           /\ FilesOwn(files) => TellsAll(Written(d, Len(files[d])), all)
<1> DEFINE n == Len(files[d])
           Good == {i \in 0..n : Told(d, i, before)}
<1>1. files[d] \in Seq(Lines) /\ n \in Nat /\ DOMAIN files[d] = 1..n
  <2>1. files[d] \in Seq(Lines)
    BY DEF FilesOK
  <2> QED BY <2>1
<1>2. Told(d, 0, before)
  <2>1. Load(files[d])[0] = <<>> /\ JoinAll(before, <<>>) = before
    BY <1>1, LoadRuns, JoinEmpty
  <2>2. ~(\E h \in DOMAIN files[d] : h <= 0 /\ IsStart(files[d][h]))
    BY <1>1
  <2> QED BY <2>1, <2>2 DEF Told
<1>3. ASSUME NEW i \in 0..(n - 1), Told(d, i, before) PROVE Told(d, i + 1, before)
  <2>1. i \in Nat /\ i + 1 \in DOMAIN files[d]
    BY <1>1
  <2> QED BY <1>3, <2>1, ToldLine
<1>4. 0 \in Good
  BY <1>1, <1>2
<1>5. \A i \in 0..(n - 1) : i \in Good => i + 1 \in Good
  <2>1. \A i \in 0..(n - 1) : i + 1 \in 0..n
    BY <1>1
  <2> QED BY <1>3, <2>1
<1>6. \A i \in 0..n : i \in Good
  <2> HIDE DEF Good, n
  <2> QED BY <1>1, <1>4, <1>5, Induct
<1>7. Told(d, n, before)
  <2>1. n \in 0..n
    BY <1>1
  <2> QED BY <1>6, <2>1
<1>8. Load(files[d])[n] \in Lists
  <2>1. n \in 0..Len(files[d])
    BY <1>1
  <2> QED BY <1>1, <2>1, LoadRuns
<1> QED BY <1>7, <1>8, JoinAllTyped DEF Told, LoadSessions

LEMMA CollectRuns ==
    ASSUME FilesOK(files), ForensicsAssumption
    PROVE  /\ Collect[0] = <<>>
           /\ \A d \in Days : Collect[d] = JoinAll(Collect[d - 1], LoadSessions(files[d]))
<1> DEFINE n == MaxDay
           L == Collect
           Next1(d, x) == JoinAll(x, LoadSessions(files[d]))
           step == [d \in 1..n |-> [x \in Lists |-> Next1(d, x)]]
<1>1. n \in Nat /\ Days = 1..n
  BY DEF ForensicsAssumption, Days
<1>2. step \in [1..n -> [Lists -> Lists]]
  <2>1. ASSUME NEW d \in 1..n PROVE LoadSessions(files[d]) \in Lists
    <3>1. files[d] \in Seq(Lines)
      BY <1>1 DEF FilesOK
    <3>2. Len(files[d]) \in 0..Len(files[d])
      BY <3>1
    <3> QED BY <3>1, <3>2, LoadRuns DEF LoadSessions
  <2>2. \A d \in 1..n : \A x \in Lists : Next1(d, x) \in Lists
    BY <2>1, JoinAllTyped
  <2> HIDE DEF Next1, n
  <2> QED BY <2>2
<1>3. <<>> \in Lists
  BY DEF Lists
<1>4. PICK g : IsRun(g, n, Lists, <<>>, step)
  <2> HIDE DEF n, step
  <2> QED BY <1>1, <1>2, <1>3, Iterates
<1>5. ASSUME NEW d \in 1..n PROVE g[d] = Next1(d, g[d - 1])
  <2>1. d - 1 \in 0..n
    BY <1>1
  <2>2. g[d - 1] \in Lists /\ g[d] = step[d][g[d - 1]]
    BY <1>4, <2>1 DEF IsRun
  <2> HIDE DEF Next1, n
  <2> QED BY <2>2
<1>6. g = [d \in 0..n |-> IF d = 0 THEN <<>> ELSE Next1(d, g[d - 1])]
  <2> HIDE DEF Next1, step, n
  <2> QED BY <1>4, <1>5 DEF IsRun
<1>7. L = CHOOSE h : h = [d \in 0..n |-> IF d = 0 THEN <<>> ELSE Next1(d, h[d - 1])]
  BY DEF Collect
<1>8. L = [d \in 0..n |-> IF d = 0 THEN <<>> ELSE Next1(d, L[d - 1])]
  <2> HIDE DEF Next1, L, n
  <2> QED BY <1>6, <1>7
<1>9. L[0] = <<>> /\ \A d \in 1..n : L[d] = Next1(d, L[d - 1])
  <2> HIDE DEF Next1, L, n
  <2> QED BY <1>1, <1>8
<1> HIDE DEF L
<1> QED BY <1>1, <1>9 DEF L

\* When all files have been read, all has been told.
OnDisk == {x \in Lines : \E d \in Days : \E i \in DOMAIN files[d] : x = files[d][i]}

LEMMA AllIsTold ==
    ASSUME FilesOK(files), ForensicsAssumption
    PROVE  /\ Tells(OnDisk, AllSessions)
           /\ FilesOwn(files) => TellsAll(OnDisk, AllSessions)
<1> DEFINE Right(d) == /\ Collect[d] \in Lists
                       /\ Tells(Written(d + 1, 0), Collect[d])
                       /\ FilesOwn(files) => TellsAll(Written(d + 1, 0), Collect[d])
           Good == {d \in 0..MaxDay : Right(d)}
<1>0. MaxDay \in Nat \ {0} /\ Days = 1..MaxDay /\ 1 \in Days /\ MaxDay \in Days
  BY DEF ForensicsAssumption, Days
<1>1. /\ Collect[0] = <<>>
      /\ \A d \in Days : Collect[d] = JoinAll(Collect[d - 1], LoadSessions(files[d]))
  BY CollectRuns
<1>l. \A e \in Days : \A j \in DOMAIN files[e] : j \in Nat \ {0} /\ j <= Len(files[e]) /\ files[e][j] \in Lines
  <2>1. \A e \in Days : files[e] \in Seq(Lines)
    BY DEF FilesOK
  <2> QED BY <2>1
<1>2. Right(0)
  <2>1. <<>> \in Lists /\ DOMAIN <<>> = {} /\ 0 + 1 = 1
    BY DEF Lists
  <2>2. \A x : x \notin Written(1, 0)
    BY <1>0, <1>l DEF Written
  <2>3. Tells(Written(1, 0), <<>>) /\ TellsAll(Written(1, 0), <<>>)
    BY <2>1, <2>2 DEF Tells, TellsAll
  <2> QED BY <1>1, <2>1, <2>3
<1>3. ASSUME NEW d \in 0..(MaxDay - 1), Right(d) PROVE Right(d + 1)
  <2>1. d + 1 \in Days /\ (d + 1) - 1 = d /\ d \in Nat
    BY <1>0
  <2>2. LET all == JoinAll(Collect[d], LoadSessions(files[d + 1])) IN
        /\ all \in Lists
        /\ Tells(Written(d + 1, Len(files[d + 1])), all)
        /\ FilesOwn(files) => TellsAll(Written(d + 1, Len(files[d + 1])), all)
    BY <1>3, <2>1, ToldFile
  <2>3. Collect[d + 1] = JoinAll(Collect[d], LoadSessions(files[d + 1]))
    BY <1>1, <2>1
  <2>4. Written(d + 1, Len(files[d + 1])) = Written((d + 1) + 1, 0)
    BY <1>0, <1>l, <2>1 DEF Written
  <2> QED BY <2>2, <2>3, <2>4
<1>4. 0 \in Good
  BY <1>0, <1>2
<1>5. \A d \in 0..(MaxDay - 1) : d \in Good => d + 1 \in Good
  <2>1. \A d \in 0..(MaxDay - 1) : d + 1 \in 0..MaxDay
    BY <1>0
  <2> HIDE DEF Right
  <2> QED BY <1>3, <2>1
<1>6. \A d \in 0..MaxDay : d \in Good
  <2> HIDE DEF Good
  <2> QED BY <1>0, <1>4, <1>5, Induct
<1>7. Right(MaxDay)
  <2>1. MaxDay \in 0..MaxDay
    BY <1>0
  <2> HIDE DEF Right
  <2> QED BY <1>6, <2>1
<1>8. Written(MaxDay + 1, 0) = OnDisk
  BY <1>0, <1>l DEF Written, OnDisk
<1> QED BY <1>7, <1>8 DEF AllSessions

-----------------------------------------------------------------------------
(* The properties *)

LEMMA ClosedIsNoDeathHolds ==
    ASSUME ForensicsAssumption, RecorderInv
    PROVE  ClosedIsNoDeath
<1>1. FilesOK(files)
  BY DEF RecorderInv
<1>2. Tells(OnDisk, AllSessions)
  BY <1>1, AllIsTold
<1> SUFFICES ASSUME NEW a \in Dirty(AllSessions), AllSessions[a].session \in ClosedSessions
             PROVE  FALSE
  BY DEF ClosedIsNoDeath
<1>3. a \in DOMAIN AllSessions /\ ~AllSessions[a].clean
  BY DEF Dirty
<1>4. PICK d \in Days : \E i \in DOMAIN files[d] :
          files[d][i].kind = "stop" /\ files[d][i].session = AllSessions[a].session
  BY DEF ClosedSessions
<1>5. PICK i \in DOMAIN files[d] :
          files[d][i].kind = "stop" /\ files[d][i].session = AllSessions[a].session
  BY <1>4
<1>6. files[d][i] \in OnDisk
  BY <1>1 DEF FilesOK, OnDisk
<1> QED BY <1>2, <1>3, <1>5, <1>6 DEF Tells

LEMMA DeathsAreReported ==
    ASSUME ForensicsAssumption, RecorderInv, StrictInv
    PROVE  DeathsReported
<1> DEFINE all == AllSessions
<1>1. FilesOK(files) /\ FilesOwn(files)
  BY DEF RecorderInv, StrictInv
<1>2. Tells(OnDisk, all) /\ TellsAll(OnDisk, all)
  BY <1>1, AllIsTold
<1> HIDE DEF all
<1>l. \A d \in Days : \A i \in DOMAIN files[d] : files[d][i] \in OnDisk
  BY <1>1 DEF FilesOK, OnDisk
<1>o. \A x \in OnDisk : \E d \in Days : \E i \in DOMAIN files[d] : x = files[d][i]
  BY DEF OnDisk
<1>s. \A x \in OnDisk : x.session \in Sessions
  BY DEF OnDisk, Lines
<1>3. ASSUME NEW s \in Sessions
      PROVE  /\ s \in Recorded <=> \E a \in DOMAIN all : all[a].session = s
             /\ \A a \in DOMAIN all : all[a].session = s =>
                    (all[a].clean <=> s \in ClosedSessions)
  <2>1. s \in Recorded <=> \E x \in OnDisk : IsStart(x) /\ x.session = s
    BY <1>l, <1>o DEF Recorded
  <2>2. s \in ClosedSessions <=> \E x \in OnDisk : x.kind = "stop" /\ x.session = s
    BY <1>l, <1>o DEF ClosedSessions
  <2>3. s \in Recorded <=> \E a \in DOMAIN all : all[a].session = s
    BY <1>2, <2>1 DEF Tells, TellsAll
  <2>4. ASSUME NEW a \in DOMAIN all, all[a].session = s
        PROVE  all[a].clean <=> s \in ClosedSessions
    <3>1. all[a] \in Records
      BY <1>2 DEF Tells, Lists
    <3>2. all[a].clean => s \in ClosedSessions
      BY <1>2, <2>2, <2>4 DEF TellsAll
    <3>3. s \in ClosedSessions => all[a].clean
      BY <1>2, <2>2, <2>4 DEF Tells
    <3> QED BY <3>1, <3>2, <3>3 DEF Records
  <2> QED BY <2>3, <2>4
<1>4. \A a \in DOMAIN all : all[a].session \in Sessions
  BY <1>2, <1>s DEF Tells
<1>5. \A s \in Sessions : SessionIsLive(s) <=> s = cur /\ running
  BY DEF SessionIsLive, StrictInv, Sessions
<1>6. \A a, b \in Dirty(all) : a < b => all[a].session < all[b].session
  BY <1>2 DEF Tells, Dirty
<1>7. {all[a].session : a \in Dirty(all)} =
          {s \in Recorded \ ClosedSessions : ~(s = cur /\ running)}
  <2>1. Recorded \subseteq Sessions
    BY DEF Recorded
  <2>2. ASSUME NEW a \in Dirty(all)
        PROVE  all[a].session \in {s \in Recorded \ ClosedSessions : ~(s = cur /\ running)}
    <3>1. a \in DOMAIN all /\ ~all[a].clean /\ ~SessionIsLive(all[a].session)
      BY DEF Dirty
    <3> QED BY <1>3, <1>4, <1>5, <3>1
  <2>3. ASSUME NEW s \in Recorded \ ClosedSessions, ~(s = cur /\ running)
        PROVE  \E a \in Dirty(all) : s = all[a].session
    <3>1. PICK a \in DOMAIN all : all[a].session = s
      BY <1>3, <2>1
    <3>2. ~all[a].clean /\ ~SessionIsLive(all[a].session)
      BY <1>3, <1>5, <2>1, <2>3, <3>1
    <3> QED BY <3>1, <3>2 DEF Dirty
  <2> QED BY <2>2, <2>3
<1> QED BY <1>6, <1>7 DEF DeathsReported, all

LEMMA HeadersDoMatch ==
    ASSUME RecorderInv, StrictInv
    PROVE  HeadersMatch
<1> SUFFICES ASSUME NEW d \in Days, NEW i \in DOMAIN files[d], files[d][i].kind = "sample"
             PROVE  LET above == {j \in 1..i : files[d][j].kind = "header"} IN
                    above # {} /\ files[d][Max(above)].cols = files[d][i].cols
  BY DEF HeadersMatch
<1> DEFINE above == {j \in 1..i : files[d][j].kind = "header"}
<1>1. files[d] \in Seq(Lines)
  BY DEF RecorderInv, FilesOK
<1>2. i \in Nat /\ i <= Len(files[d]) /\ DOMAIN files[d] = 1..Len(files[d]) /\ Len(files[d]) \in Nat
  BY <1>1
<1>3. HeaderAbove(files[d], i, files[d][i].cols)
  BY DEF StrictInv, HeadersAre
<1>4. PICK h \in DOMAIN files[d] :
          /\ h < i /\ files[d][h].kind = "header" /\ files[d][h].cols = files[d][i].cols
          /\ \A j \in DOMAIN files[d] : files[d][j].kind = "header" /\ j <= i => j <= h
  BY <1>3 DEF HeaderAbove
<1>5. h \in above /\ above \subseteq Nat /\ \A j \in above : j <= h
  BY <1>2, <1>4
<1>6. i \in Nat /\ above \in SUBSET (1..i)
  BY <1>2
<1> HIDE DEF above
<1>7. above # {} /\ Max(above) = h
  <2>1. Max(above) \in above /\ \A j \in above : j <= Max(above)
    BY <1>5, <1>6, GreatestOf
  <2> QED BY <1>5, <2>1
<1> QED BY <1>4, <1>7 DEF above

\* Of every flight recorder, whatever its number of days, sessions and samples,
\* its retention and its columns: a session that closed in order is never taken
\* for a death (main of crash_report.py), and where no line is torn and no pid
\* reused the deaths are reported, previous_session_verdict tells the truth and
\* every sample stands under its header (_header_matches of node_forensics.py).
THEOREM PostMortemIsRight ==
    ASSUME ForensicsAssumption
    PROVE  Spec => []/\ ClosedIsNoDeath
                     /\ NoFaults => DeathsReported /\ VerdictRight /\ HeadersMatch
<1> DEFINE Inv == RecorderInv /\ (NoFaults => StrictInv)
           Right == /\ ClosedIsNoDeath
                    /\ NoFaults => DeathsReported /\ VerdictRight /\ HeadersMatch
<1>1. Init => Inv
  BY RecorderInit
<1>2. Inv /\ [Next]_vars => Inv'
  <2>1. ASSUME Inv, [Next]_vars PROVE RecorderInv' /\ (NoFaults => StrictInv')
    BY <2>1, RecorderNext
  <2>2. NoFaults' <=> NoFaults
    BY DEF NoFaults
  <2> QED BY <2>1, <2>2
<1>3. Inv => Right
  <2>1. ASSUME RecorderInv PROVE ClosedIsNoDeath
    BY <2>1, ClosedIsNoDeathHolds
  <2>2. ASSUME RecorderInv, StrictInv PROVE DeathsReported /\ VerdictRight /\ HeadersMatch
    BY <2>2, DeathsAreReported, HeadersDoMatch DEF StrictInv
  <2> QED BY <2>1, <2>2
<1> HIDE DEF Inv, Right
<1>4. Spec => []Right
  BY <1>1, <1>2, <1>3, PTL DEF Spec
<1> QED BY <1>4 DEF Right
=============================================================================
