------------------------- MODULE RequestPathProofs -------------------------
(***************************************************************************)
(* Theorems about the parts a request passes through, for every number of  *)
(* exchanges, retries, chunks, requests, drains and cache entries.         *)
(***************************************************************************)
EXTENDS MCRequestPath, Induction, FiniteSetTheorems, SequenceTheorems, TLAPS

-----------------------------------------------------------------------------
(* The proxy *)

\* s is the beginning of one answer, chunk after chunk.
Beginning(s) == \A i \in 1..Len(s) : s[i] = [attempt |-> s[1].attempt, chunk |-> i]

GivenChunks == Seq([attempt : Nat, chunk : Nat])

Exchange ==
    [pc : {"idle", "name", "post", "reading", "done"}, stream : BOOLEAN,
     name : {"alias", "bare"}, attempt : Nat, given : GivenChunks,
     outcome : {"none", "answer", "error"}, taken : Nat]

\* An exchange that is about to post has given nothing; one that reads has given
\* chunks of this attempt only.
ExchangeOK(r) ==
    /\ r.pc \in {"idle", "name", "post"} => r.given = <<>>
    /\ r.pc # "done" => r.outcome = "none"
    /\ r.pc = "reading" => \A i \in 1..Len(r.given) : r.given[i].attempt = r.attempt
    /\ Beginning(r.given)
    /\ r.stream /\ r.outcome = "answer" => Len(r.given) = Chunks

ProxyInv ==
    /\ served_name \in {"none", "alias", "bare"}
    /\ backend \in {"down", "alias", "bare"}
    /\ x \in [Exchanges -> Exchange]
    /\ \A e \in Exchanges : ExchangeOK(x[e])

\* While an answer is read, what was read of it is what was given.
LEMMA ReadIsGiven ==
    ASSUME ProxyInv, NEW e \in Exchanges, x[e].pc = "reading"
    PROVE  Read(e) = Len(x[e].given)
<1> DEFINE g == x[e].given
<1>1. g \in GivenChunks /\ \A i \in 1..Len(g) : g[i].attempt = x[e].attempt
  BY DEF ProxyInv, ExchangeOK, Exchange
<1>2. Len(g) \in Nat /\ DOMAIN g = 1..Len(g)
  BY <1>1 DEF GivenChunks
<1>3. {i \in DOMAIN g : g[i].attempt = x[e].attempt} = 1..Len(g)
  BY <1>1, <1>2
<1>4. Cardinality(1..Len(g)) = Len(g)
  BY <1>2, FS_Interval
<1> QED BY <1>3, <1>4 DEF Read

\* An action on one exchange keeps the invariant if its new record is right.
LEMMA OneExchange ==
    ASSUME ProxyInv, NEW e \in Exchanges, NEW r \in Exchange, ExchangeOK(r),
           x' = [x EXCEPT ![e] = r],
           served_name' \in {"none", "alias", "bare"},
           backend' \in {"down", "alias", "bare"}
    PROVE  ProxyInv'
<1>1. x' \in [Exchanges -> Exchange]
  BY DEF ProxyInv
<1>2. \A f \in Exchanges : x'[f] = IF f = e THEN r ELSE x[f]
  BY DEF ProxyInv
<1>3. \A f \in Exchanges : ExchangeOK(x'[f])
  BY <1>2 DEF ProxyInv
<1>4. \A f \in Exchanges : ExchangeOK(x[f])'
  BY <1>3 DEF ExchangeOK, Beginning
<1> QED BY <1>1, <1>4 DEF ProxyInv

LEMMA NoExchangeOK == NoExchange \in Exchange /\ ExchangeOK(NoExchange)
<1>1. <<>> \in GivenChunks /\ Len(<<>>) = 0
  BY DEF GivenChunks
<1> QED BY <1>1 DEF NoExchange, Exchange, ExchangeOK, Beginning

\* Retrying and giving up keep the invariant where nothing has been given.
LEMMA RetryKeeps ==
    ASSUME ProxyInv, NEW e \in Exchanges, x[e].pc \in {"post", "reading"},
           x[e].given = <<>>, Retry(e), UNCHANGED <<served_name, backend>>
    PROVE  ProxyInv'
<1> DEFINE r == IF x[e].attempt < CONNECT_RETRIES
                  THEN [x[e] EXCEPT !.pc = "post", !.attempt = @ + 1]
                  ELSE [x[e] EXCEPT !.pc = "done", !.outcome = "error"]
<1>1. x[e] \in Exchange /\ ExchangeOK(x[e])
  BY DEF ProxyInv
<1>2. r \in Exchange
  <2>1. x[e].attempt \in Nat
    BY <1>1 DEF Exchange
  <2>2. x[e].attempt + 1 \in Nat
    BY <2>1
  <2>3. [x[e] EXCEPT !.pc = "post", !.attempt = @ + 1] \in Exchange
    BY <1>1, <2>2 DEF Exchange
  <2>4. [x[e] EXCEPT !.pc = "done", !.outcome = "error"] \in Exchange
    BY <1>1 DEF Exchange
  <2> QED BY <2>3, <2>4
<1>3. ExchangeOK(r)
  BY <1>1 DEF ExchangeOK, Beginning, Exchange
<1>4. x' = [x EXCEPT ![e] = r]
  BY DEF Retry, Over, ProxyInv
<1> QED BY <1>2, <1>3, <1>4, OneExchange DEF ProxyInv

LEMMA ProxyInvInit == Init => ProxyInv
  BY NoExchangeOK DEF Init, ProxyInv

LEMMA ProxyInvAttempt ==
    ASSUME ProxyInv, NEW e \in Exchanges, Attempt(e) \/ Close(e) \/ \E s \in BOOLEAN : Begin(e, s)
    PROVE  ProxyInv'
<1>0. /\ x[e] \in Exchange /\ ExchangeOK(x[e])
      /\ served_name \in {"none", "alias", "bare"} /\ backend \in {"down", "alias", "bare"}
  BY DEF ProxyInv
<1> USE <1>0
<1>1. ASSUME NEW s \in BOOLEAN, Begin(e, s)
      PROVE  ProxyInv'
  <2> DEFINE r == [NoExchange EXCEPT
                !.pc = IF served_name = "none" THEN "name" ELSE "post",
                !.stream = s,
                !.name = IF served_name = "none" THEN "alias" ELSE served_name,
                !.attempt = 1]
  <2>1. r \in Exchange /\ ExchangeOK(r)
    BY NoExchangeOK DEF NoExchange, Exchange, ExchangeOK, Beginning
  <2> QED BY <1>1, <2>1, OneExchange DEF Begin
<1>2. CASE ServedModelName(e)
  <2>1. ASSUME NEW n \in {"alias", "bare"}, x' = [x EXCEPT ![e].pc = "post", ![e].name = n]
        PROVE  ProxyInv'
    <3> DEFINE r == [x[e] EXCEPT !.pc = "post", !.name = n]
    <3>1. r \in Exchange /\ ExchangeOK(r)
      BY <1>2 DEF ServedModelName, Exchange, ExchangeOK, Beginning
    <3>2. x' = [x EXCEPT ![e] = r]
      BY <2>1 DEF ProxyInv
    <3> QED BY <1>2, <3>1, <3>2, OneExchange DEF ServedModelName
  <2> QED BY <1>2, <2>1 DEF ServedModelName
<1>3. CASE Unreachable(e)
  BY <1>3, RetryKeeps DEF Unreachable, ExchangeOK
<1>4. CASE Refused(e)
  <2> DEFINE r == [x[e] EXCEPT !.pc = "done", !.outcome = "error"]
  <2>1. r \in Exchange /\ ExchangeOK(r)
    BY <1>4 DEF Refused, Exchange, ExchangeOK, Beginning
  <2>2. x' = [x EXCEPT ![e] = r]
    BY <1>4 DEF Refused, Over, ProxyInv
  <2> QED BY <1>4, <2>1, <2>2, OneExchange DEF Refused
<1>5. CASE Taken(e)
  <2> DEFINE r == [x[e] EXCEPT !.pc = "reading", !.taken = @ + 1]
  <2>0. x[e].taken + 1 \in Nat
    BY DEF Exchange
  <2>1. r \in Exchange /\ ExchangeOK(r)
    <3>1. [x[e] EXCEPT !.pc = "reading", !.taken = x[e].taken + 1] \in Exchange
      BY <2>0 DEF Exchange
    <3>2. x[e].given = <<>> /\ x[e].outcome = "none"
      BY <1>5 DEF Taken, ExchangeOK
    <3>3. r.given = <<>> /\ r.outcome = "none" /\ r.pc = "reading"
      BY <3>2 DEF Exchange
    <3>4. ExchangeOK(r)
      BY <3>3 DEF ExchangeOK, Beginning
    <3> QED BY <3>1, <3>4
  <2>2. x' = [x EXCEPT ![e] = r]
    BY <1>5 DEF Taken, ProxyInv
  <2> QED BY <1>5, <2>1, <2>2, OneExchange DEF Taken
<1>6. CASE Chunk(e)
  <2> DEFINE g == x[e].given
             c == [attempt |-> x[e].attempt, chunk |-> Len(g) + 1]
             r == [x[e] EXCEPT !.given = Append(g, c)]
  <2>1. Read(e) = Len(g) /\ x[e].pc = "reading" /\ x[e].outcome = "none"
    BY <1>6, ReadIsGiven DEF Chunk, ExchangeOK
  <2>2. g \in GivenChunks /\ Len(g) \in Nat /\ c \in [attempt : Nat, chunk : Nat]
    BY DEF Exchange, GivenChunks
  <2>3. /\ Append(g, c) \in GivenChunks /\ Len(Append(g, c)) = Len(g) + 1
        /\ \A i \in 1..(Len(g) + 1) : Append(g, c)[i] = IF i = Len(g) + 1 THEN c ELSE g[i]
    BY <2>2 DEF GivenChunks
  <2>4. \A i \in 1..Len(g) : g[i] = [attempt |-> x[e].attempt, chunk |-> i]
    BY <2>1, <2>2 DEF ExchangeOK, Beginning
  <2>5. \A i \in 1..Len(Append(g, c)) : Append(g, c)[i] = [attempt |-> x[e].attempt, chunk |-> i]
    BY <2>2, <2>3, <2>4
  <2>6. Beginning(Append(g, c))
    <3>1. Append(g, c)[1] = [attempt |-> x[e].attempt, chunk |-> 1]
      BY <2>2, <2>3, <2>5
    <3> QED BY <2>5, <3>1 DEF Beginning
  <2>7. r \in Exchange
    BY <2>3 DEF Exchange
  <2>8. ExchangeOK(r)
    BY <2>1, <2>5, <2>6 DEF ExchangeOK, Exchange
  <2>9. x' = [x EXCEPT ![e] = r]
    BY <1>6, <2>1 DEF Chunk, ProxyInv
  <2> QED BY <1>6, <2>7, <2>8, <2>9, OneExchange DEF Chunk
<1>7. CASE Complete(e)
  <2> DEFINE r == [x[e] EXCEPT !.pc = "done", !.outcome = "answer"]
  <2>1. r \in Exchange /\ ExchangeOK(r)
    BY <1>7, ReadIsGiven DEF Complete, Exchange, ExchangeOK, Beginning
  <2>2. x' = [x EXCEPT ![e] = r]
    BY <1>7 DEF Complete, Over, ProxyInv
  <2> QED BY <1>7, <2>1, <2>2, OneExchange DEF Complete
<1>8. CASE Break(e)
  <2>1. CASE x[e].given # <<>>
    <3> DEFINE r == [x[e] EXCEPT !.pc = "done", !.outcome = "error"]
    <3>1. r \in Exchange /\ ExchangeOK(r)
      BY <1>8 DEF Break, Exchange, ExchangeOK, Beginning
    <3>2. x' = [x EXCEPT ![e] = r]
      BY <1>8, <2>1 DEF Break, Over, ProxyInv
    <3> QED BY <1>8, <3>1, <3>2, OneExchange DEF Break
  <2>2. CASE x[e].given = <<>>
    BY <1>8, <2>2, RetryKeeps DEF Break
  <2> QED BY <2>1, <2>2
<1>9. CASE Close(e)
  BY <1>9, NoExchangeOK, OneExchange DEF Close
<1> QED BY <1>1, <1>2, <1>3, <1>4, <1>5, <1>6, <1>7, <1>8, <1>9 DEF Attempt

LEMMA ProxyInvNext == ProxyInv /\ [Next]_vars => ProxyInv'
<1> SUFFICES ASSUME ProxyInv, [Next]_vars PROVE ProxyInv'
  OBVIOUS
<1>1. CASE \E e \in Exchanges : Attempt(e) \/ Close(e) \/ \E s \in BOOLEAN : Begin(e, s)
  BY <1>1, ProxyInvAttempt
<1>2. ASSUME UNCHANGED x, served_name' \in {"none", "alias", "bare"},
             backend' \in {"down", "alias", "bare"}
      PROVE  ProxyInv'
  BY <1>2 DEF ProxyInv, ExchangeOK, Beginning
<1>3. CASE \E who \in Swappers : Restart(who)
  BY <1>2, <1>3 DEF Restart, ProxyInv
<1>4. CASE ComesUp \/ SwapEnds \/ KeepAliveStops \/ LauncherComesUp \/ UNCHANGED vars
  BY <1>2, <1>4 DEF ComesUp, SwapEnds, KeepAliveStops, LauncherComesUp, vars, ProxyInv
<1> QED BY <1>1, <1>3, <1>4 DEF Next

\* For every number of exchanges, retries and chunks: what a client of
\* _stream_response has been given is the beginning of one answer, and all of it
\* unless it was told of an error.
THEOREM NothingIsReplayed == MCSpec => []NoReplay
<1>1. MCInit => ProxyInv
  BY ProxyInvInit DEF MCInit
<1>2. ProxyInv /\ [MCNext]_MCvars => ProxyInv'
  BY ProxyInvNext DEF MCNext, MCvars
<1>3. ProxyInv => NoReplay
  BY DEF ProxyInv, ExchangeOK, Beginning, NoReplay
<1> QED BY <1>1, <1>2, <1>3, PTL DEF MCSpec

-----------------------------------------------------------------------------
(* Sequences *)

\* What is left of a sequence when the element at p is taken out.
LEMMA RemoveAtIs ==
    ASSUME NEW U, NEW s \in Seq(U), NEW p \in 1..Len(s)
    PROVE  /\ RemoveAt(s, p) \in Seq(U)
           /\ Len(RemoveAt(s, p)) = Len(s) - 1
           /\ \A i \in 1..(Len(s) - 1) :
                 RemoveAt(s, p)[i] = IF i < p THEN s[i] ELSE s[i + 1]
<1> DEFINE a == SubSeq(s, 1, p - 1)
           b == SubSeq(s, p + 1, Len(s))
<1>0. Len(s) \in Nat /\ p \in Nat
  OBVIOUS
<1>1. a \in Seq(U) /\ Len(a) = p - 1 /\ \A i \in 1..(p - 1) : a[i] = s[i]
  BY <1>0
<1>2. b \in Seq(U) /\ Len(b) = Len(s) - p /\ \A i \in 1..(Len(s) - p) : b[i] = s[p + i]
  BY <1>0
<1> HIDE DEF a, b
<1>3. a \o b \in Seq(U) /\ Len(a \o b) = Len(s) - 1
  <2>1. a \o b \in Seq(U) /\ Len(a \o b) = Len(a) + Len(b)
    BY <1>1, <1>2, ConcatProperties
  <2> QED BY <1>0, <1>1, <1>2, <2>1
<1>4. ASSUME NEW i \in 1..(Len(s) - 1)
      PROVE  (a \o b)[i] = IF i < p THEN s[i] ELSE s[i + 1]
  <2>0. i \in Nat /\ i <= Len(a) + Len(b) /\ i >= 1
    BY <1>0, <1>1, <1>2
  <2>1. CASE i < p
    BY <2>0, <1>0, <1>1, <1>2, <2>1
  <2>2. CASE i >= p
    <3>1. (a \o b)[i] = b[i - (p - 1)]
      BY <1>0, <1>1, <1>2, <2>0, <2>2
    <3>2. b[i - (p - 1)] = s[i + 1]
      BY <1>0, <1>2, <2>0, <2>2
    <3> QED BY <1>0, <2>0, <2>2, <3>1, <3>2
  <2> QED BY <1>0, <2>0, <2>1, <2>2
<1> QED BY <1>3, <1>4 DEF RemoveAt, a, b

\* In a sequence without repetitions there is only one place to take it from.
LEMMA RemoveFirstIs ==
    ASSUME NEW U, NEW s \in Seq(U), NEW p \in 1..Len(s), IsInjective(s)
    PROVE  RemoveFirst(s, s[p]) = RemoveAt(s, p)
<1> DEFINE I == {i \in 1..Len(s) : s[i] = s[p]}
<1>1. I = {p}
  BY DEF IsInjective
<1>2. Min(I) = p
  BY <1>1 DEF Min
<1>3. SelectInSeq(s, LAMBDA t : t = s[p]) = p
  BY <1>1, <1>2 DEF SelectInSeq
<1> QED BY <1>3 DEF RemoveFirst

\* Nothing is in the empty sequence.
LEMMA EmptyIs == /\ \A U : <<>> \in Seq(U)
                 /\ IsInjective(<<>>)
                 /\ \A r : ~Contains(<<>>, r)
  BY DEF IsInjective, Contains

\* The place of i among the numbers in K.
Rank(K, i) == Cardinality({j \in K : j <= i})

\* The numbers in a finite set have the ranks from 1 on, each of them one.
LEMMA RankIsBijection ==
    ASSUME NEW K \in SUBSET Nat, IsFiniteSet(K)
    PROVE  /\ Cardinality(K) \in Nat
           /\ \A i \in K : Rank(K, i) \in 1..Cardinality(K)
           /\ \A i, j \in K : Rank(K, i) = Rank(K, j) => i = j
           /\ \A n \in 1..Cardinality(K) : \E i \in K : Rank(K, i) = n
<1> DEFINE below(i) == {j \in K : j <= i}
           N == Cardinality(K)
<1>1. N \in Nat
  BY FS_CardinalityType
<1>2. \A i \in K : IsFiniteSet(below(i)) /\ Cardinality(below(i)) \in Nat /\ Cardinality(below(i)) <= N
  BY FS_Subset, FS_CardinalityType
<1>3. \A i \in K : Cardinality(below(i)) \in 1..N
  <2> TAKE i \in K
  <2>1. below(i) # {}
    OBVIOUS
  <2>2. Cardinality(below(i)) # 0
    BY <1>2, <2>1, FS_EmptySet
  <2> QED BY <1>1, <1>2, <2>2
<1>4. ASSUME NEW i \in K, NEW j \in K, i < j
      PROVE  Cardinality(below(i)) # Cardinality(below(j))
  <2>1. below(i) \in SUBSET below(j) /\ j \in below(j) /\ j \notin below(i)
    <3>1. i \in Nat /\ j \in Nat /\ \A k \in K : k \in Nat
      OBVIOUS
    <3>2. \A k \in K : k <= i => k <= j
      BY <1>4, <3>1
    <3>3. j <= j /\ ~(j <= i)
      BY <1>4, <3>1
    <3> QED BY <3>2, <3>3
  <2> QED BY <1>2, <2>1, FS_Subset
<1>5. \A i, j \in K : Cardinality(below(i)) = Cardinality(below(j)) => i = j
  <2> SUFFICES ASSUME NEW i \in K, NEW j \in K, i # j
               PROVE  Cardinality(below(i)) # Cardinality(below(j))
    OBVIOUS
  <2>1. i < j \/ j < i
    OBVIOUS
  <2> QED BY <1>4, <2>1
<1> DEFINE f == [i \in K |-> Cardinality(below(i))]
<1>6. f \in Injection(K, 1..N)
  BY <1>3, <1>5 DEF Injection, IsInjective
<1>7. IsFiniteSet(1..N) /\ Cardinality(1..N) = N
  BY <1>1, FS_Interval
<1>8. f \in Surjection(K, 1..N)
  BY <1>6, <1>7, FS_Injection
<1>9. \A n \in 1..N : \E i \in K : Cardinality(below(i)) = n
  BY <1>8 DEF Surjection
<1> QED BY <1>1, <1>3, <1>5, <1>9 DEF Rank

\* What Without leaves is what it should, and every element once if it was there
\* once.
LEMMA WithoutIs ==
    ASSUME NEW U, NEW s \in Seq(U), NEW R, IsInjective(s)
    PROVE  /\ Buffer!Without(s, R) \in Seq(U)
           /\ IsInjective(Buffer!Without(s, R))
           /\ \A r : Contains(Buffer!Without(s, R), r) <=> Contains(s, r) /\ r \notin R
<1> DEFINE K == {i \in DOMAIN s : s[i] \notin R}
           At(n) == CHOOSE i \in K : Rank(K, i) = n
           N == Cardinality(K)
           w == [n \in 1..N |-> s[At(n)]]
<1>1. w = Buffer!Without(s, R)
  BY DEF Buffer!Without, Rank, Buffer!Cardinality, Cardinality
<1>2. DOMAIN s = 1..Len(s) /\ Len(s) \in Nat
  OBVIOUS
<1>3. K \in SUBSET Nat /\ IsFiniteSet(K)
  <2>1. K \in SUBSET (1..Len(s)) /\ IsFiniteSet(1..Len(s))
    BY <1>2, FS_Interval
  <2> QED BY <2>1, FS_Subset
<1>4. /\ N \in Nat
      /\ \A i \in K : Rank(K, i) \in 1..N
      /\ \A i, j \in K : Rank(K, i) = Rank(K, j) => i = j
      /\ \A n \in 1..N : \E i \in K : Rank(K, i) = n
  BY <1>3, RankIsBijection
<1>5. \A n \in 1..N : At(n) \in K /\ Rank(K, At(n)) = n
  BY <1>4
<1>6. \A i \in K : At(Rank(K, i)) = i
  BY <1>4, <1>5
<1> HIDE DEF At
<1>7. \A n \in 1..N : w[n] = s[At(n)] /\ s[At(n)] \in U
  BY <1>2, <1>5
<1>8. w \in Seq(U) /\ Len(w) = N
  BY <1>4, <1>7
<1>9. IsInjective(w)
  <2> SUFFICES ASSUME NEW m \in 1..N, NEW n \in 1..N, w[m] = w[n] PROVE m = n
    BY DEF IsInjective
  <2>1. s[At(m)] = s[At(n)] /\ At(m) \in DOMAIN s /\ At(n) \in DOMAIN s
    BY <1>5, <1>7
  <2>2. At(m) = At(n)
    BY <2>1 DEF IsInjective
  <2> QED BY <1>5, <2>2
<1>10. ASSUME NEW r
       PROVE  Contains(w, r) <=> Contains(s, r) /\ r \notin R
  <2>1. ASSUME NEW n \in 1..N, w[n] = r
        PROVE  Contains(s, r) /\ r \notin R
    BY <1>2, <1>5, <1>7, <2>1 DEF Contains
  <2>2. ASSUME NEW i \in 1..Len(s), s[i] = r, r \notin R
        PROVE  Contains(w, r)
    <3>1. i \in K
      BY <1>2, <2>2
    <3>2. Rank(K, i) \in 1..N /\ w[Rank(K, i)] = r
      BY <1>4, <1>6, <1>7, <2>2, <3>1
    <3> QED BY <1>8, <3>2 DEF Contains
  <2> QED BY <1>8, <2>1, <2>2 DEF Contains
<1> HIDE DEF w
<1> QED BY <1>1, <1>8, <1>9, <1>10

\* What a new element at the end changes.
LEMMA AppendIs ==
    ASSUME NEW U, NEW s \in Seq(U), NEW e \in U, IsInjective(s), ~Contains(s, e)
    PROVE  /\ Append(s, e) \in Seq(U) /\ IsInjective(Append(s, e))
           /\ \A r : Contains(Append(s, e), r) <=> Contains(s, r) \/ r = e
<1>1. /\ Len(s) \in Nat /\ DOMAIN s = 1..Len(s)
      /\ Append(s, e) \in Seq(U) /\ Len(Append(s, e)) = Len(s) + 1
      /\ Append(s, e)[Len(s) + 1] = e
      /\ \A i \in 1..Len(s) : Append(s, e)[i] = s[i]
  OBVIOUS
<1>2. IsInjective(Append(s, e))
  <2> SUFFICES ASSUME NEW i \in 1..(Len(s) + 1), NEW j \in 1..(Len(s) + 1),
                      Append(s, e)[i] = Append(s, e)[j]
               PROVE  i = j
    BY <1>1 DEF IsInjective
  <2> QED BY <1>1 DEF IsInjective, Contains
<1>3. ASSUME NEW r
      PROVE  Contains(Append(s, e), r) <=> Contains(s, r) \/ r = e
  BY <1>1 DEF Contains
<1> QED BY <1>1, <1>2, <1>3

\* What taking the first element changes.
LEMMA TailIs ==
    ASSUME NEW U, NEW s \in Seq(U), IsInjective(s), s # <<>>
    PROVE  /\ Tail(s) \in Seq(U) /\ IsInjective(Tail(s)) /\ Head(s) \in U
           /\ \A r : Contains(Tail(s), r) <=> Contains(s, r) /\ r # Head(s)
<1>1. /\ Len(s) \in Nat /\ Len(s) >= 1 /\ DOMAIN s = 1..Len(s) /\ Head(s) = s[1]
      /\ Tail(s) \in Seq(U) /\ Len(Tail(s)) = Len(s) - 1
      /\ \A i \in 1..(Len(s) - 1) : Tail(s)[i] = s[i + 1]
  BY HeadTailProperties
<1>2. \A i, j \in 1..Len(s) : s[i] = s[j] => i = j
  BY <1>1 DEF IsInjective
<1>3. IsInjective(Tail(s))
  <2> SUFFICES ASSUME NEW i \in 1..(Len(s) - 1), NEW j \in 1..(Len(s) - 1),
                      Tail(s)[i] = Tail(s)[j]
               PROVE  i = j
    BY <1>1 DEF IsInjective
  <2>1. i + 1 \in 1..Len(s) /\ j + 1 \in 1..Len(s) /\ s[i + 1] = s[j + 1]
    BY <1>1
  <2> QED BY <1>2, <2>1
<1>4. ASSUME NEW r
      PROVE  Contains(Tail(s), r) <=> Contains(s, r) /\ r # Head(s)
  <2>1. ASSUME NEW i \in 1..(Len(s) - 1), Tail(s)[i] = r
        PROVE  Contains(s, r) /\ r # Head(s)
    <3>1. i + 1 \in 1..Len(s) /\ 1 \in 1..Len(s) /\ i + 1 # 1 /\ s[i + 1] = r
      BY <1>1, <2>1
    <3> QED BY <1>1, <1>2, <3>1 DEF Contains
  <2>2. ASSUME NEW i \in 1..Len(s), s[i] = r, r # Head(s)
        PROVE  Contains(Tail(s), r)
    <3>1. i - 1 \in 1..(Len(s) - 1) /\ (i - 1) + 1 = i
      BY <1>1, <2>2
    <3> QED BY <1>1, <2>2, <3>1 DEF Contains
  <2> QED BY <1>1, <2>1, <2>2 DEF Contains
<1> QED BY <1>1, <1>3, <1>4

-----------------------------------------------------------------------------
(* The prefix cache *)

Conversations == UNION {[1..n -> Prefix!Messages] : n \in 1..MaxMessages}
SystemPrefixes == {Prefix!SystemPrefix(m) : m \in Conversations}

\* s is the end of t.
IsEndOf(s, t) == \A i \in 1..Len(s) : s[i] = t[Len(t) - Len(s) + i]

LRUInv ==
    /\ recency \in Seq(SystemPrefixes) /\ IsInjective(recency)
    /\ cache \in Seq(SystemPrefixes)
    /\ Len(cache) = IF Len(recency) > max_entries THEN max_entries ELSE Len(recency)
    /\ IsEndOf(cache, recency)

\* The operators of SequencesExt are the same there and here.
LEMMA PrefixOps ==
    ASSUME NEW s, NEW e
    PROVE  Prefix!RemoveFirst(s, e) = RemoveFirst(s, e) /\ (Prefix!Contains(s, e) <=> Contains(s, e))
<1>1. Prefix!RemoveAt(s, SelectInSeq(s, LAMBDA t : t = e))
        = RemoveAt(s, SelectInSeq(s, LAMBDA t : t = e))
  BY DEF Prefix!RemoveAt, RemoveAt
<1>2. Prefix!SelectInSeq(s, LAMBDA t : t = e) = SelectInSeq(s, LAMBDA t : t = e)
  BY DEF Prefix!SelectInSeq, SelectInSeq, Prefix!Min, Min
<1> QED BY <1>1, <1>2 DEF Prefix!RemoveFirst, RemoveFirst, Prefix!Contains, Contains

\* One lookup, of a prefix that was used before or not, cached or evicted since.
LEMMA LookupKeepsLRU ==
    ASSUME LRUInv, NEW h \in SystemPrefixes,
           recency' = Append(RemoveFirst(recency, h), h),
           cache' = IF Contains(cache, h) THEN Prefix!Touch(h) ELSE Prefix!Insert(h)
    PROVE  LRUInv'
<1> DEFINE n == Len(recency)
           c == Len(cache)
<1>0. /\ n \in Nat /\ c \in Nat /\ max_entries \in Nat /\ max_entries >= 1
      /\ c <= n /\ c <= max_entries /\ (c < n => c = max_entries)
  BY CacheSize DEF LRUInv, Prefix!CacheAssumption
<1>1. recency \in Seq(SystemPrefixes) /\ cache \in Seq(SystemPrefixes)
  BY DEF LRUInv
<1>2. \A i, j \in 1..n : recency[i] = recency[j] => i = j
  BY <1>1 DEF LRUInv, IsInjective
<1>3. \A i \in 1..c : cache[i] = recency[n - c + i]
  BY DEF LRUInv, IsEndOf
<1>4. IsInjective(cache)
  <2> SUFFICES ASSUME NEW i \in 1..c, NEW j \in 1..c, cache[i] = cache[j] PROVE i = j
    BY <1>1 DEF IsInjective
  <2>1. n - c + i \in 1..n /\ n - c + j \in 1..n /\ recency[n - c + i] = recency[n - c + j]
    BY <1>0, <1>3
  <2> QED BY <1>0, <1>2, <2>1
<1>5. ASSUME NEW s \in Seq(SystemPrefixes)
      PROVE  /\ Append(s, h) \in Seq(SystemPrefixes) /\ Len(Append(s, h)) = Len(s) + 1
             /\ Append(s, h)[Len(s) + 1] = h
             /\ \A i \in 1..Len(s) : Append(s, h)[i] = s[i]
  OBVIOUS
<1>6. ASSUME ~Contains(cache, h)
      PROVE  /\ cache' \in Seq(SystemPrefixes)
             /\ Len(cache') = IF c >= max_entries THEN c ELSE c + 1
             /\ cache'[Len(cache')] = h
             /\ \A i \in 1..(Len(cache') - 1) :
                   cache'[i] = IF c >= max_entries THEN cache[i + 1] ELSE cache[i]
  <2>1. cache' = Append(IF c >= max_entries THEN Tail(cache) ELSE cache, h)
    BY <1>6 DEF Prefix!Insert
  <2>2. CASE c >= max_entries
    <3>1. cache # <<>>
      BY <1>0, <1>1, <2>2
    <3>2. /\ Tail(cache) \in Seq(SystemPrefixes) /\ Len(Tail(cache)) = c - 1
          /\ \A i \in 1..(c - 1) : Tail(cache)[i] = cache[i + 1]
      BY <1>0, <1>1, <2>2, <3>1, HeadTailProperties
    <3>3. cache' = Append(Tail(cache), h)
      BY <2>1, <2>2
    <3>4. /\ cache' \in Seq(SystemPrefixes) /\ Len(cache') = Len(Tail(cache)) + 1
          /\ cache'[Len(Tail(cache)) + 1] = h
          /\ \A i \in 1..Len(Tail(cache)) : cache'[i] = Tail(cache)[i]
      BY <1>5, <3>2, <3>3
    <3>5. Len(Tail(cache)) + 1 = c
      <4>1. Len(Tail(cache)) = c - 1 /\ c \in Nat
        BY <1>0, <3>2
      <4> HIDE DEF c
      <4> QED BY <4>1
    <3>6. \A i \in 1..(c - 1) : cache'[i] = cache[i + 1]
      BY <3>2, <3>4
    <3> QED BY <2>2, <3>4, <3>5, <3>6
  <2>3. CASE ~(c >= max_entries)
    <3>1. cache' = Append(cache, h)
      BY <2>1, <2>3
    <3>2. /\ cache' \in Seq(SystemPrefixes) /\ Len(cache') = c + 1 /\ cache'[c + 1] = h
          /\ \A i \in 1..c : cache'[i] = cache[i]
      BY <1>1, <1>5, <3>1
    <3> QED BY <1>0, <2>3, <3>2
  <2> QED BY <2>2, <2>3
<1>7. ASSUME NEW p \in 1..n, recency[p] = h
      PROVE  LRUInv'
  <2> DEFINE g(i) == IF i < p THEN i ELSE IF i < n THEN i + 1 ELSE p
  <2>1. /\ recency' \in Seq(SystemPrefixes) /\ Len(recency') = n
        /\ \A i \in 1..n : recency'[i] = recency[g(i)]
    <3>1. recency' = Append(RemoveAt(recency, p), h)
      BY <1>1, <1>7, RemoveFirstIs DEF LRUInv
    <3>2. /\ RemoveAt(recency, p) \in Seq(SystemPrefixes) /\ Len(RemoveAt(recency, p)) = n - 1
          /\ \A i \in 1..(n - 1) :
                RemoveAt(recency, p)[i] = IF i < p THEN recency[i] ELSE recency[i + 1]
      BY <1>1, RemoveAtIs
    <3> QED BY <1>0, <1>5, <1>7, <3>1, <3>2
  <2>2. IsInjective(recency')
    <3> SUFFICES ASSUME NEW i \in 1..n, NEW j \in 1..n, recency'[i] = recency'[j] PROVE i = j
      BY <2>1 DEF IsInjective
    <3>1. g(i) \in 1..n /\ g(j) \in 1..n /\ recency[g(i)] = recency[g(j)]
      BY <1>0, <2>1
    <3>2. g(i) = g(j)
      BY <1>2, <3>1
    <3> QED BY <1>0, <3>2
  <2>3. CASE Contains(cache, h)
    <3>1. PICK q \in 1..c : cache[q] = h
      BY <2>3 DEF Contains
    <3>2. p = n - c + q
      <4>1. n - c + q \in 1..n /\ recency[n - c + q] = recency[p]
        BY <1>0, <1>3, <1>7, <3>1
      <4> QED BY <1>2, <4>1
    <3>3. cache' = Append(RemoveAt(cache, q), h)
      BY <1>1, <1>4, <2>3, <3>1, RemoveFirstIs, PrefixOps DEF Prefix!Touch
    <3>4. /\ RemoveAt(cache, q) \in Seq(SystemPrefixes) /\ Len(RemoveAt(cache, q)) = c - 1
          /\ \A i \in 1..(c - 1) :
                RemoveAt(cache, q)[i] = IF i < q THEN cache[i] ELSE cache[i + 1]
      BY <1>1, RemoveAtIs
    <3>5. /\ cache' \in Seq(SystemPrefixes) /\ Len(cache') = c /\ cache'[c] = h
          /\ \A i \in 1..(c - 1) : cache'[i] = IF i < q THEN cache[i] ELSE cache[i + 1]
      <4>1. /\ cache' \in Seq(SystemPrefixes) /\ Len(cache') = c - 1 + 1 /\ cache'[c - 1 + 1] = h
            /\ \A i \in 1..(c - 1) : cache'[i] = RemoveAt(cache, q)[i]
        BY <1>5, <3>3, <3>4
      <4> QED BY <1>0, <3>4, <4>1
    <3>6. \A i \in 1..c : cache'[i] = recency'[n - c + i]
      <4> TAKE i \in 1..c
      <4>0. n - c + i \in 1..n
        BY <1>0
      <4>1. recency'[n - c + i] = recency[g(n - c + i)]
        BY <2>1, <4>0
      <4>2. CASE i < q
        <5>1. g(n - c + i) = n - c + i /\ i \in 1..(c - 1)
          BY <1>0, <3>2, <4>2
        <5>2. cache'[i] = cache[i]
          BY <3>5, <4>2, <5>1
        <5> QED BY <1>3, <4>1, <5>1, <5>2
      <4>3. CASE i >= q /\ i < c
        <5>0. i \in 1..(c - 1) /\ i + 1 \in 1..c /\ ~(i < q)
          BY <1>0, <4>3
        <5>1. cache'[i] = cache[i + 1]
          BY <3>5, <5>0
        <5>2. cache[i + 1] = recency[n - c + (i + 1)]
          BY <1>3, <5>0
        <5>3. g(n - c + i) = n - c + (i + 1)
          BY <1>0, <3>2, <4>3
        <5> QED BY <4>1, <5>1, <5>2, <5>3
      <4>4. CASE i = c
        BY <1>0, <1>7, <3>2, <3>5, <4>1, <4>4
      <4>5. i < q \/ (i >= q /\ i < c) \/ i = c
        BY <1>0
      <4> QED BY <4>2, <4>3, <4>4, <4>5
    <3> QED BY <1>0, <2>1, <2>2, <3>5, <3>6 DEF LRUInv, IsEndOf
  <2>4. CASE ~Contains(cache, h)
    <3>1. p <= n - c
      <4> SUFFICES ASSUME p > n - c PROVE FALSE
        BY <1>0
      <4>1. p - (n - c) \in 1..c /\ n - c + (p - (n - c)) = p
        BY <1>0
      <4> QED BY <1>3, <1>7, <2>4, <4>1 DEF Contains
    <3>2. c = max_entries /\ c < n
      BY <1>0, <3>1
    <3>3. \A i \in 1..c : cache'[i] = recency'[n - c + i]
      <4> TAKE i \in 1..c
      <4>1. CASE i = c
        BY <1>0, <1>6, <1>7, <2>1, <2>4, <3>2, <4>1
      <4>2. CASE i # c
        <5>1. cache'[i] = cache[i + 1] /\ i + 1 \in 1..c
          BY <1>0, <1>6, <2>4, <3>2, <4>2
        <5>2. cache[i + 1] = recency[n - c + (i + 1)]
          BY <1>3, <5>1
        <5>3. recency'[n - c + i] = recency[n - c + i + 1]
          <6>1. n - c + i \in 1..n /\ n - c + i < n /\ n - c + i >= p
            BY <1>0, <3>1, <4>2
          <6>2. g(n - c + i) = n - c + i + 1
            BY <1>0, <6>1
          <6> QED BY <2>1, <6>1, <6>2
        <5> QED BY <1>0, <5>1, <5>2, <5>3
      <4> QED BY <4>1, <4>2
    <3> QED BY <1>0, <1>6, <2>1, <2>2, <2>4, <3>2, <3>3 DEF LRUInv, IsEndOf
  <2> QED BY <2>3, <2>4
<1>8. CASE ~\E p \in 1..n : recency[p] = h
  <2>1. /\ recency' = Append(recency, h)
        /\ recency' \in Seq(SystemPrefixes) /\ Len(recency') = n + 1 /\ recency'[n + 1] = h
        /\ \A i \in 1..n : recency'[i] = recency[i]
    BY <1>1, <1>5, <1>8 DEF RemoveFirst
  <2>2. IsInjective(recency')
    <3> SUFFICES ASSUME NEW i \in 1..(n + 1), NEW j \in 1..(n + 1), recency'[i] = recency'[j]
                 PROVE  i = j
      BY <2>1 DEF IsInjective
    <3> QED BY <1>0, <1>2, <1>8, <2>1
  <2>3. ~Contains(cache, h)
    <3> SUFFICES ASSUME NEW i \in 1..c, cache[i] = h
                 PROVE  FALSE
      BY DEF Contains
    <3>1. n - c + i \in 1..n
      BY <1>0
    <3>2. recency[n - c + i] = h
      BY <1>3
    <3> QED BY <1>8, <3>1, <3>2
  <2>4. \A i \in 1..Len(cache') : cache'[i] = recency'[n + 1 - Len(cache') + i]
    <3> TAKE i \in 1..Len(cache')
    <3>1. CASE i = Len(cache')
      BY <1>0, <1>6, <2>1, <2>3, <3>1
    <3>2. CASE i # Len(cache') /\ c >= max_entries
      <4>1. cache'[i] = cache[i + 1] /\ i + 1 \in 1..c /\ Len(cache') = c
        BY <1>0, <1>6, <2>3, <3>2
      <4>2. cache[i + 1] = recency[n - c + (i + 1)]
        BY <1>3, <4>1
      <4>3. n + 1 - c + i \in 1..n /\ n + 1 - c + i = n - c + (i + 1)
        BY <1>0, <4>1
      <4>4. recency'[n + 1 - c + i] = recency[n - c + (i + 1)]
        BY <2>1, <4>3
      <4> QED BY <4>1, <4>2, <4>4
    <3>3. CASE i # Len(cache') /\ c < max_entries
      <4>1. cache'[i] = cache[i] /\ i \in 1..c /\ Len(cache') = c + 1 /\ c = n
        BY <1>0, <1>6, <2>3, <3>3
      <4>2. cache[i] = recency[n - c + i]
        BY <1>3, <4>1
      <4>3. n + 1 - Len(cache') + i = i /\ n - c + i = i
        BY <1>0, <4>1
      <4>4. recency'[i] = recency[i]
        BY <2>1, <4>1
      <4> QED BY <4>1, <4>2, <4>3, <4>4
    <3>4. c >= max_entries \/ c < max_entries
      BY <1>0
    <3> QED BY <3>1, <3>2, <3>3, <3>4
  <2>5. Len(cache') = IF n + 1 > max_entries THEN max_entries ELSE n + 1
    BY <1>0, <1>6, <2>3
  <2>6. cache' \in Seq(SystemPrefixes)
    BY <1>6, <2>3
  <2>7. Len(recency') = n + 1
    BY <2>1
  <2>8. IsEndOf(cache, recency)'
    <3> SUFFICES ASSUME NEW i \in 1..Len(cache')
                 PROVE  cache'[i] = recency'[Len(recency') - Len(cache') + i]
      BY DEF IsEndOf
    <3>1. cache'[i] = recency'[n + 1 - Len(cache') + i]
      BY <2>4
    <3>2. n + 1 - Len(cache') + i = Len(recency') - Len(cache') + i
      BY <2>7
    <3> QED BY <3>1, <3>2
  <2>9. recency' \in Seq(SystemPrefixes)
    BY <2>1
  <2> QED BY <2>2, <2>5, <2>6, <2>7, <2>8, <2>9 DEF LRUInv
<1> QED BY <1>7, <1>8

\* For every max_entries and every set of conversations: the cache of
\* RadixPrefixCache is the last max_entries distinct prefixes, in order of use.
THEOREM CacheIsAlwaysLRU == MCSpec => []CacheIsLRU
<1>1. MCInit => LRUInv
  <2> SUFFICES ASSUME MCInit PROVE LRUInv
    OBVIOUS
  <2>1. cache = <<>> /\ recency = <<>>
    BY DEF MCInit, Prefix!Init
  <2>2. <<>> \in Seq(SystemPrefixes) /\ Len(<<>>) = 0 /\ IsInjective(<<>>)
    BY DEF IsInjective
  <2> QED BY <2>1, <2>2, CacheSize DEF LRUInv, IsEndOf, Prefix!CacheAssumption
<1>2. LRUInv /\ [MCNext]_MCvars => LRUInv'
  <2> SUFFICES ASSUME LRUInv, [MCNext]_MCvars PROVE LRUInv'
    OBVIOUS
  <2>1. CASE UNCHANGED prefixVars
    BY <2>1 DEF prefixVars, LRUInv, IsEndOf
  <2>2. CASE Prefix!Next
    <3>1. PICK m \in Conversations : Prefix!GetPrefixHash(m)
      BY <2>2 DEF Prefix!Next, Conversations
    <3>2. Prefix!SystemPrefix(m) \in SystemPrefixes
      BY DEF SystemPrefixes
    <3> QED BY <3>1, <3>2, LookupKeepsLRU, PrefixOps DEF Prefix!GetPrefixHash
  <2> QED BY <2>1, <2>2 DEF MCNext, MCvars
<1>3. LRUInv => CacheIsLRU
  <2> SUFFICES ASSUME LRUInv PROVE CacheIsLRU
    OBVIOUS
  <2> DEFINE n == Len(recency)
             c == Len(cache)
  <2>1. /\ cache \in Seq(SystemPrefixes) /\ recency \in Seq(SystemPrefixes)
        /\ c = (IF n > max_entries THEN max_entries ELSE n)
        /\ \A i \in 1..c : cache[i] = recency[n - c + i]
    BY DEF LRUInv, IsEndOf
  <2>2. n \in Nat /\ c \in Nat /\ max_entries \in Nat
    BY <2>1, CacheSize DEF Prefix!CacheAssumption
  <2>3. (IF n > max_entries THEN n - max_entries + 1 ELSE 1) = n - c + 1
    BY <2>1, <2>2
  <2>4. cache = SubSeq(recency, n - c + 1, n)
    <3> DEFINE t == SubSeq(recency, n - c + 1, n)
    <3>1. n - c + 1 \in Int /\ n \in Int /\ \A i \in (n - c + 1)..n : i \in 1..n
      BY <2>1, <2>2
    <3>2. \A i \in (n - c + 1)..n : recency[i] \in SystemPrefixes
      BY <2>1, <3>1
    <3>3. /\ t \in Seq(SystemPrefixes)
          /\ Len(t) = IF n - c + 1 <= n THEN n - (n - c + 1) + 1 ELSE 0
          /\ \A i \in 1..(n - (n - c + 1) + 1) : t[i] = recency[n - c + 1 + i - 1]
      BY <3>1, <3>2, SubSeqProperties
    <3> HIDE DEF t
    <3>4. n - (n - c + 1) + 1 = c /\ Len(t) = c /\ \A i \in 1..c : n - c + 1 + i - 1 = n - c + i
      BY <2>2, <3>3
    <3>5. \A i \in 1..c : t[i] = cache[i]
      BY <2>1, <3>3, <3>4
    <3>6. cache = t
      BY <2>1, <3>3, <3>4, <3>5, SeqEqual
    <3> QED BY <3>6 DEF t
  <2> QED BY <2>3, <2>4 DEF CacheIsLRU, Prefix!CacheIsLRU
<1> QED BY <1>1, <1>2, <1>3, PTL DEF MCSpec

-----------------------------------------------------------------------------
(* The request buffer *)

\* The operators of SequencesExt are the same there and here.
LEMMA BufferOps ==
    ASSUME NEW s
    PROVE  /\ \A e : Buffer!Contains(s, e) <=> Contains(s, e)
           /\ Buffer!IsInjective(s) <=> IsInjective(s)
           /\ \A U : s \in Seq(U) => \A e : e \in Buffer!ToSet(s) <=> Contains(s, e)
  BY DEF Buffer!Contains, Contains, Buffer!IsInjective, IsInjective, Buffer!ToSet

\* Every request is in one place at most, once, wanted or not; who waits is in
\* one; a drain that has dispatched a request still has it.
BufferInv ==
    /\ queue \in Seq(Requests)
    /\ batch \in [Drains -> Seq(Requests)]
    /\ future \in [Requests -> {"none", "pending", "answered", "failed"}]
    /\ busy \in SUBSET Drains
    /\ IsInjective(queue)
    /\ \A d \in Drains : IsInjective(batch[d])
    /\ \A d \in Drains, r \in Requests : ~(Contains(queue, r) /\ Contains(batch[d], r))
    /\ \A d, e \in Drains, r \in Requests :
          Contains(batch[d], r) /\ Contains(batch[e], r) => d = e
    /\ \A r \in Requests : future[r] = "pending" =>
          Contains(queue, r) \/ \E d \in Drains : Contains(batch[d], r)
    /\ \A d \in busy : batch[d] # <<>>

LEMMA BufferInvInit == Buffer!Init => BufferInv
<1> SUFFICES ASSUME Buffer!Init PROVE BufferInv
  OBVIOUS
<1>1. queue = <<>> /\ busy = {}
  BY DEF Buffer!Init
<1>2. \A d \in Drains : batch[d] = <<>>
  BY DEF Buffer!Init
<1>3. \A r \in Requests : future[r] = "none"
  BY DEF Buffer!Init
<1>4. future \in [Requests -> {"none", "pending", "answered", "failed"}]
  BY DEF Buffer!Init
<1>5. batch \in [Drains -> Seq(Requests)]
  BY EmptyIs DEF Buffer!Init
<1> QED BY <1>1, <1>2, <1>3, <1>4, <1>5, EmptyIs DEF BufferInv

\* enqueue takes who is held nowhere.
LEMMA EnqueueKeeps ==
    ASSUME BufferInv, NEW r \in Requests, Buffer!Enqueue(r)
    PROVE  BufferInv'
<1>1. CASE Len(queue) < MAX_QUEUE_SIZE
  <2>1. /\ queue' = Append(queue, r) /\ UNCHANGED <<batch, busy>>
        /\ future' = [future EXCEPT ![r] = "pending"]
    BY <1>1 DEF Buffer!Enqueue
  <2>2. ~Contains(queue, r) /\ \A d \in Drains : ~Contains(batch[d], r)
    BY BufferOps DEF Buffer!Enqueue, Buffer!Held
  <2>3. /\ queue' \in Seq(Requests) /\ IsInjective(queue')
        /\ \A q : Contains(queue', q) <=> Contains(queue, q) \/ q = r
    BY <2>1, <2>2, AppendIs DEF BufferInv
  <2> QED BY <2>1, <2>2, <2>3 DEF BufferInv
<1>2. CASE ~(Len(queue) < MAX_QUEUE_SIZE)
  BY <1>2 DEF Buffer!Enqueue, BufferInv
<1> QED BY <1>1, <1>2

\* drain_all moves the queue into an empty batch, but for those it tells.
LEMMA DrainAllKeeps ==
    ASSUME BufferInv, NEW d \in Drains, Buffer!DrainAll(d)
    PROVE  BufferInv'
<1>1. queue \in Seq(Requests) /\ IsInjective(queue) /\ batch[d] = <<>> /\ d \notin busy
  BY DEF BufferInv, Buffer!DrainAll
<1> DEFINE w == Buffer!Without(queue, expired)
<1>2. /\ w \in Seq(Requests) /\ IsInjective(w)
      /\ \A r : Contains(w, r) <=> Contains(queue, r) /\ r \notin expired
  BY <1>1, WithoutIs
<1>3. queue' = <<>> /\ batch' = [batch EXCEPT ![d] = w] /\ busy' = busy
  BY DEF Buffer!DrainAll
<1> HIDE DEF w
<1>4. /\ batch' \in [Drains -> Seq(Requests)]
      /\ \A e \in Drains : batch'[e] = IF e = d THEN w ELSE batch[e]
  BY <1>2, <1>3 DEF BufferInv
<1>5. \A r \in Requests : future'[r] =
          IF r \in expired /\ Contains(queue, r) /\ future[r] = "pending"
            THEN "failed" ELSE future[r]
  BY <1>1, BufferOps DEF Buffer!DrainAll, Buffer!Failed, BufferInv
<1>6. future' \in [Requests -> {"none", "pending", "answered", "failed"}]
  BY DEF Buffer!DrainAll, Buffer!Failed, BufferInv
<1>7. \A r \in Requests, e \in Drains :
          Contains(batch'[e], r) <=>
              IF e = d THEN Contains(queue, r) /\ r \notin expired ELSE Contains(batch[e], r)
  BY <1>2, <1>4
<1>8. \A e \in Drains : IsInjective(batch'[e])
  BY <1>2, <1>4 DEF BufferInv
<1>9. \A e, f \in Drains, r \in Requests :
          Contains(batch'[e], r) /\ Contains(batch'[f], r) => e = f
  BY <1>7 DEF BufferInv
<1>10. \A r \in Requests : future'[r] = "pending" => \E e \in Drains : Contains(batch'[e], r)
  BY <1>1, <1>5, <1>7, EmptyIs DEF BufferInv
<1>11. \A e \in busy : batch'[e] # <<>>
  BY <1>1, <1>4 DEF BufferInv
<1> QED BY <1>3, <1>4, <1>6, <1>8, <1>9, <1>10, <1>11, EmptyIs DEF BufferInv

\* reject_all tells everyone it drops.
LEMMA RejectAllKeeps ==
    ASSUME BufferInv, Buffer!RejectAll
    PROVE  BufferInv'
<1>1. \A r \in Requests : future'[r] =
          IF Contains(queue, r) /\ future[r] = "pending" THEN "failed" ELSE future[r]
  BY BufferOps DEF Buffer!RejectAll, Buffer!Failed, BufferInv
<1>2. future' \in [Requests -> {"none", "pending", "answered", "failed"}]
  BY DEF Buffer!RejectAll, Buffer!Failed, BufferInv
<1> QED BY <1>1, <1>2, EmptyIs DEF BufferInv, Buffer!RejectAll

\* A drain drops a request when its future has an outcome.
LEMMA AnswerKeeps ==
    ASSUME BufferInv, NEW d \in Drains, Buffer!Answer(d)
    PROVE  BufferInv'
<1>1. d \in busy /\ batch[d] # <<>> /\ batch[d] \in Seq(Requests) /\ IsInjective(batch[d])
  BY DEF BufferInv, Buffer!Answer
<1>2. /\ Tail(batch[d]) \in Seq(Requests) /\ IsInjective(Tail(batch[d]))
      /\ \A r : Contains(Tail(batch[d]), r) <=> Contains(batch[d], r) /\ r # Head(batch[d])
  BY <1>1, TailIs
<1>3. queue' = queue /\ batch' = [batch EXCEPT ![d] = Tail(@)] /\ busy' = busy \ {d}
  BY DEF Buffer!Answer
<1>4. /\ batch' \in [Drains -> Seq(Requests)]
      /\ \A e \in Drains : batch'[e] = IF e = d THEN Tail(batch[d]) ELSE batch[e]
  BY <1>2, <1>3 DEF BufferInv
<1>5. /\ future' \in [Requests -> {"none", "pending", "answered", "failed"}]
      /\ \A r \in Requests : future'[r] = "pending" => future[r] = "pending" /\ r # Head(batch[d])
  BY DEF Buffer!Answer, BufferInv
<1>6. \A r \in Requests, e \in Drains :
          Contains(batch'[e], r) <=> Contains(batch[e], r) /\ (e = d => r # Head(batch[d]))
  BY <1>2, <1>4
<1>7. \A e \in Drains : IsInjective(batch'[e])
  BY <1>2, <1>4 DEF BufferInv
<1>8. \A r \in Requests : future'[r] = "pending" =>
          Contains(queue, r) \/ \E e \in Drains : Contains(batch'[e], r)
  BY <1>5, <1>6 DEF BufferInv
<1>9. \A e \in busy' : batch'[e] # <<>>
  BY <1>3, <1>4 DEF BufferInv
<1> QED BY <1>3, <1>4, <1>5, <1>6, <1>7, <1>8, <1>9 DEF BufferInv

LEMMA BufferInvNext == BufferInv /\ [Buffer!Next]_bufferVars => BufferInv'
<1> SUFFICES ASSUME BufferInv, [Buffer!Next]_bufferVars PROVE BufferInv'
  OBVIOUS
<1>1. ASSUME NEW r \in Requests, Buffer!Expire(r) \/ Buffer!GiveUp(r) \/ Buffer!Collect(r)
      PROVE  BufferInv'
  BY <1>1 DEF Buffer!Expire, Buffer!GiveUp, Buffer!Collect, BufferInv
<1>2. ASSUME NEW d \in Drains, Buffer!Dispatch(d)
      PROVE  BufferInv'
  BY <1>2 DEF Buffer!Dispatch, BufferInv
<1>3. CASE UNCHANGED bufferVars
  BY <1>3 DEF bufferVars, BufferInv
<1> QED BY <1>1, <1>2, <1>3, EnqueueKeeps, DrainAllKeeps, RejectAllKeeps, AnswerKeeps
       DEF Buffer!Next

\* For every number of requests and of drains and every size of the buffer:
\* whoever waits is in RequestBuffer or in exactly one drain, once.
THEOREM NobodyIsForgotten == MCSpec => []NobodyForgotten
<1>1. MCInit => BufferInv
  BY BufferInvInit DEF MCInit
<1>2. BufferInv /\ [MCNext]_MCvars => BufferInv'
  BY BufferInvNext DEF MCNext, MCvars
<1>3. BufferInv => NobodyForgotten
  BY BufferOps DEF BufferInv, NobodyForgotten, Buffer!NobodyForgotten, Buffer!Held
<1> QED BY <1>1, <1>2, <1>3, PTL DEF MCSpec

-----------------------------------------------------------------------------
(* The router.  A match is found in a part of the catalogue: the models of   *)
(* the profiles before p and the first i of p's own.                         *)

RightCatalogue ==
    /\ Len(PROFILES) \in Nat \ {0}
    /\ \A p \in 1..Len(PROFILES) :
           /\ PROFILES[p].models \in Seq(Seq(STRING) \ {<<>>}) \ {<<>>}
           /\ \A l \in DOMAIN PROFILES[p].labels :
                  PROFILES[p].labels[l] \in Router!ToSet(PROFILES[p].models)

Count(p) == Len(PROFILES[p].models)
Name(p, i) == PROFILES[p].models[i]
Seen(p, i, q, j) == q < p \/ (q = p /\ j <= i)
Matches == [profile : Nat, name : Seq(STRING)]
NoMatch == [profile |-> 0, name |-> <<>>]

\* b is a related name of a model seen so far: an exact one if there is one,
\* else a longest, and of profiles with equally long ones it is in the first.
Found(requested, b, p, i) ==
    /\ b \in Matches
    /\ b.profile = 0 => b.name = <<>>
    /\ b.profile # 0 =>
         /\ b.profile \in Router!Profiles
         /\ b.name = requested \/ Router!Related(requested, b.name)
         /\ \E j \in 1..Count(b.profile) :
                Seen(p, i, b.profile, j) /\ Name(b.profile, j) = b.name
    /\ \A q \in Router!Profiles : \A j \in 1..Count(q) : Seen(p, i, q, j) =>
         /\ Name(q, j) = requested => b.name = requested
         /\ b.name # requested /\ Router!Related(requested, Name(q, j)) =>
              /\ Len(Name(q, j)) <= Len(b.name)
              /\ q < b.profile => Len(Name(q, j)) < Len(b.name)

\* The names of a profile's models.
LEMMA NamesAre ==
    ASSUME RightCatalogue, NEW p \in Router!Profiles
    PROVE  /\ p \in Nat \ {0} /\ Count(p) \in Nat \ {0}
           /\ \A i \in 1..Count(p) : /\ Name(p, i) \in Seq(STRING) /\ Name(p, i) # <<>>
                                     /\ Len(Name(p, i)) \in Nat \ {0}
           /\ Router!Models(p) = {Name(p, i) : i \in 1..Count(p)}
           /\ \A l \in DOMAIN PROFILES[p].labels : PROFILES[p].labels[l] \in Router!Models(p)
<1>1. /\ p \in 1..Len(PROFILES) /\ Len(PROFILES) \in Nat
      /\ PROFILES[p].models \in Seq(Seq(STRING) \ {<<>>}) /\ PROFILES[p].models # <<>>
  BY DEF RightCatalogue, Router!Profiles
<1> DEFINE m == PROFILES[p].models
           T == Seq(STRING) \ {<<>>}
<1>2. Len(m) \in Nat \ {0} /\ DOMAIN m = 1..Len(m) /\ \A i \in 1..Len(m) : m[i] \in T
  <2> HIDE DEF T
  <2> QED BY <1>1, EmptySeq, LenProperties, ElementOfSeq DEF T
<1>3. \A t \in T : t \in Seq(STRING) /\ t # <<>> /\ Len(t) \in Nat \ {0}
  BY EmptySeq, LenProperties
<1>4. Router!Models(p) = {Name(p, i) : i \in 1..Count(p)}
  BY <1>2 DEF Router!Models, Router!ToSet, Name, Count
<1>5. \A l \in DOMAIN PROFILES[p].labels : PROFILES[p].labels[l] \in Router!Models(p)
  BY <1>1 DEF RightCatalogue, Router!Models
<1> QED BY <1>1, <1>2, <1>3, <1>4, <1>5 DEF Name, Count

\* One more model.
LEMMA BetterFinds ==
    ASSUME RightCatalogue, NEW requested, requested # <<>>, NEW p \in Router!Profiles,
           NEW i \in 1..Count(p), NEW b
    PROVE  /\ b \in Matches =>
                Router!Better(requested, b, [profile |-> p, name |-> Name(p, i)]) \in Matches
           /\ Found(requested, b, p, i - 1) =>
                Found(requested, Router!Better(requested, b, [profile |-> p, name |-> Name(p, i)]), p, i)
<1> DEFINE e == [profile |-> p, name |-> Name(p, i)]
           c == Router!Better(requested, b, e)
<1>1. /\ p \in Nat \ {0} /\ Count(p) \in Nat \ {0} /\ e.profile = p /\ e.name = Name(p, i)
      /\ Name(p, i) \in Seq(STRING) /\ Name(p, i) # <<>> /\ Len(Name(p, i)) \in Nat \ {0}
  BY NamesAre
<1>2. e \in Matches
  BY <1>1 DEF Matches
<1>3. \A q \in Router!Profiles : q \in Nat \ {0} /\ Count(q) \in Nat
  BY NamesAre
<1>4. \A q \in Router!Profiles : \A j \in 1..Count(q) :
         /\ Len(Name(q, j)) \in Nat
         /\ Seen(p, i, q, j) <=> (Seen(p, i - 1, q, j) \/ (q = p /\ j = i))
  <2> SUFFICES ASSUME NEW q \in Router!Profiles, NEW j \in 1..Count(q)
               PROVE  /\ Len(Name(q, j)) \in Nat
                      /\ Seen(p, i, q, j) <=> (Seen(p, i - 1, q, j) \/ (q = p /\ j = i))
    OBVIOUS
  <2>1. Len(Name(q, j)) \in Nat
    BY NamesAre
  <2> QED BY <1>1, <1>3, <2>1 DEF Seen
<1>5. ASSUME Found(requested, b, p, i - 1) PROVE Found(requested, c, p, i)
  <2>1. b \in Matches /\ b.profile \in Nat /\ Len(b.name) \in Nat
    BY <1>5, LenProperties DEF Found, Matches
  <2>2. CASE c = b /\ ~(/\ b.name # requested
                        /\ e.name = requested \/ (Router!Related(requested, e.name) /\ Len(e.name) > Len(b.name)))
    <3>1. b.profile # 0 => b.profile <= p
      BY <1>1, <1>5, <2>1 DEF Found, Seen
    <3>2. b.profile # 0 =>
           /\ b.profile \in Router!Profiles
           /\ b.name = requested \/ Router!Related(requested, b.name)
           /\ \E j \in 1..Count(b.profile) : Seen(p, i, b.profile, j) /\ Name(b.profile, j) = b.name
      BY <1>4, <1>5 DEF Found
    <3>3. ASSUME NEW q \in Router!Profiles, NEW j \in 1..Count(q), Seen(p, i, q, j)
          PROVE  /\ Name(q, j) = requested => b.name = requested
                 /\ b.name # requested /\ Router!Related(requested, Name(q, j)) =>
                      /\ Len(Name(q, j)) <= Len(b.name)
                      /\ q < b.profile => Len(Name(q, j)) < Len(b.name)
      <4>1. CASE Seen(p, i - 1, q, j)
        BY <1>5, <4>1 DEF Found
      <4>2. CASE q = p /\ j = i
        <5>1. Name(q, j) = e.name
          BY <1>1, <4>2
        <5>2. ~(q < b.profile)
          BY <1>1, <2>1, <3>1, <4>2
        <5> HIDE DEF e
        <5> QED BY <1>1, <2>1, <2>2, <5>1, <5>2
      <4> QED BY <1>4, <3>3, <4>1, <4>2
    <3>4. b.profile = 0 => b.name = <<>>
      BY <1>5 DEF Found
    <3>5. Found(requested, b, p, i)
      BY <2>1, <3>2, <3>3, <3>4 DEF Found
    <3> QED BY <2>2, <3>5
  <2>3. CASE c = e /\ b.name # requested
             /\ (e.name = requested \/ (Router!Related(requested, e.name) /\ Len(e.name) > Len(b.name)))
    <3>1. e.profile # 0 =>
           /\ e.profile \in Router!Profiles
           /\ e.name = requested \/ Router!Related(requested, e.name)
           /\ \E j \in 1..Count(e.profile) : Seen(p, i, e.profile, j) /\ Name(e.profile, j) = e.name
      BY <1>1, <1>4, <2>3
    <3>2. ASSUME NEW q \in Router!Profiles, NEW j \in 1..Count(q), Seen(p, i, q, j)
          PROVE  /\ Name(q, j) = requested => e.name = requested
                 /\ e.name # requested /\ Router!Related(requested, Name(q, j)) =>
                      /\ Len(Name(q, j)) <= Len(e.name)
                      /\ q < e.profile => Len(Name(q, j)) < Len(e.name)
      <4>1. CASE Seen(p, i - 1, q, j)
        <5>1. /\ Name(q, j) # requested
              /\ Router!Related(requested, Name(q, j)) => Len(Name(q, j)) <= Len(b.name)
          BY <1>5, <2>3, <4>1 DEF Found
        <5>2. Len(Name(q, j)) \in Nat
          BY <1>4
        <5> HIDE DEF e
        <5> QED BY <1>1, <2>1, <2>3, <5>1, <5>2
      <4>2. CASE q = p /\ j = i
        BY <1>1, <4>2
      <4> QED BY <1>4, <3>2, <4>1, <4>2
    <3>3. e.profile # 0
      BY <1>1
    <3>4. Found(requested, e, p, i)
      <4> HIDE DEF e
      <4> QED BY <1>2, <3>1, <3>2, <3>3 DEF Found
    <3> QED BY <2>3, <3>4
  <2> QED BY <2>2, <2>3 DEF Router!Better
<1> QED BY <1>2, <1>5 DEF Router!Better

\* The loop over the models of one profile.
LEMMA ScanFinds ==
    ASSUME RightCatalogue, NEW requested, requested # <<>>, NEW p \in Router!Profiles,
           NEW b \in Matches
    PROVE  /\ Router!Scan(requested, p, b)[Count(p)] \in Matches
           /\ Found(requested, b, p, 0) =>
                Found(requested, Router!Scan(requested, p, b)[Count(p)], p, Count(p))
<1> DEFINE n == Count(p)
           L == Router!Scan(requested, p, b)
           Next1(i, x1) == Router!Better(requested, x1, [profile |-> p, name |-> Name(p, i)])
           step == [i \in 1..n |-> [x1 \in Matches |-> Next1(i, x1)]]
<1>1. n \in Nat
  BY NamesAre
<1>2. step \in [1..n -> [Matches -> Matches]]
  <2>1. \A i \in 1..n : \A x1 \in Matches : Next1(i, x1) \in Matches
    BY BetterFinds
  <2> HIDE DEF Next1, n
  <2> QED BY <2>1
<1>3. PICK g : IsRun(g, n, Matches, b, step)
  <2> HIDE DEF n, step
  <2> QED BY <1>1, <1>2, Iterates
<1>4. ASSUME NEW i \in 1..n PROVE g[i] = Next1(i, g[i - 1])
  <2>1. i - 1 \in 0..n
    BY <1>1
  <2>2. g[i - 1] \in Matches /\ g[i] = step[i][g[i - 1]]
    BY <1>3, <2>1 DEF IsRun
  <2> HIDE DEF Next1, n
  <2> QED BY <2>2
<1>5. g = [i \in 0..n |-> IF i = 0 THEN b ELSE Next1(i, g[i - 1])]
  <2> HIDE DEF Next1, step, n
  <2> QED BY <1>3, <1>4 DEF IsRun
<1>6. L = CHOOSE h : h = [i \in 0..n |-> IF i = 0 THEN b ELSE Next1(i, h[i - 1])]
  BY DEF Router!Scan, Count, Name
<1>7. L = [i \in 0..n |-> IF i = 0 THEN b ELSE Next1(i, L[i - 1])]
  <2> HIDE DEF Next1, L, n
  <2> QED BY <1>5, <1>6
<1>8. L[0] = b /\ \A i \in 1..n : L[i] = Next1(i, L[i - 1])
  <2> HIDE DEF Next1, L, n
  <2> QED BY <1>1, <1>7
<1> DEFINE Good == {i \in 0..n : L[i] \in Matches /\
                       (Found(requested, b, p, 0) => Found(requested, L[i], p, i))}
<1>9. 0 \in Good
  <2> HIDE DEF Next1, L, n
  <2> QED BY <1>1, <1>8
<1>10. ASSUME NEW i \in 0..(n - 1), i \in Good PROVE i + 1 \in Good
  <2>1. i + 1 \in 1..n /\ i + 1 \in 0..n /\ (i + 1) - 1 = i
    BY <1>1
  <2>2. L[i + 1] = Next1(i + 1, L[i])
    <3> HIDE DEF Next1, L, n
    <3> QED BY <1>8, <2>1
  <2>3. /\ L[i] \in Matches => Next1(i + 1, L[i]) \in Matches
        /\ Found(requested, L[i], p, (i + 1) - 1) => Found(requested, Next1(i + 1, L[i]), p, i + 1)
    <3> HIDE DEF L
    <3> QED BY <2>1, BetterFinds
  <2> HIDE DEF Next1, L, n
  <2> QED BY <1>10, <2>1, <2>2, <2>3
<1>11. \A i \in 0..n : i \in Good
  <2> HIDE DEF Good, n
  <2> QED BY <1>1, <1>9, <1>10, Induct
<1>12. n \in 0..n
  BY <1>1
<1> HIDE DEF Next1, L
<1> QED BY <1>11, <1>12 DEF L

\* The loop over the profiles finds the best match of the whole catalogue.
LEMMA BestMatchFinds ==
    ASSUME RightCatalogue, NEW requested, requested # <<>>
    PROVE  Found(requested, Router!BestMatch(requested), Len(PROFILES), Count(Len(PROFILES)))
<1> DEFINE n == Len(PROFILES)
           L == Router!ScanAll(requested)
           Next1(q, x1) == Router!Scan(requested, q, x1)[Count(q)]
           step == [q \in 1..n |-> [x1 \in Matches |-> Next1(q, x1)]]
<1>0. Router!Profiles = 1..n /\ n \in Nat /\ n \in 0..n /\ n # 0
  BY DEF Router!Profiles, RightCatalogue
<1>1. NoMatch \in Matches
  BY EmptySeq DEF NoMatch, Matches
<1>2. step \in [1..n -> [Matches -> Matches]]
  <2>1. \A q \in 1..n : \A x1 \in Matches : Next1(q, x1) \in Matches
    BY <1>0, ScanFinds
  <2> HIDE DEF Next1, n
  <2> QED BY <2>1
<1>3. PICK g : IsRun(g, n, Matches, NoMatch, step)
  <2> HIDE DEF n, step
  <2> QED BY <1>0, <1>1, <1>2, Iterates
<1>4. ASSUME NEW q \in 1..n PROVE g[q] = Next1(q, g[q - 1])
  <2>1. q - 1 \in 0..n
    BY <1>0
  <2>2. g[q - 1] \in Matches /\ g[q] = step[q][g[q - 1]]
    BY <1>3, <2>1 DEF IsRun
  <2> HIDE DEF Next1, n
  <2> QED BY <2>2
<1>5. g = [q \in 0..n |-> IF q = 0 THEN NoMatch ELSE Next1(q, g[q - 1])]
  <2> HIDE DEF Next1, step, n
  <2> QED BY <1>3, <1>4 DEF IsRun
<1>6. L = CHOOSE h : h = [q \in 0..n |-> IF q = 0 THEN NoMatch ELSE Next1(q, h[q - 1])]
  BY DEF Router!ScanAll, Count, NoMatch, Router!None
<1>7. L = [q \in 0..n |-> IF q = 0 THEN NoMatch ELSE Next1(q, L[q - 1])]
  <2> HIDE DEF Next1, L, n
  <2> QED BY <1>5, <1>6
<1>8. L[0] = NoMatch /\ \A q \in 1..n : L[q] = Next1(q, L[q - 1])
  <2> HIDE DEF Next1, L, n
  <2> QED BY <1>0, <1>7
<1> DEFINE Good == {q \in 0..n : Found(requested, L[q], q + 1, 0)}
<1>9. 0 \in Good
  <2>1. \A q \in Router!Profiles : \A j \in 1..Count(q) : ~Seen(1, 0, q, j)
    BY NamesAre DEF Seen
  <2>2. NoMatch.profile = 0 /\ NoMatch.name = <<>>
    BY DEF NoMatch
  <2>3. Found(requested, NoMatch, 1, 0)
    BY <1>1, <2>1, <2>2 DEF Found
  <2> HIDE DEF Next1, L, n
  <2> QED BY <1>0, <1>8, <2>3
<1>10. ASSUME NEW q \in Router!Profiles, NEW c, Found(requested, c, q, Count(q))
       PROVE  Found(requested, c, q + 1, 0)
  <2>1. \A r \in Router!Profiles : \A j \in 1..Count(r) :
            Seen(q, Count(q), r, j) <=> Seen(q + 1, 0, r, j)
    BY NamesAre DEF Seen
  <2>2. /\ c \in Matches
        /\ c.profile = 0 => c.name = <<>>
        /\ c.profile # 0 =>
             /\ c.profile \in Router!Profiles
             /\ c.name = requested \/ Router!Related(requested, c.name)
             /\ \E j \in 1..Count(c.profile) :
                    Seen(q + 1, 0, c.profile, j) /\ Name(c.profile, j) = c.name
    BY <1>10, <2>1 DEF Found
  <2>3. \A r \in Router!Profiles : \A j \in 1..Count(r) : Seen(q + 1, 0, r, j) =>
         /\ Name(r, j) = requested => c.name = requested
         /\ c.name # requested /\ Router!Related(requested, Name(r, j)) =>
              /\ Len(Name(r, j)) <= Len(c.name)
              /\ r < c.profile => Len(Name(r, j)) < Len(c.name)
    BY <1>10, <2>1 DEF Found
  <2> QED BY <2>2, <2>3 DEF Found
<1>11. ASSUME NEW q \in 0..(n - 1), q \in Good
       PROVE  Found(requested, L[q + 1], q + 1, Count(q + 1))
  <2>1. q + 1 \in Router!Profiles /\ q + 1 \in 1..n /\ (q + 1) - 1 = q
    BY <1>0
  <2>2. L[q + 1] = Next1(q + 1, L[q])
    <3> HIDE DEF Next1, L, n
    <3> QED BY <1>8, <2>1
  <2>3. Found(requested, L[q], q + 1, 0) /\ L[q] \in Matches
    BY <1>11 DEF Found
  <2>4. Found(requested, Next1(q + 1, L[q]), q + 1, Count(q + 1))
    <3> HIDE DEF L
    <3> QED BY <2>1, <2>3, ScanFinds
  <2> QED BY <2>2, <2>4
<1>12. ASSUME NEW q \in 0..(n - 1), q \in Good PROVE q + 1 \in Good
  <2>1. q + 1 \in Router!Profiles /\ q + 1 \in 0..n
    BY <1>0
  <2>2. Found(requested, L[q + 1], q + 1, Count(q + 1))
    BY <1>11, <1>12
  <2>3. Found(requested, L[q + 1], (q + 1) + 1, 0)
    <3> HIDE DEF L
    <3> QED BY <1>10, <2>1, <2>2
  <2> QED BY <2>1, <2>3
<1>13. \A q \in 0..n : q \in Good
  <2> HIDE DEF Good, n
  <2> QED BY <1>0, <1>9, <1>12, Induct
<1>14. n - 1 \in 0..(n - 1) /\ n - 1 \in Good /\ (n - 1) + 1 = n
  <2> HIDE DEF Good
  <2> QED BY <1>0, <1>13
<1>15. Found(requested, L[n], n, Count(n))
  <2> HIDE DEF Good, L, n
  <2>1. Found(requested, L[(n - 1) + 1], (n - 1) + 1, Count((n - 1) + 1))
    BY <1>11, <1>14
  <2> QED BY <1>14, <2>1
<1> QED BY <1>15 DEF Router!BestMatch

\* The first of some positions is one of them.
LEMMA FirstIsOne ==
    ASSUME NEW I, I \subseteq Nat, I # {}
    PROVE  Router!Min(I) \in I
<1>1. \E i \in I : \A j \in I : i <= j
  BY LeastNatural
<1> QED BY <1>1 DEF Router!Min

\* A label leads to a model of its profile, and so does the lack of one.
LEMMA LabelledIsOwn ==
    ASSUME RightCatalogue, NEW p \in Router!Profiles, NEW labels, Len(labels) \in Nat
    PROVE  Router!Labelled(p, labels) \in Router!Models(p)
<1> DEFINE I == {i \in 1..Len(labels) : labels[i] \in DOMAIN PROFILES[p].labels}
           own == Router!SelectInSeq(labels, LAMBDA l : l \in DOMAIN PROFILES[p].labels)
<1>1. own = IF I # {} THEN Router!Min(I) ELSE 0
  BY DEF Router!SelectInSeq
<1>2. CASE own = 0
  <2>1. Router!Labelled(p, labels) = Head(PROFILES[p].models)
    BY <1>2 DEF Router!Labelled
  <2>2. PROFILES[p].models \in Seq(Seq(STRING) \ {<<>>}) /\ PROFILES[p].models # <<>>
    BY DEF RightCatalogue, Router!Profiles
  <2>3. Head(PROFILES[p].models) = Name(p, 1) /\ 1 \in 1..Count(p)
    BY <2>2, NamesAre DEF Name, Count
  <2> QED BY <2>1, <2>3, NamesAre
<1>3. CASE own # 0
  <2>1. I # {} /\ own = Router!Min(I) /\ I \subseteq Nat
    BY <1>1, <1>3
  <2>2. own \in I
    <3> HIDE DEF I, own
    <3> QED BY <2>1, FirstIsOne
  <2>3. Router!Labelled(p, labels) = PROFILES[p].labels[labels[own]]
    BY <1>3 DEF Router!Labelled
  <2>4. labels[own] \in DOMAIN PROFILES[p].labels
    BY <2>2
  <2> QED BY <2>3, <2>4, NamesAre
<1> QED BY <1>2, <1>3

\* _select_model stays in the profile it is given.
LEMMA SelectModelIsOwn ==
    ASSUME RightCatalogue, NEW p \in Router!Profiles, NEW hint
    PROVE  Router!SelectModel(hint, p) \in Router!Models(p)
<1> DEFINE requested == Router!Raw(hint)
           I == {i \in 1..Len(PROFILES[p].models) : Router!Related(requested, PROFILES[p].models[i])}
           own == Router!SelectInSeq(PROFILES[p].models, LAMBDA m : Router!Related(requested, m))
<1>1. own = IF I # {} THEN Router!Min(I) ELSE 0
  BY DEF Router!SelectInSeq
<1>2. own # 0 => PROFILES[p].models[own] \in Router!Models(p)
  <2> SUFFICES ASSUME own # 0 PROVE PROFILES[p].models[own] \in Router!Models(p)
    OBVIOUS
  <2>1. I # {} /\ own = Router!Min(I) /\ I \subseteq Nat
    BY <1>1
  <2>2. own \in I
    <3> HIDE DEF I, own
    <3> QED BY <2>1, FirstIsOne
  <2>3. own \in 1..Count(p)
    BY <2>2 DEF Count
  <2> HIDE DEF own
  <2> QED BY <2>3, NamesAre DEF Name
<1>3. /\ Router!Labelled(p, <<Router!Chat>>) \in Router!Models(p)
      /\ Router!Labelled(p, <<Router!Code, Router!Chat>>) \in Router!Models(p)
  <2>1. Len(<<Router!Chat>>) \in Nat /\ Len(<<Router!Code, Router!Chat>>) \in Nat
    OBVIOUS
  <2> QED BY <2>1, LabelledIsOwn
<1> HIDE DEF own, requested
<1> QED BY <1>2, <1>3 DEF Router!SelectModel, own, requested

\* Where nothing is exact or related, the profile at hand; else the owner.
LEMMA SelectProfileIsOwner ==
    ASSUME RightCatalogue, NEW hint, NEW act \in {0} \cup Router!Profiles
    PROVE  /\ Router!SelectProfile(hint, act) \in Router!Profiles
           /\ Router!IsOwner(Router!SelectProfile(hint, act), Router!Strip(hint), act)
<1> DEFINE requested == Router!Strip(hint)
           b == Router!BestMatch(requested)
           n == Len(PROFILES)
           Names == UNION {Router!Models(q) : q \in Router!Profiles}
           here == IF act = 0 THEN 1 ELSE act
           p == Router!SelectProfile(hint, act)
<1> USE DEF Router!None
<1>1. /\ Router!Profiles = 1..n /\ n \in Nat /\ n # 0 /\ 1 \in Router!Profiles /\ here \in Router!Profiles
  BY DEF Router!Profiles, RightCatalogue
<1>2. \A m : m \in Names <=> \E q \in Router!Profiles : \E j \in 1..Count(q) : m = Name(q, j)
  BY NamesAre
<1>3. CASE requested \in {<<>>, Router!Auto}
  <2>1. p = here
    BY <1>3 DEF Router!SelectProfile
  <2> QED BY <1>1, <1>3, <2>1 DEF Router!IsOwner
<1>4. CASE requested \notin {<<>>, Router!Auto}
  <2>1. Found(requested, b, n, Count(n)) /\ b \in Matches /\ b.profile \in Nat /\ Len(b.name) \in Nat
    <3>1. Found(requested, b, n, Count(n))
      BY <1>4, BestMatchFinds
    <3> QED BY <3>1, LenProperties DEF Found, Matches
  <2>2. p = IF b.profile # 0 THEN b.profile ELSE here
    BY <1>4 DEF Router!SelectProfile, Router!FindProfileForModel
  <2>3. \A q \in Router!Profiles : \A j \in 1..Count(q) :
           /\ Seen(n, Count(n), q, j) /\ Len(Name(q, j)) \in Nat \ {0}
           /\ q \in Nat
    <3> SUFFICES ASSUME NEW q \in Router!Profiles, NEW j \in 1..Count(q)
                 PROVE  /\ Seen(n, Count(n), q, j) /\ Len(Name(q, j)) \in Nat \ {0}
                        /\ q \in Nat
      OBVIOUS
    <3>1. Len(Name(q, j)) \in Nat \ {0} /\ q \in Nat /\ Count(q) \in Nat
      BY NamesAre
    <3> QED BY <1>1, <3>1 DEF Seen
  <2> HIDE DEF b, n, here, p
  <2>4. \A q \in Router!Profiles : \A j \in 1..Count(q) :
         /\ Name(q, j) = requested => b.name = requested
         /\ b.name # requested /\ Router!Related(requested, Name(q, j)) =>
              /\ Len(Name(q, j)) <= Len(b.name)
              /\ q < b.profile => Len(Name(q, j)) < Len(b.name)
    BY <2>1, <2>3 DEF Found
  <2>5. b.profile # 0 =>
         /\ b.profile \in Router!Profiles
         /\ b.name = requested \/ Router!Related(requested, b.name)
         /\ \E j \in 1..Count(b.profile) : Name(b.profile, j) = b.name
    BY <2>1 DEF Found
  <2>6. ASSUME b.profile = 0 PROVE p \in Router!Profiles /\ Router!IsOwner(p, requested, act)
    <3>1. b.name = <<>> /\ Len(b.name) = 0
      BY <2>1, <2>6, EmptySeq DEF Found
    <3>2. \A q \in Router!Profiles : \A j \in 1..Count(q) :
             ~(Name(q, j) = requested \/ Router!Related(requested, Name(q, j)))
      <4> SUFFICES ASSUME NEW q \in Router!Profiles, NEW j \in 1..Count(q),
                          Name(q, j) = requested \/ Router!Related(requested, Name(q, j))
                   PROVE  FALSE
        OBVIOUS
      <4>1. b.name # requested
        BY <1>4, <3>1
      <4>2. Len(Name(q, j)) <= 0
        BY <2>4, <3>1, <4>1
      <4> QED BY <2>3, <4>2
    <3>3. ~\E m \in Names : m = requested \/ Router!Related(requested, m)
      BY <1>2, <3>2
    <3>4. p = here
      BY <2>2, <2>6
    <3> QED BY <1>1, <3>3, <3>4 DEF Router!IsOwner, here
  <2>7. ASSUME b.profile # 0 PROVE p \in Router!Profiles /\ Router!IsOwner(p, requested, act)
    <3>1. p = b.profile /\ p \in Router!Profiles
      BY <2>2, <2>5, <2>7
    <3>2. b.name \in Names /\ b.name \in Router!Models(p)
      BY <1>2, <2>5, <2>7, <3>1, NamesAre
    <3>3. \E m \in Names : m = requested \/ Router!Related(requested, m)
      BY <2>5, <2>7, <3>2
    <3>4. requested \in Names => requested \in Router!Models(p)
      BY <1>2, <2>4, <3>2
    <3> DEFINE RelatedTo(q) == {Len(m) : m \in {m \in Router!Models(q) : Router!Related(requested, m)}}
               k == Len(b.name)
    <3>5. ASSUME requested \notin Names
          PROVE  \E l \in RelatedTo(p) :
                    /\ \A q \in 1..(p - 1) : \A j \in RelatedTo(q) : j < l
                    /\ \A q \in Router!Profiles : \A j \in RelatedTo(q) : j <= l
      <4>1. b.name # requested /\ Router!Related(requested, b.name)
        BY <2>5, <2>7, <3>2, <3>5
      <4>2. k \in RelatedTo(p)
        BY <3>2, <4>1
      <4>3. ASSUME NEW q \in Router!Profiles, NEW j \in RelatedTo(q)
            PROVE  j <= k /\ (q < p => j < k)
        <5>1. PICK m \in Router!Models(q) : Router!Related(requested, m) /\ j = Len(m)
          BY <4>3
        <5>2. PICK i \in 1..Count(q) : m = Name(q, i)
          BY <5>1, NamesAre
        <5> QED BY <2>4, <3>1, <4>1, <5>1, <5>2
      <4>4. \A q \in 1..(p - 1) : q \in Router!Profiles /\ q < p
        BY <1>1, <3>1
      <4> HIDE DEF RelatedTo, k
      <4> QED BY <4>2, <4>3, <4>4
    <3> HIDE DEF Names
    <3> QED BY <1>4, <3>1, <3>3, <3>4, <3>5 DEF Router!IsOwner, Names
  <2> QED BY <2>6, <2>7 DEF p
<1> QED BY <1>3, <1>4

\* A decision q: bound for a model of its profile, and that profile has the
\* label or owns the name.
DecidedRight(q) ==
    /\ q.profile \in Router!Profiles
    /\ q.model \in Router!Models(q.profile)
    /\ LET text == Router!Strip(q.hint)
           Has(p) == text \in DOMAIN PROFILES[p].labels
       IN IF text \notin {<<>>, Router!Auto} /\ \E p \in Router!Profiles : Has(p)
          THEN /\ Has(q.profile)
               /\ q.at # 0 /\ Has(q.at) => q.profile = q.at
          ELSE Router!IsOwner(q.profile, text, q.at)

\* route decides right.
LEMMA RouteIsRight ==
    ASSUME RightCatalogue, NEW hint, NEW act \in {0} \cup Router!Profiles
    PROVE  DecidedRight([hint |-> hint, profile |-> Router!Route(hint, act).profile,
                         model |-> Router!Route(hint, act).model, at |-> act])
<1> DEFINE text == Router!Strip(hint)
           Has(p) == text \in DOMAIN PROFILES[p].labels
           label == IF text \in {<<>>, Router!Auto} THEN 0 ELSE Router!ResolveLabel(text, act)
           d == Router!Route(hint, act)
           I == {p \in 1..Len(PROFILES) : Has(p)}
           q == [hint |-> hint, profile |-> d.profile, model |-> d.model, at |-> act]
<1> USE DEF Router!None
<1>1. Router!Profiles = 1..Len(PROFILES) /\ Router!Profiles \subseteq Nat \ {0}
  BY DEF Router!Profiles, RightCatalogue
<1>2. q.hint = hint /\ q.profile = d.profile /\ q.model = d.model /\ q.at = act
  OBVIOUS
<1>3. CASE text \notin {<<>>, Router!Auto} /\ \E p \in Router!Profiles : Has(p)
  <2>1. label = IF act # 0 /\ Has(act) THEN act ELSE Router!Min(I)
    BY <1>1, <1>3 DEF Router!ResolveLabel, Router!SelectInSeq
  <2>2. Router!Min(I) \in I
    <3>1. I # {} /\ I \subseteq Nat
      BY <1>1, <1>3
    <3> HIDE DEF I
    <3> QED BY <3>1, FirstIsOne
  <2>3. label \in Router!Profiles /\ label # 0 /\ Has(label) /\ (act # 0 /\ Has(act) => label = act)
    BY <1>1, <2>1, <2>2
  <2>4. d.profile = label /\ d.model = PROFILES[label].labels[text]
    BY <2>3 DEF Router!Route
  <2>5. d.model \in Router!Models(label)
    <3> HIDE DEF label, d
    <3> QED BY <2>3, <2>4, NamesAre
  <2> HIDE DEF label, d, q
  <2> QED BY <1>2, <1>3, <2>3, <2>4, <2>5 DEF DecidedRight, q, d
<1>4. CASE ~(text \notin {<<>>, Router!Auto} /\ \E p \in Router!Profiles : Has(p))
  <2>1. label = 0
    BY <1>1, <1>4 DEF Router!ResolveLabel, Router!SelectInSeq
  <2>2. d.profile = Router!SelectProfile(hint, act) /\ d.model = Router!SelectModel(hint, d.profile)
    BY <2>1 DEF Router!Route
  <2>3. d.profile \in Router!Profiles /\ Router!IsOwner(d.profile, text, act)
    BY <2>2, SelectProfileIsOwner
  <2>4. d.model \in Router!Models(d.profile)
    <3> HIDE DEF d
    <3> QED BY <2>2, <2>3, SelectModelIsOwn
  <2> HIDE DEF d, q
  <2> QED BY <1>2, <1>4, <2>3, <2>4 DEF DecidedRight, q, d
<1> QED BY <1>3, <1>4

RouterInv ==
    /\ RightCatalogue
    /\ active \in {0} \cup Router!Profiles
    /\ swap \in {0} \cup Router!Profiles
    /\ request = [r \in Callers |-> request[r]]
    /\ \A r \in Callers : request[r] # Router!NoRequest => DecidedRight(request[r])

LEMMA RouterInvInit == Router!Init => RouterInv
<1> SUFFICES ASSUME Router!Init PROVE RouterInv
  OBVIOUS
<1>1. RightCatalogue
  BY CataloguesAreRight DEF Router!Init, RightCatalogue, Router!CatalogueAssumption
<1> QED BY <1>1 DEF Router!Init, RouterInv, Router!None

\* A step that keeps or clears requests, and swaps to profiles there are.
LEMMA RouterKeeps ==
    ASSUME RouterInv, PROFILES' = PROFILES, request' = [r \in Callers |-> request'[r]],
           active' \in {0} \cup Router!Profiles, swap' \in {0} \cup Router!Profiles,
           \A r \in Callers : request'[r] # Router!NoRequest =>
               request'[r] = request[r] \/ DecidedRight(request'[r])
    PROVE  RouterInv'
<1>1. RightCatalogue' /\ Router!Profiles' = Router!Profiles
  BY DEF RouterInv, RightCatalogue, Router!Profiles
<1>2. ASSUME NEW r \in Callers, request'[r] # Router!NoRequest
      PROVE  DecidedRight(request[r])'
  <2>1. DecidedRight(request'[r])
    BY <1>2 DEF RouterInv
  <2> QED BY <2>1 DEF DecidedRight, Router!Profiles, Router!Models, Router!IsOwner
<1>3. Router!NoRequest' = Router!NoRequest
  BY DEF Router!NoRequest, Router!None
<1> QED BY <1>1, <1>2, <1>3 DEF RouterInv

LEMMA RouterInvNext == RouterInv /\ [Router!Next]_routerVars => RouterInv'
<1> SUFFICES ASSUME RouterInv, [Router!Next]_routerVars PROVE RouterInv'
  OBVIOUS
<1>1. ASSUME NEW r \in Callers, NEW hint, Router!Arrive(r, hint) PROVE RouterInv'
  <2> DEFINE q == [hint |-> hint, profile |-> Router!Route(hint, active).profile,
                   model |-> Router!Route(hint, active).model, at |-> active]
  <2>1. DecidedRight(q)
    BY RouteIsRight DEF RouterInv
  <2>2. request' = [request EXCEPT ![r] = q] /\ UNCHANGED <<PROFILES, active, swap>>
    BY <1>1 DEF Router!Arrive
  <2>3. \A s \in Callers : request'[s] = IF s = r THEN q ELSE request[s]
    <3> HIDE DEF q
    <3> QED BY <2>2 DEF RouterInv
  <2>4. request' = [s \in Callers |-> request'[s]]
    <3> HIDE DEF q
    <3> QED BY <2>2 DEF RouterInv
  <2>5. \A s \in Callers : request'[s] # Router!NoRequest =>
            request'[s] = request[s] \/ DecidedRight(request'[s])
    <3> HIDE DEF q
    <3> QED BY <2>1, <2>3
  <2>6. active' \in {0} \cup Router!Profiles /\ swap' \in {0} \cup Router!Profiles
    BY <2>2 DEF RouterInv
  <2> QED BY <2>2, <2>4, <2>5, <2>6, RouterKeeps
<1>2. ASSUME NEW r \in Callers, Router!StartSwap(r) PROVE RouterInv'
  <2>1. request[r] # Router!NoRequest
    BY <1>2 DEF Router!StartSwap, Router!Admitted
  <2>2. swap' \in Router!Profiles
    BY <1>2, <2>1 DEF Router!StartSwap, RouterInv, DecidedRight
  <2> QED BY <1>2, <2>2, RouterKeeps DEF Router!StartSwap, RouterInv
<1>3. ASSUME NEW r \in Callers, Router!Serve(r) PROVE RouterInv'
  <2>1. /\ request' = [s \in Callers |-> request'[s]]
        /\ \A s \in Callers : request'[s] # Router!NoRequest => request'[s] = request[s]
        /\ UNCHANGED <<PROFILES, active, swap>>
    BY <1>3 DEF Router!Serve, RouterInv
  <2> QED BY <2>1, RouterKeeps DEF RouterInv
<1>4. CASE Router!Admit
  BY <1>4, RouterKeeps DEF Router!Admit, RouterInv
<1>5. CASE Router!Claim
  BY <1>5, RouterKeeps DEF Router!Claim, RouterInv, Router!None
<1>6. CASE UNCHANGED routerVars
  BY <1>6, RouterKeeps DEF routerVars, RouterInv
<1> QED BY <1>1, <1>2, <1>3, <1>4, <1>5, <1>6 DEF Router!Next

\* For every catalogue whose models have names and whose labels are of own
\* models, every text and every profile active on arrival: SmartRouter.route
\* binds a request to a model of the profile it is queued under, and that
\* profile is the one the reference definition of ownership names.
THEOREM RequestsGoWhereTheyBelong == MCSpec => []RoutesRight
<1>1. MCInit => RouterInv
  BY RouterInvInit DEF MCInit
<1>2. RouterInv /\ [MCNext]_MCvars => RouterInv'
  <2>1. [MCNext]_MCvars => [Router!Next]_routerVars
    BY DEF MCNext, MCvars, routerVars
  <2> QED BY <2>1, RouterInvNext
<1>3. RouterInv => RoutesRight
  <2> SUFFICES ASSUME RouterInv PROVE RoutesRight
    OBVIOUS
  <2>1. \A r \in Router!Routed : DecidedRight(request[r])
    BY DEF Router!Routed, RouterInv
  <2>2. Router!ModelOfProfile
    BY <2>1 DEF Router!ModelOfProfile, DecidedRight
  <2>3. Router!GoesToOwner
    BY <2>1 DEF Router!GoesToOwner, DecidedRight, Router!None
  <2> QED BY <2>2, <2>3 DEF RoutesRight
<1> QED BY <1>1, <1>2, <1>3, PTL DEF MCSpec
=============================================================================
