------------------------ MODULE PlaygroundChat_proofs ------------------------
(***************************************************************************)
(* Proofs about the chat playground, for any script of deltas, any number  *)
(* of requests and any number of times the page is opened.                 *)
(***************************************************************************)
EXTENDS PlaygroundChat, FiniteSetTheorems, WellFoundedInduction, TLAPS

-----------------------------------------------------------------------------
(* Folds.  FoldLeft is a recursive function on sets of indices; that it    *)
(* exists, and what it is on the first k of them, is shown by induction,   *)
(* for which a least number takes the place of a rule.                     *)

LEMMA LeastNumber ==
    ASSUME NEW T, T \subseteq Nat, T # {}
    PROVE  \E n \in T : \A m \in T : n <= m
<1>1. IsWellFoundedOn(OpToRel(<, Nat), Nat)
  BY NatLessThanWellFounded
<1>2. PICK n \in T : \A m \in T : ~(<<m, n>> \in OpToRel(<, Nat))
  BY <1>1, WFMin
<1>3. \A m \in T : ~(m < n)
  BY <1>2 DEF OpToRel
<1> QED
  BY <1>3

LEMMA ElementType ==
    ASSUME NEW S, NEW s \in Seq(S), NEW i \in 1..Len(s)
    PROVE  s[i] \in S
  OBVIOUS

LEMMA MaxExists ==
    ASSUME NEW n \in Nat, NEW s \in SUBSET (1..n), s # {}
    PROVE  Max(s) \in s /\ \A y \in s : y <= Max(s)
<1> DEFINE T == {k \in Nat : \A y \in s : y <= k}
<1>1. n \in T
  OBVIOUS
<1>2. PICK k \in T : \A m \in T : k <= m
  <2>1. T \subseteq Nat /\ T # {}
    BY <1>1
  <2> HIDE DEF T
  <2> QED
    BY <2>1, LeastNumber
<1>3. k \in s
  <2> SUFFICES ASSUME k \notin s PROVE FALSE
    OBVIOUS
  <2>1. k # 0
    <3>1. PICK y \in s : TRUE
      OBVIOUS
    <3>2. y <= k /\ y \in 1..n
      BY <3>1
    <3> QED
      BY <3>2
  <2>2. k - 1 \in T
    BY <2>1
  <2> QED
    BY <1>2, <2>2
<1>4. \E x \in s : \A y \in s : x >= y
  BY <1>3
<1> QED
  BY <1>4 DEF Max

LEMMA MaxIs ==
    ASSUME NEW n \in Nat, NEW s \in SUBSET (1..n), NEW k \in s, \A y \in s : y <= k
    PROVE  Max(s) = k
<1>1. Max(s) \in s /\ k <= Max(s)
  BY MaxExists
<1>2. \A x \in s : k <= x => x = k
  OBVIOUS
<1> QED
  BY <1>1, <1>2

\* One step of a fold: the last index is taken from the set.
Folded(step, base, h, s) == IF s = {} THEN base ELSE step[Max(s)][h[s \ {Max(s)}]]

IsFold(step, base, h, n, G) ==
    /\ h \in [SUBSET (1..n) -> G]
    /\ \A s \in SUBSET (1..n) : h[s] = Folded(step, base, h, s)

\* It is one as long as its values stay in G.
FoldsIn(step, base, h, n, G) ==
    /\ h[{}] = base
    /\ \A s \in SUBSET (1..n) : s # {} /\ h[s \ {Max(s)}] \in G =>
         h[s] = step[Max(s)][h[s \ {Max(s)}]]

\* Its values on the first k indices.
Walks(step, h, n, G) ==
    /\ \A k \in 0..n : h[1..k] \in G
    /\ \A k \in 1..n : h[1..k] = step[k][h[1..(k - 1)]]

LEMMA FoldExists ==
    ASSUME NEW G, NEW n \in Nat, NEW base \in G, NEW step \in [1..n -> [G -> G]]
    PROVE  \E h : IsFold(step, base, h, n, G)
<1> DEFINE Good(m) == \E h \in [SUBSET (1..m) -> G] :
                        \A s \in SUBSET (1..m) : h[s] = Folded(step, base, h, s)
           Bad == {m \in 0..n : ~Good(m)}
<1> SUFFICES ASSUME Bad # {} PROVE FALSE
  <2>1. n \in 0..n
    OBVIOUS
  <2> QED
    BY <2>1 DEF IsFold
<1>1. PICK m \in Bad : \A k \in Bad : m <= k
  <2>1. Bad \subseteq Nat
    OBVIOUS
  <2> HIDE DEF Bad
  <2> QED
    BY <2>1, LeastNumber
<1>2. m \in 0..n /\ ~Good(m)
  OBVIOUS
<1>3. CASE m = 0
  <2> DEFINE h == [s \in SUBSET (1..m) |-> base]
  <2>1. h \in [SUBSET (1..m) -> G]
    OBVIOUS
  <2>2. ASSUME NEW s \in SUBSET (1..m) PROVE h[s] = Folded(step, base, h, s)
    <3>1. s = {}
      BY <1>3
    <3> QED
      BY <3>1 DEF Folded
  <2> QED
    BY <1>2, <2>1, <2>2
<1>4. CASE m # 0
  <2>1. m - 1 \in 0..n /\ m - 1 \notin Bad
    <3> HIDE DEF Bad, Good
    <3> QED
      BY <1>1, <1>2, <1>4
  <2>2. PICK g \in [SUBSET (1..(m - 1)) -> G] :
          \A s \in SUBSET (1..(m - 1)) : g[s] = Folded(step, base, g, s)
    BY <2>1
  <2> DEFINE h == [s \in SUBSET (1..m) |-> IF m \in s THEN step[m][g[s \ {m}]] ELSE g[s]]
  <2> HIDE DEF Bad, Good
  <2>3. \A s \in SUBSET (1..m) : s \ {m} \in SUBSET (1..(m - 1)) /\ (m \notin s => s \in SUBSET (1..(m - 1)))
    BY <1>2
  <2>4. m \in 1..n
    BY <1>2, <1>4
  <2>5. h \in [SUBSET (1..m) -> G]
    BY <2>3, <2>4
  <2>6. ASSUME NEW s \in SUBSET (1..m) PROVE h[s] = Folded(step, base, h, s)
    <3>1. CASE m \in s
      <4>1. Max(s) = m
        <5>1. m \in Nat /\ \A y \in s : y <= m
          BY <1>2
        <5> QED
          BY <5>1, <3>1, MaxIs
      <4>2. h[s \ {m}] = g[s \ {m}]
        BY <2>3
      <4>3. h[s] = step[m][g[s \ {m}]]
        BY <3>1
      <4> HIDE DEF h
      <4> QED
        BY <3>1, <4>1, <4>2, <4>3 DEF Folded
    <3>2. CASE m \notin s
      <4>1. s \in SUBSET (1..(m - 1)) /\ h[s] = g[s]
        BY <2>3, <3>2
      <4>2. h[s \ {Max(s)}] = g[s \ {Max(s)}]
        <5>1. s \ {Max(s)} \in SUBSET (1..m) /\ m \notin s \ {Max(s)}
          BY <3>2
        <5> QED
          BY <5>1
      <4> HIDE DEF h
      <4> QED
        BY <2>2, <4>1, <4>2 DEF Folded
    <3> QED
      BY <3>1, <3>2
  <2> HIDE DEF h
  <2>7. Good(m)
    BY <2>5, <2>6 DEF Good
  <2> QED
    BY <1>2, <2>7
<1> QED
  BY <1>3, <1>4

\* A recursive function that takes the steps of a fold as long as it stays in
\* G does stay in G, and its values on initial segments are determined.
LEMMA FoldWalk ==
    ASSUME NEW G, NEW n \in Nat, NEW base \in G, NEW step \in [1..n -> [G -> G]],
           NEW h, FoldsIn(step, base, h, n, G)
    PROVE  Walks(step, h, n, G)
<1> DEFINE Bad == {k \in 0..n : h[1..k] \notin G}
<1>1. ASSUME NEW k \in 1..n, h[1..(k - 1)] \in G PROVE h[1..k] = step[k][h[1..(k - 1)]]
  <2>1. Max(1..k) = k
    <3>1. 1..k \in SUBSET (1..n) /\ k \in 1..k /\ \A y \in 1..k : y <= k
      OBVIOUS
    <3> QED
      BY <3>1, MaxIs
  <2>2. (1..k) \ {k} = 1..(k - 1)
    OBVIOUS
  <2>3. k \in 1..k /\ 1..k \in SUBSET (1..n)
    OBVIOUS
  <2> QED
    BY <1>1, <2>1, <2>2, <2>3 DEF FoldsIn
<1>2. Bad = {}
  <2> SUFFICES ASSUME Bad # {} PROVE FALSE
    OBVIOUS
  <2>1. PICK m \in Bad : \A k \in Bad : m <= k
    <3>1. Bad \subseteq Nat
      OBVIOUS
    <3> HIDE DEF Bad
    <3> QED
      BY <3>1, LeastNumber
  <2>2. m \in 0..n /\ h[1..m] \notin G
    OBVIOUS
  <2>3. m # 0
    <3>1. 1..0 = {}
      OBVIOUS
    <3> QED
      BY <2>2, <3>1 DEF FoldsIn
  <2>4. m - 1 \in 0..n /\ m - 1 \notin Bad
    <3> HIDE DEF Bad
    <3> QED
      BY <2>1, <2>2, <2>3
  <2>5. h[1..(m - 1)] \in G
    BY <2>4
  <2>6. m \in 1..n
    BY <2>2, <2>3
  <2>7. h[1..m] = step[m][h[1..(m - 1)]]
    BY <1>1, <2>5, <2>6
  <2> QED
    BY <2>2, <2>5, <2>6, <2>7
<1>3. \A k \in 0..n : h[1..k] \in G
  BY <1>2
<1>4. ASSUME NEW k \in 1..n PROVE h[1..k] = step[k][h[1..(k - 1)]]
  <2>1. k - 1 \in 0..n
    OBVIOUS
  <2> QED
    BY <1>1, <1>3, <2>1
<1> QED
  BY <1>3, <1>4 DEF Walks

\* The recursive function RunUpdates applies.
Runner(us, ms, g) ==
    CHOOSE h : h = [s \in SUBSET (DOMAIN us) |->
                      IF s = {} THEN ms ELSE Apply(us[Max(s)], h[s \ {Max(s)}], g)]

LEMMA RunnerIs ==
    ASSUME NEW us, NEW ms, NEW g
    PROVE  RunUpdates(us, ms, g) = Runner(us, ms, g)[DOMAIN us]
  BY DEF RunUpdates, Runner, FoldLeft, MapThenFoldSet

\* The updates us keep the messages in G.
Keep(us, g, G) == \A i \in 1..Len(us) : \A x \in G : Apply(us[i], x, g) \in G

RunsIn(r, us, ms, g, G) ==
    /\ r[1..0] = ms
    /\ \A k \in 0..Len(us) : r[1..k] \in G
    /\ \A k \in 1..Len(us) : r[1..k] = Apply(us[k], r[1..(k - 1)], g)

LEMMA RunnerWalks ==
    ASSUME NEW U, NEW us \in Seq(U), NEW G, NEW ms \in G, NEW g, Keep(us, g, G)
    PROVE  RunsIn(Runner(us, ms, g), us, ms, g, G)
<1> DEFINE n == Len(us)
           step == [k \in 1..n |-> [x \in G |-> Apply(us[k], x, g)]]
           run(h) == [s \in SUBSET (1..n) |->
                        IF s = {} THEN ms ELSE Apply(us[Max(s)], h[s \ {Max(s)}], g)]
           r == Runner(us, ms, g)
<1>1. n \in Nat /\ DOMAIN us = 1..n
  OBVIOUS
<1>2. step \in [1..n -> [G -> G]]
  BY DEF Keep
<1>3. \A k \in 1..n : \A x \in G : step[k][x] = Apply(us[k], x, g)
  OBVIOUS
<1> HIDE DEF step
<1>4. \A s \in SUBSET (1..n) : s # {} => Max(s) \in 1..n /\ s \ {Max(s)} \in SUBSET (1..n)
  <2> SUFFICES ASSUME NEW s \in SUBSET (1..n), s # {}
               PROVE  Max(s) \in 1..n /\ s \ {Max(s)} \in SUBSET (1..n)
    OBVIOUS
  <2>1. Max(s) \in s
    BY <1>1, MaxExists
  <2> QED
    BY <2>1
<1>5. \E h : h = run(h)
  <2>0. PICK h : IsFold(step, ms, h, n, G)
    <3> HIDE DEF n, run
    <3> QED
      BY <1>1, <1>2, FoldExists
  <2>1. /\ h \in [SUBSET (1..n) -> G]
        /\ \A s \in SUBSET (1..n) : h[s] = Folded(step, ms, h, s)
    BY <2>0 DEF IsFold
  <2>2. ASSUME NEW s \in SUBSET (1..n)
        PROVE  h[s] = IF s = {} THEN ms ELSE Apply(us[Max(s)], h[s \ {Max(s)}], g)
    <3> HIDE DEF n
    <3>1. CASE s = {}
      BY <2>1, <3>1 DEF Folded
    <3>2. CASE s # {}
      <4>1. h[s] = step[Max(s)][h[s \ {Max(s)}]]
        BY <2>1, <3>2 DEF Folded
      <4>2. Max(s) \in 1..n /\ h[s \ {Max(s)}] \in G
        BY <1>4, <2>1, <3>2
      <4> QED
        BY <1>3, <3>2, <4>1, <4>2
    <3> QED
      BY <3>1, <3>2
  <2>3. h = run(h)
    <3> HIDE DEF n
    <3> QED
      BY <2>1, <2>2
  <2> QED
    BY <2>3
<1>6. r = run(r)
  BY <1>1, <1>5 DEF Runner
<1>7. \A s \in SUBSET (1..n) :
        r[s] = IF s = {} THEN ms ELSE Apply(us[Max(s)], r[s \ {Max(s)}], g)
  <2> HIDE DEF r, n
  <2> QED
    BY <1>6
<1> HIDE DEF r, n, run
<1>8. r[{}] = ms
  BY <1>7
<1>9. \A s \in SUBSET (1..n) : s # {} /\ r[s \ {Max(s)}] \in G =>
        r[s] = step[Max(s)][r[s \ {Max(s)}]]
  BY <1>3, <1>4, <1>7
<1>10. Walks(step, r, n, G)
  <2>1. FoldsIn(step, ms, r, n, G)
    BY <1>8, <1>9 DEF FoldsIn
  <2> QED
    BY <1>1, <1>2, <2>1, FoldWalk
<1>11. 1..0 = {}
  OBVIOUS
<1>12. \A k \in 1..n : k - 1 \in 0..n
  BY <1>1
<1> QED
  BY <1>3, <1>8, <1>10, <1>11, <1>12 DEF r, n, RunsIn, Walks

\* Nothing is queued: the messages stay.
LEMMA RunNone ==
    ASSUME NEW ms, NEW g
    PROVE  RunUpdates(<<>>, ms, g) = ms
<1>1. <<>> \in Seq({}) /\ Len(<<>>) = 0 /\ DOMAIN <<>> = 1..0
  OBVIOUS
<1>2. ms \in {ms} /\ Keep(<<>>, g, {ms})
  BY <1>1 DEF Keep
<1>3. RunsIn(Runner(<<>>, ms, g), <<>>, ms, g, {ms})
  BY <1>1, <1>2, RunnerWalks
<1> QED
  BY <1>1, <1>3, RunnerIs DEF RunsIn

\* Updates that keep the messages in G do so when they are all run.
LEMMA RunKeeps ==
    ASSUME NEW U, NEW us \in Seq(U), NEW G, NEW ms \in G, NEW g, Keep(us, g, G)
    PROVE  RunUpdates(us, ms, g) \in G
<1>1. DOMAIN us = 1..Len(us) /\ Len(us) \in 0..Len(us)
  OBVIOUS
<1>2. RunsIn(Runner(us, ms, g), us, ms, g, G)
  BY RunnerWalks
<1> QED
  BY <1>1, <1>2, RunnerIs DEF RunsIn

\* The update queued last is run last.
LEMMA RunLast ==
    ASSUME NEW U, NEW us \in Seq(U), NEW G, NEW ms \in G, NEW g, NEW u \in U,
           Keep(us, g, G), \A x \in G : Apply(u, x, g) \in G
    PROVE  RunUpdates(us \o <<u>>, ms, g) = Apply(u, RunUpdates(us, ms, g), g)
<1> DEFINE vs == us \o <<u>>
           n == Len(us)
           p == Runner(us, ms, g)
           q == Runner(vs, ms, g)
<1>1. vs \in Seq(U) /\ Len(vs) = n + 1 /\ n \in Nat /\ vs[n + 1] = u
  OBVIOUS
<1>2. \A i \in 1..n : vs[i] = us[i]
  OBVIOUS
<1>3. DOMAIN us = 1..n /\ DOMAIN vs = 1..(n + 1)
  BY <1>1
<1>4. Keep(vs, g, G)
  <2> SUFFICES ASSUME NEW i \in 1..(n + 1) PROVE \A x \in G : Apply(vs[i], x, g) \in G
    BY <1>1 DEF Keep
  <2>1. i \in 1..n \/ i = n + 1
    BY <1>1
  <2> HIDE DEF vs
  <2> QED
    BY <1>1, <1>2, <2>1 DEF Keep, n
<1> HIDE DEF vs, n
<1>5. /\ p[1..0] = ms
      /\ \A k \in 1..n : p[1..k] = Apply(us[k], p[1..(k - 1)], g)
  <2>1. RunsIn(p, us, ms, g, G)
    BY RunnerWalks
  <2> QED
    BY <2>1 DEF n, RunsIn
<1>6. /\ q[1..0] = ms
      /\ \A k \in 1..(n + 1) : q[1..k] = Apply(vs[k], q[1..(k - 1)], g)
  <2>1. RunsIn(q, vs, ms, g, G)
    BY <1>1, <1>4, RunnerWalks
  <2> QED
    BY <1>1, <2>1 DEF RunsIn
<1> HIDE DEF p, q
<1> DEFINE Bad == {k \in 0..n : p[1..k] # q[1..k]}
<1>7. Bad = {}
  <2> SUFFICES ASSUME Bad # {} PROVE FALSE
    OBVIOUS
  <2>1. PICK m \in Bad : \A k \in Bad : m <= k
    <3>1. Bad \subseteq Nat
      BY <1>1
    <3> HIDE DEF Bad
    <3> QED
      BY <3>1, LeastNumber
  <2>2. m \in 0..n /\ p[1..m] # q[1..m]
    OBVIOUS
  <2>3. m # 0
    BY <1>5, <1>6, <2>2
  <2>4. m - 1 \in 0..n /\ m - 1 \notin Bad
    <3> HIDE DEF Bad
    <3> QED
      BY <1>1, <2>1, <2>2, <2>3
  <2>5. m \in 1..n /\ m \in 1..(n + 1) /\ p[1..(m - 1)] = q[1..(m - 1)]
    BY <1>1, <2>2, <2>3, <2>4
  <2> QED
    BY <1>2, <1>5, <1>6, <2>2, <2>5
<1>8. p[1..n] = q[1..n] /\ n + 1 \in 1..(n + 1) /\ (n + 1) - 1 = n
  <2>1. n \in 0..n
    BY <1>1
  <2> QED
    BY <1>1, <1>7, <2>1
<1>9. q[1..(n + 1)] = Apply(u, p[1..n], g)
  BY <1>1, <1>6, <1>8
<1> QED
  BY <1>3, <1>9, RunnerIs DEF p, q, vs

\* The recursive function of Without.
Filter(ms, key) ==
    CHOOSE h : h = [s \in SUBSET (1..Len(ms)) |->
                      IF s = {} THEN <<>> ELSE IF KeyOf(ms[Max(s)]) = key THEN h[s \ {Max(s)}] ELSE Append(h[s \ {Max(s)}], ms[Max(s)])]

\* Deleting a message keeps the others as they are.
LEMMA WithoutType ==
    ASSUME NEW M, NEW ms \in Seq(M), NEW key
    PROVE  Without(ms, key) \in Seq(M)
<1> DEFINE n == Len(ms)
           step == [k \in 1..n |-> [x \in Seq(M) |-> IF KeyOf(ms[k]) = key THEN x ELSE Append(x, ms[k])]]
           run(h) == [s \in SUBSET (1..n) |->
                        IF s = {} THEN <<>> ELSE IF KeyOf(ms[Max(s)]) = key THEN h[s \ {Max(s)}] ELSE Append(h[s \ {Max(s)}], ms[Max(s)])]
           r == Filter(ms, key)
<1>0. Without(ms, key) = r[1..n]
  <2>1. DOMAIN ms = 1..n
    OBVIOUS
  <2> QED
    BY <2>1 DEF Without, Filter, FoldLeft, MapThenFoldSet
<1>1. n \in Nat /\ <<>> \in Seq(M)
  OBVIOUS
<1>2. step \in [1..n -> [Seq(M) -> Seq(M)]]
  OBVIOUS
<1>3. \A k \in 1..n : \A x \in Seq(M) : step[k][x] = IF KeyOf(ms[k]) = key THEN x ELSE Append(x, ms[k])
  OBVIOUS
<1> HIDE DEF step
<1>4. \A s \in SUBSET (1..n) : s # {} => Max(s) \in 1..n /\ s \ {Max(s)} \in SUBSET (1..n)
  <2> SUFFICES ASSUME NEW s \in SUBSET (1..n), s # {}
               PROVE  Max(s) \in 1..n /\ s \ {Max(s)} \in SUBSET (1..n)
    OBVIOUS
  <2>1. Max(s) \in s
    BY <1>1, MaxExists
  <2> QED
    BY <2>1
<1>5. \E h : h = run(h)
  <2>1. PICK h : IsFold(step, <<>>, h, n, Seq(M))
    <3> HIDE DEF n, run
    <3> QED
      BY <1>1, <1>2, FoldExists
  <2>2. h \in [SUBSET (1..n) -> Seq(M)] /\ \A s \in SUBSET (1..n) : h[s] = Folded(step, <<>>, h, s)
    BY <2>1 DEF IsFold
  <2>3. ASSUME NEW s \in SUBSET (1..n)
        PROVE  h[s] = IF s = {} THEN <<>> ELSE IF KeyOf(ms[Max(s)]) = key THEN h[s \ {Max(s)}] ELSE Append(h[s \ {Max(s)}], ms[Max(s)])
    <3> HIDE DEF n
    <3>1. CASE s = {}
      BY <2>2, <3>1 DEF Folded
    <3>2. CASE s # {}
      <4>1. h[s] = step[Max(s)][h[s \ {Max(s)}]]
        BY <2>2, <3>2 DEF Folded
      <4>2. Max(s) \in 1..n /\ h[s \ {Max(s)}] \in Seq(M)
        BY <1>4, <2>2, <3>2
      <4> QED
        BY <1>3, <3>2, <4>1, <4>2
    <3> QED
      BY <3>1, <3>2
  <2>4. h = run(h)
    <3> HIDE DEF n
    <3> QED
      BY <2>2, <2>3
  <2> QED
    BY <2>4
<1>6. r = run(r)
  BY <1>5 DEF Filter
<1>7. \A s \in SUBSET (1..n) :
        r[s] = IF s = {} THEN <<>> ELSE IF KeyOf(ms[Max(s)]) = key THEN r[s \ {Max(s)}] ELSE Append(r[s \ {Max(s)}], ms[Max(s)])
  <2> HIDE DEF r, n
  <2> QED
    BY <1>6
<1> HIDE DEF r, n, run
<1>8. FoldsIn(step, <<>>, r, n, Seq(M))
  <2>1. ASSUME NEW s \in SUBSET (1..n), s # {}, r[s \ {Max(s)}] \in Seq(M)
        PROVE  r[s] = step[Max(s)][r[s \ {Max(s)}]]
    BY <1>3, <1>4, <1>7, <2>1
  <2>2. r[{}] = <<>>
    BY <1>7
  <2> QED
    BY <2>1, <2>2 DEF FoldsIn
<1>9. Walks(step, r, n, Seq(M))
  BY <1>1, <1>2, <1>8, FoldWalk
<1> QED
  BY <1>0, <1>1, <1>9 DEF Walks

\* The script is written in Letters.
LEMMA ScriptLetters ==
    \A k \in 1..Len(Script) :
        Script[k] \in [type : {"reasoning", "content"}, text : Seq(Letters)]
<1> SUFFICES ASSUME NEW k \in 1..Len(Script)
             PROVE  Script[k] \in [type : {"reasoning", "content"}, text : Seq(Letters)]
  OBVIOUS
<1> DEFINE d == Script[k]
<1>1. d \in [type : {"reasoning", "content"}, text : Seq(STRING)]
  BY ScriptAssumption, ElementType
<1>2. d \in Range(Script)
  <2>1. k \in DOMAIN Script
    BY ScriptAssumption
  <2> QED
    BY <2>1 DEF Range
<1> HIDE DEF d
<1>3. \A i \in DOMAIN d.text : d.text[i] \in Letters
  BY <1>2 DEF Letters, Range
<1>4. d.text \in Seq(Letters)
  <2>1. d.text \in Seq(STRING)
    BY <1>1
  <2> DEFINE x == d.text
  <2>2. x \in Seq(STRING) /\ \A i \in DOMAIN x : x[i] \in Letters
    BY <1>3, <2>1
  <2> HIDE DEF x
  <2>3. x \in Seq(Letters)
    <3>1. Len(x) \in Nat /\ DOMAIN x = 1..Len(x) /\ x = [i \in 1..Len(x) |-> x[i]]
      BY <2>2
    <3>2. \A i \in 1..Len(x) : x[i] \in Letters
      BY <2>2, <3>1
    <3>3. [i \in 1..Len(x) |-> x[i]] \in Seq(Letters)
      BY <3>1, <3>2
    <3> QED
      BY <3>1, <3>3
  <2> QED
    BY <2>3 DEF x
<1> QED
  BY <1>1, <1>4 DEF d

Deltas == [type : {"reasoning", "content"}, text : Seq(Letters)]

Join(x, d) == [x EXCEPT ![d.type] = @ \o d.text]

LEMMA JoinType ==
    ASSUME NEW x \in Text, NEW d \in Deltas
    PROVE  Join(x, d) \in Text
<1>1. d.text \in Seq(Letters) /\ x.reasoning \in Seq(Letters) /\ x.content \in Seq(Letters)
  BY DEF Text, Deltas
<1>2. x.reasoning \o d.text \in Seq(Letters) /\ x.content \o d.text \in Seq(Letters)
  BY <1>1
<1>3. CASE d.type = "reasoning"
  BY <1>2, <1>3 DEF Text, Join
<1>4. CASE d.type = "content"
  BY <1>2, <1>4 DEF Text, Join
<1> QED
  BY <1>3, <1>4 DEF Deltas

\* The recursive function of TextOf.
Joiner(ds) ==
    CHOOSE h : h = [s \in SUBSET (DOMAIN ds) |->
                      IF s = {} THEN NoText ELSE Join(h[s \ {Max(s)}], ds[Max(s)])]

LEMMA JoinerIs ==
    ASSUME NEW ds
    PROVE  TextOf(ds) = Joiner(ds)[DOMAIN ds]
  BY DEF TextOf, Joiner, Join, FoldLeft, MapThenFoldSet

JoinsIn(r, ds) ==
    /\ r[1..0] = NoText
    /\ \A k \in 0..Len(ds) : r[1..k] \in Text
    /\ \A k \in 1..Len(ds) : r[1..k] = Join(r[1..(k - 1)], ds[k])

LEMMA JoinerWalks ==
    ASSUME NEW ds \in Seq(Deltas)
    PROVE  JoinsIn(Joiner(ds), ds)
<1> DEFINE n == Len(ds)
           step == [k \in 1..n |-> [x \in Text |-> Join(x, ds[k])]]
           run(h) == [s \in SUBSET (1..n) |->
                        IF s = {} THEN NoText ELSE Join(h[s \ {Max(s)}], ds[Max(s)])]
           r == Joiner(ds)
<1>1. n \in Nat /\ NoText \in Text /\ DOMAIN ds = 1..n
  BY DEF NoText, Text
<1>2. step \in [1..n -> [Text -> Text]]
  <2> SUFFICES ASSUME NEW k \in 1..n, NEW x \in Text PROVE Join(x, ds[k]) \in Text
    OBVIOUS
  <2>1. ds[k] \in Deltas
    BY ElementType
  <2> QED
    BY <2>1, JoinType
<1>3. \A k \in 1..n : \A x \in Text : step[k][x] = Join(x, ds[k])
  OBVIOUS
<1> HIDE DEF step
<1>4. \A s \in SUBSET (1..n) : s # {} => Max(s) \in 1..n /\ s \ {Max(s)} \in SUBSET (1..n)
  <2> SUFFICES ASSUME NEW s \in SUBSET (1..n), s # {}
               PROVE  Max(s) \in 1..n /\ s \ {Max(s)} \in SUBSET (1..n)
    OBVIOUS
  <2>1. Max(s) \in s
    BY <1>1, MaxExists
  <2> QED
    BY <2>1
<1>5. \E h : h = run(h)
  <2>1. PICK h : IsFold(step, NoText, h, n, Text)
    <3> HIDE DEF n, run
    <3> QED
      BY <1>1, <1>2, FoldExists
  <2>2. h \in [SUBSET (1..n) -> Text] /\ \A s \in SUBSET (1..n) : h[s] = Folded(step, NoText, h, s)
    BY <2>1 DEF IsFold
  <2>3. ASSUME NEW s \in SUBSET (1..n)
        PROVE  h[s] = IF s = {} THEN NoText ELSE Join(h[s \ {Max(s)}], ds[Max(s)])
    <3> HIDE DEF n
    <3>1. CASE s = {}
      BY <2>2, <3>1 DEF Folded
    <3>2. CASE s # {}
      <4>1. h[s] = step[Max(s)][h[s \ {Max(s)}]]
        BY <2>2, <3>2 DEF Folded
      <4>2. Max(s) \in 1..n /\ h[s \ {Max(s)}] \in Text
        BY <1>4, <2>2, <3>2
      <4> QED
        BY <1>3, <3>2, <4>1, <4>2
    <3> QED
      BY <3>1, <3>2
  <2>4. h = run(h)
    <3> HIDE DEF n
    <3> QED
      BY <2>2, <2>3
  <2> QED
    BY <2>4
<1>6. r = run(r)
  BY <1>1, <1>5 DEF Joiner
<1>7. \A s \in SUBSET (1..n) :
        r[s] = IF s = {} THEN NoText ELSE Join(r[s \ {Max(s)}], ds[Max(s)])
  <2> HIDE DEF r, n
  <2> QED
    BY <1>6
<1> HIDE DEF r, n, run
<1>8. FoldsIn(step, NoText, r, n, Text)
  <2>1. ASSUME NEW s \in SUBSET (1..n), s # {}, r[s \ {Max(s)}] \in Text
        PROVE  r[s] = step[Max(s)][r[s \ {Max(s)}]]
    BY <1>3, <1>4, <1>7, <2>1
  <2>2. r[{}] = NoText
    BY <1>7
  <2> QED
    BY <2>1, <2>2 DEF FoldsIn
<1>9. Walks(step, r, n, Text)
  BY <1>1, <1>2, <1>8, FoldWalk
<1>10. 1..0 = {} /\ \A k \in 1..n : k - 1 \in 0..n
  BY <1>1
<1> QED
  BY <1>3, <1>7, <1>9, <1>10 DEF r, n, JoinsIn, Walks

LEMMA TextOfType ==
    ASSUME NEW ds \in Seq(Deltas)
    PROVE  TextOf(ds) \in Text
<1>1. DOMAIN ds = 1..Len(ds) /\ Len(ds) \in 0..Len(ds)
  OBVIOUS
<1> QED
  BY <1>1, JoinerIs, JoinerWalks DEF JoinsIn

LEMMA TextOfNone ==
    TextOf(<<>>) = NoText
<1>1. <<>> \in Seq(Deltas) /\ DOMAIN <<>> = 1..0
  OBVIOUS
<1> QED
  BY <1>1, JoinerIs, JoinerWalks DEF JoinsIn

\* The last delta is joined last.
LEMMA TextOfMore ==
    ASSUME NEW ds \in Seq(Deltas), NEW d \in Deltas
    PROVE  TextOf(ds \o <<d>>) = Join(TextOf(ds), d)
<1> DEFINE es == ds \o <<d>>
           n == Len(ds)
           p == Joiner(ds)
           q == Joiner(es)
<1>1. es \in Seq(Deltas) /\ Len(es) = n + 1 /\ n \in Nat /\ es[n + 1] = d
  OBVIOUS
<1>2. \A i \in 1..n : es[i] = ds[i]
  OBVIOUS
<1>3. DOMAIN ds = 1..n /\ DOMAIN es = 1..(n + 1)
  BY <1>1
<1> HIDE DEF es, n
<1>4. p[1..0] = NoText /\ \A k \in 1..n : p[1..k] = Join(p[1..(k - 1)], ds[k])
  BY JoinerWalks DEF n, JoinsIn
<1>5. q[1..0] = NoText /\ \A k \in 1..(n + 1) : q[1..k] = Join(q[1..(k - 1)], es[k])
  BY <1>1, JoinerWalks DEF JoinsIn
<1> HIDE DEF p, q
<1> DEFINE Bad == {k \in 0..n : p[1..k] # q[1..k]}
<1>6. Bad = {}
  <2> SUFFICES ASSUME Bad # {} PROVE FALSE
    OBVIOUS
  <2>1. PICK m \in Bad : \A k \in Bad : m <= k
    <3>1. Bad \subseteq Nat
      BY <1>1
    <3> HIDE DEF Bad
    <3> QED
      BY <3>1, LeastNumber
  <2>2. m \in 0..n /\ p[1..m] # q[1..m]
    OBVIOUS
  <2>3. m # 0
    BY <1>4, <1>5, <2>2
  <2>4. m - 1 \in 0..n /\ m - 1 \notin Bad
    <3> HIDE DEF Bad
    <3> QED
      BY <1>1, <2>1, <2>2, <2>3
  <2>5. m \in 1..n /\ m \in 1..(n + 1) /\ p[1..(m - 1)] = q[1..(m - 1)]
    BY <1>1, <2>2, <2>3, <2>4
  <2> QED
    BY <1>2, <1>4, <1>5, <2>2, <2>5
<1>7. p[1..n] = q[1..n] /\ n + 1 \in 1..(n + 1) /\ (n + 1) - 1 = n
  <2>1. n \in 0..n
    BY <1>1
  <2> QED
    BY <1>1, <1>6, <2>1
<1>8. q[1..(n + 1)] = Join(p[1..n], d)
  BY <1>1, <1>5, <1>7
<1> QED
  BY <1>3, <1>8, JoinerIs DEF p, q, es

\* The answer of a request without streaming is a text.
LEMMA FullTextType ==
    FullText \in Text
<1>1. Script \in Seq(Deltas)
  <2>1. Len(Script) \in Nat /\ DOMAIN Script = 1..Len(Script) /\ Script = [k \in 1..Len(Script) |-> Script[k]]
    BY ScriptAssumption
  <2>2. \A k \in 1..Len(Script) : Script[k] \in Deltas
    BY ScriptLetters DEF Deltas
  <2>3. [k \in 1..Len(Script) |-> Script[k]] \in Seq(Deltas)
    BY <2>1, <2>2
  <2> QED
    BY <2>1, <2>3
<1> QED
  BY <1>1, TextOfType DEF FullText

LEMMA PartType ==
    ASSUME NEW i \in 0..Len(Script), NEW k \in 0..Len(Script)
    PROVE  SubSeq(Script, i + 1, k) \in Seq(Deltas) /\ Part(i, k) \in Text
<1>1. Len(Script) \in Nat
  BY ScriptAssumption
<1>2. SubSeq(Script, i + 1, k) \in Seq(Deltas)
  <2> DEFINE r == SubSeq(Script, i + 1, k)
  <2>1. r = [j \in 1..Len(r) |-> Script[i + j]] /\ Len(r) \in Nat
        /\ Len(r) = IF i < k THEN k - i ELSE 0
    BY <1>1, ScriptAssumption
  <2>2. ASSUME NEW j \in 1..Len(r) PROVE Script[i + j] \in Deltas
    <3>1. i + j \in 1..Len(Script)
      BY <1>1, <2>1
    <3> QED
      BY <3>1, ScriptLetters DEF Deltas
  <2> HIDE DEF r
  <2>3. [j \in 1..Len(r) |-> Script[i + j]] \in Seq(Deltas)
    BY <2>1, <2>2
  <2>4. r \in Seq(Deltas)
    BY <2>1, <2>3
  <2> QED
    BY <2>4 DEF r
<1> QED
  BY <1>2, TextOfType DEF Part

LEMMA PartNone ==
    ASSUME NEW i \in 0..Len(Script)
    PROVE  Part(i, i) = NoText
<1>1. SubSeq(Script, i + 1, i) = <<>>
  BY ScriptAssumption
<1> QED
  BY <1>1, TextOfNone DEF Part

LEMMA PartMore ==
    ASSUME NEW k \in 0..(Len(Script) - 1), NEW i \in 0..k
    PROVE  Part(i, k + 1) = Join(Part(i, k), Script[k + 1])
<1> DEFINE r == SubSeq(Script, i + 1, k)
           q == SubSeq(Script, i + 1, k + 1)
           d == Script[k + 1]
<1>1. Len(Script) \in Nat
  BY ScriptAssumption
<1>2. i \in 0..Len(Script) /\ k \in 0..Len(Script) /\ k + 1 \in 0..Len(Script) /\ k + 1 \in 1..Len(Script)
  BY <1>1
<1>3. r \in Seq(Deltas) /\ q \in Seq(Deltas) /\ d \in Deltas
  BY <1>2, PartType, ScriptLetters DEF Deltas
<1>4. Len(r) = k - i /\ Len(q) = k + 1 - i
  BY <1>1, <1>2, ScriptAssumption
<1>5. \A j \in 1..(k - i) : r[j] = Script[i + j]
  BY <1>1, <1>2, ScriptAssumption
<1>6. \A j \in 1..(k + 1 - i) : q[j] = Script[i + j]
  BY <1>1, <1>2, ScriptAssumption
<1>0. k \in Nat /\ i \in Nat /\ i <= k
  BY <1>1
<1> HIDE DEF r, q, d
<1>7. q = r \o <<d>>
  <2> DEFINE x == r \o <<d>>
  <2>1. x \in Seq(Deltas) /\ Len(x) = k + 1 - i /\ Len(r) + 1 = k + 1 - i
    BY <1>2, <1>3, <1>4
  <2>2. ASSUME NEW j \in 1..(k + 1 - i) PROVE q[j] = x[j]
    <3>1. CASE j \in 1..(k - i)
      <4>1. q[j] = Script[i + j]
        BY <1>6
      <4>2. r[j] = Script[i + j]
        BY <1>5, <3>1
      <4>3. j \in 1..Len(r)
        BY <1>4, <3>1
      <4>4. x[j] = r[j]
        BY <1>3, <4>3
      <4> HIDE DEF x
      <4> QED
        BY <4>1, <4>2, <4>4
    <3>2. CASE j = k + 1 - i
      <4>1. x[Len(r) + 1] = d
        BY <1>3
      <4>2. i + j = k + 1 /\ j = Len(r) + 1
        BY <1>0, <1>4, <3>2
      <4> QED
        BY <1>6, <4>1, <4>2 DEF d
    <3>3. j \in 1..(k - i) \/ j = k + 1 - i
      BY <1>0
    <3> HIDE DEF x
    <3> QED
      BY <3>1, <3>2, <3>3
  <2> HIDE DEF x
  <2>3. q = x
    BY <1>3, <1>4, <2>1, <2>2
  <2> QED
    BY <2>3 DEF x
<1>8. TextOf(q) = Join(TextOf(r), d)
  BY <1>3, <1>7, TextOfMore
<1> QED
  BY <1>8 DEF Part, r, q, d

-----------------------------------------------------------------------------
(* What an update does to a conversation.                                  *)

LEMMA AppendableType ==
    ASSUME NEW cur \in Seq(Letters), NEW chunk \in Seq(Letters)
    PROVE  Appendable(cur, chunk) \in Seq(Letters)
<1>1. CASE cur = <<>> \/ ~IsPrefix(cur, chunk)
  BY <1>1 DEF Appendable
<1>2. CASE ~(cur = <<>> \/ ~IsPrefix(cur, chunk))
  <2>1. Len(cur) \in Nat /\ Len(chunk) \in Nat
    OBVIOUS
  <2>2. SubSeq(chunk, Len(cur) + 1, Len(chunk)) \in Seq(Letters)
    BY <2>1
  <2> QED
    BY <1>2, <2>2 DEF Appendable
<1> QED
  BY <1>1, <1>2

LEMMA ApplyChunkType ==
    ASSUME NEW m \in Message, NEW type \in {"reasoning", "content"},
           NEW chunk \in Seq(Letters)
    PROVE  /\ ApplyChunk(m, type, chunk) \in Message
           /\ ApplyChunk(m, type, chunk).from = m.from
           /\ ApplyChunk(m, type, chunk).req = m.req
           /\ ApplyChunk(m, type, chunk).src = m.src
<1>1. m.text.reasoning \in Seq(Letters) /\ m.text.content \in Seq(Letters)
  BY DEF Message, Text
<1> DEFINE a == m.text.reasoning \o Appendable(m.text.reasoning, chunk)
           b == m.text.content \o Appendable(m.text.content, chunk)
<1>2. a \in Seq(Letters) /\ b \in Seq(Letters)
  <2>1. Appendable(m.text.reasoning, chunk) \in Seq(Letters)
        /\ Appendable(m.text.content, chunk) \in Seq(Letters)
    BY <1>1, AppendableType
  <2> QED
    BY <1>1, <2>1
<1>3. CASE type = "reasoning"
  <2>1. ApplyChunk(m, type, chunk) = m
        \/ ApplyChunk(m, type, chunk) =
             [m EXCEPT !.text = [m.text EXCEPT !.reasoning = a], !.status = "streaming"]
    BY <1>3 DEF ApplyChunk, Message, Text
  <2> HIDE DEF a
  <2>2. [m.text EXCEPT !.reasoning = a] \in Text
    BY <1>2 DEF Message, Text
  <2> DEFINE y == [m.text EXCEPT !.reasoning = a]
  <2> HIDE DEF y
  <2>3. y \in Text
    BY <2>2 DEF y
  <2>4. CASE ApplyChunk(m, type, chunk) = m
    BY <2>4
  <2>5. CASE ApplyChunk(m, type, chunk) = [m EXCEPT !.text = y, !.status = "streaming"]
    BY <2>3, <2>5 DEF Message
  <2> QED
    BY <2>1, <2>4, <2>5 DEF y
<1>4. CASE type = "content"
  <2>1. ApplyChunk(m, type, chunk) = m
        \/ ApplyChunk(m, type, chunk) =
             [m EXCEPT !.text = [m.text EXCEPT !.content = b], !.status = "streaming"]
    BY <1>4 DEF ApplyChunk, Message, Text
  <2> HIDE DEF b
  <2>2. [m.text EXCEPT !.content = b] \in Text
    BY <1>2 DEF Message, Text
  <2> DEFINE y == [m.text EXCEPT !.content = b]
  <2> HIDE DEF y
  <2>3. y \in Text
    BY <2>2 DEF y
  <2>4. CASE ApplyChunk(m, type, chunk) = m
    BY <2>4
  <2>5. CASE ApplyChunk(m, type, chunk) = [m EXCEPT !.text = y, !.status = "streaming"]
    BY <2>3, <2>5 DEF Message
  <2> QED
    BY <2>1, <2>4, <2>5 DEF y
<1> QED
  BY <1>3, <1>4

Ends == {"complete", "stopped", "answer", "error"}

\* What every kind of update keeps of the last message, and how it leaves it.
LEMMA UpdateLastKeeps ==
    ASSUME NEW g \in Nat, NEW u \in Updates(g), u.op # "set", NEW m \in Message
    PROVE  /\ UpdateLast(u, m) \in Message
           /\ UpdateLast(u, m).from = m.from /\ UpdateLast(u, m).req = m.req
           /\ UpdateLast(u, m).src \subseteq m.src \cup {g}
           /\ u.op \in Ends => ~IsPending(UpdateLast(u, m))
<1>1. CASE u.op = "chunk"
  <2>1. u.text.reasoning \in Seq(Letters) /\ u.text.content \in Seq(Letters) /\ u.src \subseteq {g}
    BY <1>1 DEF Updates, Text
  <2> DEFINE n == ApplyChunk(m, "reasoning", u.text.reasoning)
             k == ApplyChunk(n, "content", u.text.content)
  <2>2. n \in Message /\ n.from = m.from /\ n.req = m.req /\ n.src = m.src
    BY <2>1, ApplyChunkType
  <2> HIDE DEF n
  <2>3. k \in Message /\ k.from = m.from /\ k.req = m.req /\ k.src = m.src
    BY <2>1, <2>2, ApplyChunkType
  <2>4. UpdateLast(u, m) = [k EXCEPT !.src = @ \cup u.src]
    BY <1>1 DEF UpdateLast, n
  <2> HIDE DEF k
  <2> QED
    BY <1>1, <2>1, <2>3, <2>4 DEF Message, Ends
<1>2. CASE u.op = "complete"
  <2>1. UpdateLast(u, m) = IF IsFinal(m) THEN m ELSE Complete(m)
    BY <1>2 DEF UpdateLast
  <2> QED
    BY <2>1 DEF IsFinal, IsPending, Complete, Message
<1>3. CASE u.op = "stopped"
  <2>1. UpdateLast(u, m) = IF IsPending(m) THEN Complete(m) ELSE m
    BY <1>3 DEF UpdateLast
  <2> QED
    BY <2>1 DEF IsPending, Complete, Message
<1>4. CASE u.op = "answer"
  <2>1. u.text \in Text /\ u.gen = g
    BY <1>4 DEF Updates
  <2>2. UpdateLast(u, m) = [Complete(m) EXCEPT !.text = u.text, !.src = @ \cup {u.gen}]
    BY <1>4 DEF UpdateLast
  <2>3. UpdateLast(u, m) = [m EXCEPT !.status = "complete", !.text = u.text, !.src = m.src \cup {g}]
    BY <2>1, <2>2 DEF Complete, Message
  <2>4. m.src \cup {g} \in SUBSET Nat
    BY DEF Message
  <2> QED
    BY <2>1, <2>3, <2>4 DEF IsPending, Message
<1>5. CASE u.op = "error"
  <2>1. u.gen = g
    BY <1>5 DEF Updates
  <2>2. UpdateLast(u, m) = [m EXCEPT !.text.content = <<"error">>, !.status = "error",
                                    !.src = @ \cup {u.gen}]
    BY <1>5 DEF UpdateLast
  <2>3. [m.text EXCEPT !.content = <<"error">>] \in Text
    <3>1. m.text \in Text
      BY DEF Message
    <3>2. <<"error">> \in Seq(Letters)
      <4>1. "error" \in Letters
        BY DEF Letters
      <4> QED
        BY <4>1
    <3> QED
      BY <3>1, <3>2 DEF Text
  <2>4. UpdateLast(u, m) = [m EXCEPT !.text = [m.text EXCEPT !.content = <<"error">>],
                                    !.status = "error", !.src = m.src \cup {g}]
    BY <2>1, <2>2 DEF Message
  <2>5. m.src \cup {g} \in SUBSET Nat
    BY DEF Message
  <2> QED
    BY <2>3, <2>4, <2>5 DEF IsPending, Message
<1>6. u.op \in {"chunk", "complete", "stopped", "answer", "error"}
  BY DEF Updates
<1> QED
  BY <1>1, <1>2, <1>3, <1>4, <1>5, <1>6

LEMMA ReplaceLast ==
    ASSUME NEW M, NEW ms \in Seq(M), ms # <<>>, NEW x \in M
    PROVE  /\ [ms EXCEPT ![Len(ms)] = x] \in Seq(M)
           /\ Len([ms EXCEPT ![Len(ms)] = x]) = Len(ms)
           /\ \A i \in 1..Len(ms) : [ms EXCEPT ![Len(ms)] = x][i] = IF i = Len(ms) THEN x ELSE ms[i]
           /\ Len(ms) \in 1..Len(ms)
<1>1. Len(ms) \in Nat \ {0} /\ ms \in [1..Len(ms) -> M]
  OBVIOUS
<1> QED
  BY <1>1

\* Conversations that are clean, with only the last message pending unless an
\* edit undid an update; and those that await the answer of generation g.
Tidy(l) == {ms \in Seq(Message) : Clean(ms) /\ (~l => Behind(ms))}
Talk(g, l) == {ms \in Tidy(l) : Awaits(ms, g)}

\* The last message of such a conversation is replaced.
LEMMA ReplaceTalk ==
    ASSUME NEW g \in Nat, NEW l \in BOOLEAN, NEW ms \in Talk(g, l), NEW x \in Message,
           x.from = "assistant", x.req = g, x.src \subseteq {g}
    PROVE  /\ [ms EXCEPT ![Len(ms)] = x] \in Talk(g, l)
           /\ ~l /\ ~IsPending(x) => Settled([ms EXCEPT ![Len(ms)] = x])
<1> DEFINE r == [ms EXCEPT ![Len(ms)] = x]
<1>1. ms \in Seq(Message) /\ Clean(ms) /\ (~l => Behind(ms)) /\ ms # <<>>
  BY DEF Talk, Tidy, Awaits
<1>2. Len(ms) \in 1..Len(ms) /\ DOMAIN ms = 1..Len(ms)
  BY <1>1
<1>0. Len(ms) \in Nat /\ Len(ms) >= 1
  BY <1>1
<1>3. /\ r \in Seq(Message) /\ Len(r) = Len(ms)
      /\ \A i \in 1..Len(ms) : r[i] = IF i = Len(ms) THEN x ELSE ms[i]
  BY <1>1, ReplaceLast
<1> HIDE DEF r
<1>4. DOMAIN r = 1..Len(ms) /\ r # <<>> /\ Last(r) = x
  <2>1. DOMAIN r = 1..Len(r)
    BY <1>3
  <2>2. r[Len(ms)] = x
    BY <1>2, <1>3
  <2>3. r # <<>>
    BY <1>0, <1>3
  <2> QED
    BY <1>3, <2>1, <2>2, <2>3 DEF Last
<1>5. Clean(r)
  BY <1>1, <1>2, <1>3, <1>4 DEF Clean
<1>6. ASSUME ~l PROVE Behind(r)
  <2> SUFFICES ASSUME NEW i \in 1..(Len(r) - 1) PROVE ~IsPending(r[i])
    BY DEF Behind
  <2>1. i \in 1..(Len(ms) - 1) /\ i \in 1..Len(ms) /\ i # Len(ms)
    BY <1>0, <1>3
  <2>2. ~IsPending(ms[i]) /\ r[i] = ms[i]
    BY <1>1, <1>3, <1>6, <2>1 DEF Behind
  <2> QED
    BY <2>2
<1>7. Awaits(r, g)
  BY <1>4 DEF Awaits
<1>8. ASSUME ~l, ~IsPending(x) PROVE Settled(r)
  <2> SUFFICES ASSUME NEW i \in 1..Len(ms) PROVE ~IsPending(r[i])
    BY <1>4 DEF Settled
  <2>1. CASE i = Len(ms)
    BY <1>3, <1>8, <2>1
  <2>2. CASE i # Len(ms)
    <3>1. i \in 1..(Len(r) - 1)
      BY <1>0, <1>3, <2>2
    <3> QED
      BY <1>6, <1>8, <3>1 DEF Behind
  <2> QED
    BY <2>1, <2>2
<1>9. r \in Talk(g, l)
  BY <1>3, <1>5, <1>6, <1>7 DEF Talk, Tidy
<1> QED
  BY <1>8, <1>9 DEF r

\* A queued update, run on such a conversation in whatever generation, gives
\* one again; one that ends a generation leaves nothing pending.
LEMMA ApplyTalk ==
    ASSUME NEW g \in Nat, NEW h, NEW l \in BOOLEAN, NEW u \in Updates(g),
           u.op = "set" => u.msgs \in Talk(g, l), NEW ms \in Talk(g, l)
    PROVE  /\ Apply(u, ms, h) \in Talk(g, l)
           /\ ~l /\ u.op \in Ends /\ h = g => Settled(Apply(u, ms, h))
<1>1. CASE u.op = "set"
  <2>1. Apply(u, ms, h) = u.msgs
    BY <1>1 DEF Apply
  <2> QED
    BY <1>1, <2>1 DEF Ends
<1>2. CASE u.op # "set"
  <2>1. u.op \in {"chunk", "complete", "stopped", "answer", "error"} /\ u.gen = g
    BY <1>2 DEF Updates
  <2>2. Apply(u, ms, h) = IF u.gen # h \/ ms = <<>> \/ Last(ms).from # "assistant" THEN ms
                          ELSE [ms EXCEPT ![Len(ms)] = UpdateLast(u, ms[Len(ms)])]
    BY <2>1 DEF Apply
  <2>3. ms \in Seq(Message) /\ Clean(ms) /\ (~l => Behind(ms)) /\ Awaits(ms, g)
    BY DEF Talk, Tidy
  <2>4. ms # <<>> /\ ms[Len(ms)].from = "assistant" /\ ms[Len(ms)].req = g
    BY <2>3 DEF Awaits, Last
  <2>5. CASE h # g
    BY <2>1, <2>2, <2>5
  <2>6. CASE h = g
    <3> DEFINE x == UpdateLast(u, ms[Len(ms)])
               r == [ms EXCEPT ![Len(ms)] = x]
    <3>1. Apply(u, ms, h) = r
      BY <2>1, <2>2, <2>3, <2>4, <2>6 DEF Awaits
    <3>2. Len(ms) \in 1..Len(ms) /\ ms[Len(ms)] \in Message /\ DOMAIN ms = 1..Len(ms)
      BY <2>3, <2>4
    <3>3. /\ x \in Message /\ x.from = "assistant" /\ x.req = g
          /\ x.src \subseteq ms[Len(ms)].src \cup {g}
          /\ u.op \in Ends => ~IsPending(x)
      BY <1>2, <2>4, <3>2, UpdateLastKeeps
    <3>4. ms[Len(ms)].src \subseteq {g}
      BY <2>3, <2>4, <3>2 DEF Clean
    <3>5. x.src \subseteq {g}
      BY <3>3, <3>4
    <3> HIDE DEF x
    <3>6. r \in Talk(g, l) /\ (~l /\ ~IsPending(x) => Settled(r))
      BY <3>3, <3>5, ReplaceTalk
    <3> QED
      BY <3>1, <3>3, <3>6
  <2> QED
    BY <2>5, <2>6
<1> QED
  BY <1>1, <1>2

-----------------------------------------------------------------------------
(* Requests, flags and the buffer.                                         *)

ControlOK == ControlType /\ ControlInv

\* What a step does to requests, flags and buffer when it starts generation
\* gen + 1 with nothing under way, or with one request.
Restart(ws, cs, req) ==
    /\ gen' = gen + 1 /\ cgen' = cgen + 1 /\ source' = NoSource
    /\ open' = {s \in open : s.cg # source.cg}
    /\ waits' = ws /\ calls' = cs
    /\ DiscardPending(gen + 1)
    /\ requesting' = req /\ streaming' = FALSE
    /\ shown' = req

LEMMA RestartControl ==
    ASSUME ControlOK, mounted' \in BOOLEAN, NEW ws, NEW cs, NEW req \in BOOLEAN,
           Restart(ws, cs, req), req => mounted', ~req => queue' = <<>>,
           \/ ws \subseteq waits /\ cs = {}
           \/ ws = waits \cup {[cg |-> cgen + 1, gen |-> gen + 1]} /\ cs = {} /\ req
           \/ ws = waits /\ cs = {gen + 1} /\ req
    PROVE  ControlOK'
<1> USE DEF ControlOK, ControlInv
<1>1. open' = {}
  BY DEF Restart, RequestInv
<1>2. /\ gen' = gen + 1 /\ cgen' = cgen + 1 /\ source' = [cg |-> 0, gen |-> 0] /\ timer' = 0
      /\ pending' = [gen |-> gen + 1, text |-> NoText, src |-> {}] /\ waits' = ws /\ calls' = cs
      /\ requesting' = req /\ streaming' = FALSE /\ shown' = req
  BY DEF Restart, DiscardPending, NoSource
<1>3. NoText \in Text
  BY DEF NoText, Text
<1>4. ControlType'
  <2>1. ws \subseteq [cg : Nat, gen : Nat] /\ cs \subseteq Nat
    BY DEF ControlType
  <2>2. pending' \in [gen : Nat, text : Text, src : SUBSET Nat]
    <3>1. gen + 1 \in Nat /\ {} \in SUBSET Nat
      BY DEF ControlType
    <3> HIDE DEF ControlOK
    <3> QED
      BY <1>2, <1>3, <3>1
  <2>3. gen' \in Nat /\ cgen' \in Nat /\ source' \in [cg : Nat, gen : Nat] /\ timer' \in Nat
    BY <1>2 DEF ControlType
  <2> QED
    BY <1>1, <1>2, <2>1, <2>2, <2>3 DEF ControlType
<1>5. \A w \in ws : w.cg <= cgen + 1 /\ (w.cg = cgen + 1 => w.gen = gen + 1 /\ cs = {} /\ req)
  BY DEF RequestInv, ControlType
<1>6. RequestInv'
  BY <1>1, <1>2, <1>5 DEF RequestInv, Live, ControlType
<1>7. BufferIsArmed'
  BY <1>2 DEF BufferIsArmed
<1>8. FlagInv'
  BY <1>1, <1>2, <1>5 DEF FlagInv, Live
<1> QED
  BY <1>4, <1>6, <1>7, <1>8

LEMMA SendChatControl ==
    ASSUME ControlOK, NEW ms, SendChat(ms), mounted, mounted' = mounted
    PROVE  ControlOK'
<1>1. \/ Restart(waits \cup {[cg |-> cgen + 1, gen |-> gen + 1]}, {}, TRUE)
      \/ Restart(waits, {gen + 1}, TRUE)
  BY DEF SendChat, Restart, CancelSource, Commit
<1> QED
  BY <1>1, RestartControl

LEMMA StopControl ==
    ASSUME ControlOK, StopGeneration
    PROVE  ControlOK'
<1>1. Restart(waits, {}, FALSE) /\ queue' = <<>> /\ mounted' \in BOOLEAN
  BY DEF StopGeneration, Restart, CancelSource, Commit, uiVars, ControlOK, ControlType
<1> QED
  BY <1>1, RestartControl

LEMMA LeaveControl ==
    ASSUME ControlOK, Leave
    PROVE  ControlOK'
<1>1. Restart({}, {}, FALSE) /\ queue' = <<>> /\ mounted' \in BOOLEAN
  BY DEF Leave, Restart, CancelSource
<1> QED
  BY <1>1, RestartControl

\* A step that leaves requests and buffer alone.
LEMMA QuietControl ==
    ASSUME ControlOK, UNCHANGED <<ctlVars, chatVars, requesting, streaming>>,
           mounted' \in BOOLEAN, mounted => mounted',
           \/ UNCHANGED <<shown, queue>>
           \/ shown' = (requesting \/ streaming) /\ queue' = <<>> /\ mounted
    PROVE  ControlOK'
<1> USE DEF ControlOK, ControlInv, ctlVars, chatVars
<1>1. ControlType'
  BY DEF ControlType
<1>2. RequestInv' /\ BufferIsArmed'
  BY DEF RequestInv, Live, BufferIsArmed
<1>3. FlagInv'
  BY DEF FlagInv, Live
<1> QED
  BY <1>1, <1>2, <1>3

\* A source or a plain request ends, with a flush and flags that go out.
LEMMA EndControl ==
    ASSUME ControlOK, UNCHANGED <<gen, cgen, shown, mounted>>, waits' \subseteq waits,
           open' = {}, calls' = {}, waits' \cap Live = {},
           source' \in {source, NoSource}, FlushState(gen),
           requesting' = FALSE, streaming' = FALSE, shown
    PROVE  ControlOK'
<1> USE DEF ControlOK, ControlInv
<1>1. timer' = 0 /\ pending' \in [gen : Nat, text : {NoText}, src : SUBSET Nat]
  BY DEF FlushState, ControlType, BufferIsArmed
<1>2. NoText \in Text
  BY DEF NoText, Text
<1>3. ControlType'
  <2>1. pending' \in [gen : Nat, text : Text, src : SUBSET Nat]
    BY <1>1, <1>2
  <2>2. NoSource \in [cg : Nat, gen : Nat]
    BY DEF NoSource
  <2> QED
    BY <1>1, <2>1, <2>2 DEF ControlType
<1>4. RequestInv' /\ BufferIsArmed'
  BY <1>1 DEF RequestInv, Live, BufferIsArmed
<1>5. FlagInv'
  BY <1>1 DEF FlagInv, Live
<1> QED
  BY <1>3, <1>4, <1>5

LEMMA HeadersReadyControl ==
    ASSUME ControlOK, NEW w \in waits, HeadersReady(w)
    PROVE  ControlOK'
<1> USE DEF ControlOK, ControlInv
<1>1. w \in [cg : Nat, gen : Nat] /\ Len(Script) \in Nat
  BY ScriptAssumption DEF ControlType
<1>2. /\ UNCHANGED <<gen, cgen, calls, pending, timer, requesting, shown, queue, mounted>>
      /\ waits' = waits \ {w}
  BY DEF HeadersReady, chatVars, msgVars, uiVars
<1>3. CASE w.cg # cgen
  <2>1. UNCHANGED <<source, open, streaming>>
    BY <1>3 DEF HeadersReady
  <2>2. ControlType'
    BY <1>2, <2>1 DEF ControlType
  <2>3. Live' \subseteq Live
    BY <1>2 DEF Live
  <2>4. RequestInv' /\ BufferIsArmed'
    BY <1>2, <2>1, <2>3 DEF RequestInv, BufferIsArmed
  <2>5. FlagInv'
    BY <1>2, <2>1, <2>3 DEF FlagInv
  <2> QED
    BY <2>2, <2>4, <2>5
<1>4. CASE w.cg = cgen
  <2> DEFINE s == [cg |-> w.cg, gen |-> w.gen, pos |-> 0]
  <2>1. source' = w /\ open' = open \cup {s} /\ streaming' = TRUE
    BY <1>4 DEF HeadersReady
  <2>2. w \in Live /\ w.gen = gen /\ open = {} /\ calls = {}
    BY <1>4 DEF Live, RequestInv
  <2>3. s \in [cg : Nat, gen : Nat, pos : 0..Len(Script)] /\ s.cg = cgen /\ s.gen = gen
    BY <1>1, <1>4, <2>2
  <2> HIDE DEF s
  <2>4. open' = {s}
    BY <2>1, <2>2
  <2>5. w = [cg |-> cgen, gen |-> gen]
    BY <1>1, <1>4, <2>2
  <2>6. Live' = {}
    <3>1. ASSUME NEW v \in waits, v.cg = cgen PROVE v = w
      <4>1. v \in [cg : Nat, gen : Nat] /\ v.gen = gen
        BY <3>1 DEF ControlType, RequestInv
      <4> QED
        BY <2>5, <3>1, <4>1
    <3> QED
      BY <1>2, <3>1 DEF Live
  <2>7. ControlType'
    BY <1>1, <1>2, <2>1, <2>3, <2>4 DEF ControlType
  <2>8. RequestInv' /\ BufferIsArmed'
    BY <1>2, <2>1, <2>2, <2>3, <2>4, <2>5, <2>6 DEF RequestInv, BufferIsArmed
  <2>9. FlagInv'
    BY <1>2, <2>1, <2>2, <2>6 DEF FlagInv
  <2> QED
    BY <2>7, <2>8, <2>9
<1> QED
  BY <1>3, <1>4

LEMMA HeadersFailControl ==
    ASSUME ControlOK, NEW w \in waits, HeadersFail(w)
    PROVE  ControlOK'
<1> USE DEF ControlOK, ControlInv
<1>1. /\ UNCHANGED <<gen, cgen, source, open, calls, streaming, shown, mounted>>
      /\ waits' = waits \ {w}
  BY DEF HeadersFail, uiVars
<1>2. CASE w.cg # cgen
  <2>1. UNCHANGED <<pending, timer, requesting, queue>>
    BY <1>2 DEF HeadersFail
  <2>2. Live' \subseteq Live
    BY <1>1 DEF Live
  <2>3. ControlType'
    BY <1>1, <2>1 DEF ControlType
  <2>4. RequestInv' /\ BufferIsArmed'
    BY <1>1, <2>1, <2>2 DEF RequestInv, BufferIsArmed
  <2>5. FlagInv'
    BY <1>1, <2>1, <2>2 DEF FlagInv
  <2> QED
    BY <2>3, <2>4, <2>5
<1>3. CASE w.cg = cgen
  <2>1. w \in Live /\ w.gen = gen /\ open = {} /\ calls = {}
    BY <1>3 DEF Live, RequestInv
  <2>2. FlushState(gen) /\ requesting' = FALSE
    BY <1>3, <2>1 DEF HeadersFail, FailGeneration
  <2>3. ~streaming /\ shown
    BY <2>1 DEF FlagInv
  <2>4. waits' \cap Live = {}
    <3>1. ASSUME NEW v \in waits, v.cg = cgen PROVE v = w
      <4>1. v \in [cg : Nat, gen : Nat] /\ v.gen = gen
        BY <3>1 DEF ControlType, RequestInv
      <4>2. w \in [cg : Nat, gen : Nat]
        BY DEF ControlType
      <4> QED
        BY <1>3, <2>1, <3>1, <4>1, <4>2
    <3> QED
      BY <1>1, <3>1 DEF Live
  <2>5. waits' \subseteq waits /\ open' = {} /\ calls' = {} /\ source' \in {source, NoSource}
    BY <1>1, <2>1
  <2>6. streaming' = FALSE
    BY <1>1, <2>3 DEF ControlType
  <2> QED
    BY <1>1, <2>2, <2>3, <2>4, <2>5, <2>6, EndControl
<1> QED
  BY <1>2, <1>3

\* The only open source is the controller's.
LEMMA OpenSource ==
    ASSUME ControlOK, NEW s \in open
    PROVE  /\ IsCurrent(s) /\ s.gen = gen /\ open = {s} /\ calls = {} /\ Live = {}
           /\ streaming /\ shown
<1> USE DEF ControlOK, ControlInv
<1>1. s.cg = cgen /\ s.gen = gen /\ source = [cg |-> cgen, gen |-> gen] /\ open = {s}
  BY DEF RequestInv
<1>2. calls = {} /\ Live = {} /\ streaming /\ shown
  BY DEF RequestInv, FlagInv
<1> QED
  BY <1>1, <1>2 DEF IsCurrent

LEMMA SourceEndControl ==
    ASSUME ControlOK, NEW s \in open, SourceDone(s) \/ SourceError(s)
    PROVE  ControlOK'
<1>1. IsCurrent(s) /\ s.gen = gen /\ open = {s} /\ calls = {} /\ Live = {} /\ shown
  BY OpenSource
<1>2. UNCHANGED <<gen, cgen, shown, mounted>> /\ waits' = waits /\ calls' = calls
  BY DEF SourceDone, SourceError, uiVars
<1>3. open' = {} /\ source' \in {source, NoSource} /\ streaming' = FALSE
  BY <1>1 DEF SourceDone, SourceError, CloseActive
<1>4. FlushState(gen) /\ requesting' = FALSE
  BY <1>1 DEF SourceDone, SourceError, FailGeneration
<1> QED
  BY <1>1, <1>2, <1>3, <1>4, EndControl

LEMMA CallEndControl ==
    ASSUME ControlOK, NEW g \in calls, ChatCompletion(g) \/ ChatCompletionFails(g)
    PROVE  ControlOK'
<1> USE DEF ControlOK, ControlInv
<1>1. g = gen /\ open = {} /\ Live = {} /\ requesting /\ ~streaming /\ shown
  BY DEF RequestInv, FlagInv
<1>2. UNCHANGED <<gen, cgen, shown, mounted, waits, open, source>> /\ calls' = {}
  BY DEF ChatCompletion, ChatCompletionFails, uiVars, ctlVars
<1>3. streaming' = FALSE /\ requesting' = FALSE
  <2>1. streaming' = streaming
    BY DEF ChatCompletion, ChatCompletionFails
  <2> QED
    BY <1>1, <2>1 DEF ChatCompletion, ChatCompletionFails, FailGeneration, ControlType
<1>4. CASE ChatCompletionFails(g)
  <2>1. FlushState(gen)
    BY <1>1, <1>4 DEF ChatCompletionFails, FailGeneration
  <2> QED
    BY <1>1, <1>2, <1>3, <2>1, EndControl
<1>5. CASE ChatCompletion(g)
  <2>1. UNCHANGED <<pending, timer>> /\ pending.text = NoText
    BY <1>1, <1>5 DEF ChatCompletion, FlagInv
  <2>2. ControlType'
    BY <1>2, <1>3, <2>1 DEF ControlType
  <2>3. RequestInv' /\ BufferIsArmed'
    BY <1>1, <1>2, <2>1 DEF RequestInv, BufferIsArmed, Live
  <2>4. FlagInv'
    BY <1>1, <1>2, <1>3, <2>1 DEF FlagInv, Live
  <2> QED
    BY <2>2, <2>3, <2>4
<1> QED
  BY <1>4, <1>5

LEMMA SourceCutControl ==
    ASSUME ControlOK, NEW s \in open, SourceCut(s)
    PROVE  ControlOK'
<1> USE DEF ControlOK, ControlInv
<1>1. /\ UNCHANGED <<gen, cgen, waits, source, calls, pending, timer, requesting, streaming, shown,
                     queue, mounted>>
      /\ open' = open \ {s}
  BY DEF SourceCut, chatVars, flagVars, msgVars, uiVars
<1>2. ControlType'
  BY <1>1 DEF ControlType
<1>3. RequestInv' /\ BufferIsArmed'
  BY <1>1 DEF RequestInv, BufferIsArmed, Live
<1>4. FlagInv'
  BY <1>1 DEF FlagInv, Live
<1> QED
  BY <1>2, <1>3, <1>4

LEMMA SourceDeltaControl ==
    ASSUME ControlOK, NEW s \in open, SourceDelta(s)
    PROVE  /\ ControlOK'
           /\ pending.src \subseteq {pending.gen} => pending'.src \subseteq {pending'.gen}
           /\ recv \in Text => recv' \in Text
<1> USE DEF ControlOK, ControlInv
<1>1. IsCurrent(s) /\ s.gen = gen /\ open = {s} /\ calls = {} /\ Live = {} /\ streaming /\ shown
  BY OpenSource
<1> DEFINE d == Script[s.pos + 1]
           t == [s EXCEPT !.pos = @ + 1]
<1>2. /\ UNCHANGED <<gen, cgen, waits, source, calls, requesting, streaming, shown, queue, mounted>>
      /\ open' = {t} /\ s.pos < Len(Script)
  BY <1>1 DEF SourceDelta, flagVars, msgVars, uiVars
<1>3. s \in [cg : Nat, gen : Nat, pos : 0..Len(Script)] /\ Len(Script) \in Nat
  BY ScriptAssumption DEF ControlType
<1>4. t \in [cg : Nat, gen : Nat, pos : 0..Len(Script)] /\ t.cg = s.cg /\ t.gen = s.gen
  BY <1>2, <1>3
<1>5. d \in [type : {"reasoning", "content"}, text : Seq(Letters)]
  <2>1. s.pos + 1 \in 1..Len(Script)
    BY <1>2, <1>3
  <2> QED
    BY <2>1, ScriptLetters
<1> DEFINE p == [pending EXCEPT !.text[d.type] = MergePending(@, d.text), !.src = @ \cup {s.gen}]
           q == [recv EXCEPT ![d.type] = @ \o d.text]
<1>6. \/ UNCHANGED <<pending, timer, recv>>
      \/ /\ pending.gen = gen /\ pending' = p /\ timer' = (IF timer = 0 THEN s.gen ELSE timer)
         /\ recv' = q
  BY <1>1 DEF SourceDelta
<1> HIDE DEF d, t
<1>7. ASSUME NEW x \in Text PROVE [x EXCEPT ![d.type] = MergePending(@, d.text)] \in Text
                               /\ [x EXCEPT ![d.type] = @ \o d.text] \in Text
  <2>1. x.reasoning \in Seq(Letters) /\ x.content \in Seq(Letters) /\ d.text \in Seq(Letters)
    BY <1>5 DEF Text
  <2>2. /\ MergePending(x.reasoning, d.text) \in Seq(Letters) /\ x.reasoning \o d.text \in Seq(Letters)
        /\ MergePending(x.content, d.text) \in Seq(Letters) /\ x.content \o d.text \in Seq(Letters)
    BY <2>1 DEF MergePending
  <2>3. CASE d.type = "reasoning"
    BY <2>2, <2>3 DEF Text
  <2>4. CASE d.type = "content"
    BY <2>2, <2>4 DEF Text
  <2> QED
    BY <1>5, <2>3, <2>4
<1>8. pending \in [gen : Nat, text : Text, src : SUBSET Nat] /\ s.gen \in Nat
  BY <1>3 DEF ControlType
<1>9. p \in [gen : Nat, text : Text, src : SUBSET Nat] /\ p.gen = pending.gen
      /\ p.src = pending.src \cup {s.gen}
  <2>1. p = [pending EXCEPT !.text = [pending.text EXCEPT ![d.type] = MergePending(@, d.text)],
                            !.src = pending.src \cup {s.gen}]
    OBVIOUS
  <2>2. [pending.text EXCEPT ![d.type] = MergePending(@, d.text)] \in Text
    BY <1>7, <1>8
  <2> HIDE DEF p
  <2> QED
    BY <1>8, <2>1, <2>2
<1> HIDE DEF p
<1>10. timer' \in Nat /\ (timer' = 0 \/ timer' = gen) /\ (pending' = p => timer' = gen \/ pending' = pending)
  BY <1>1, <1>6, <1>8 DEF BufferIsArmed, ControlType
<1>11. ControlType'
  BY <1>2, <1>4, <1>6, <1>9, <1>10 DEF ControlType
<1>12. RequestInv'
  BY <1>1, <1>2, <1>4 DEF RequestInv, Live
<1>13. BufferIsArmed'
  BY <1>1, <1>2, <1>6, <1>9, <1>10 DEF BufferIsArmed
<1>14. FlagInv'
  BY <1>1, <1>2 DEF FlagInv, Live
<1>15. pending.src \subseteq {pending.gen} => pending'.src \subseteq {pending'.gen}
  BY <1>1, <1>6, <1>9
<1>16. recv \in Text => recv' \in Text
  BY <1>6, <1>7
<1> QED
  BY <1>11, <1>12, <1>13, <1>14, <1>15, <1>16

LEMMA FlushTimerControl ==
    ASSUME ControlOK, FlushTimer
    PROVE  ControlOK'
<1> USE DEF ControlOK, ControlInv
<1>1. /\ UNCHANGED <<gen, cgen, waits, source, open, calls, requesting, streaming, shown, mounted>>
      /\ timer = gen /\ FlushState(gen)
  BY DEF FlushTimer, ctlVars, flagVars, uiVars, BufferIsArmed
<1>2. timer' = 0 /\ pending' \in [gen : Nat, text : {NoText}, src : SUBSET Nat]
  BY <1>1 DEF FlushState, ControlType, BufferIsArmed
<1>3. NoText \in Text
  BY DEF NoText, Text
<1>4. pending' \in [gen : Nat, text : Text, src : SUBSET Nat]
  BY <1>2, <1>3
<1>5. ControlType'
  BY <1>1, <1>2, <1>4 DEF ControlType
<1>6. RequestInv' /\ BufferIsArmed'
  BY <1>1, <1>2 DEF RequestInv, BufferIsArmed, Live
<1>7. ~shown => queue' = <<>>
  <2> SUFFICES ASSUME ~shown PROVE queue' = queue
    BY DEF FlagInv
  <2>1. pending.text = NoText
    BY DEF FlagInv
  <2>2. Flushed(timer) = <<>>
    BY <2>1 DEF Flushed
  <2> QED
    BY <2>2 DEF FlushTimer
<1>8. FlagInv'
  BY <1>1, <1>2, <1>7 DEF FlagInv, Live
<1> QED
  BY <1>5, <1>6, <1>8

-----------------------------------------------------------------------------
(* The queue.                                                              *)

ChatOK == TypeOK /\ ChatInv

LEMMA ApplyType ==
    ASSUME NEW g \in Nat, NEW h, NEW u \in Updates(g), NEW ms \in Seq(Message)
    PROVE  Apply(u, ms, h) \in Seq(Message)
<1>1. CASE u.op = "set"
  BY <1>1 DEF Apply, Updates
<1>2. CASE u.op # "set"
  <2>1. u.op \in {"chunk", "complete", "stopped", "answer", "error"}
    BY <1>2 DEF Updates
  <2>2. Apply(u, ms, h) = IF u.gen # h \/ ms = <<>> \/ Last(ms).from # "assistant" THEN ms
                          ELSE [ms EXCEPT ![Len(ms)] = UpdateLast(u, ms[Len(ms)])]
    BY <2>1 DEF Apply
  <2>3. CASE ms = <<>>
    BY <2>2, <2>3
  <2>4. CASE ms # <<>>
    <3>1. ms[Len(ms)] \in Message
      BY <2>4
    <3>2. UpdateLast(u, ms[Len(ms)]) \in Message
      BY <1>2, <3>1, UpdateLastKeeps
    <3>3. [ms EXCEPT ![Len(ms)] = UpdateLast(u, ms[Len(ms)])] \in Seq(Message)
      BY <2>4, <3>2, ReplaceLast
    <3> QED
      BY <2>2, <3>3
  <2> QED
    BY <2>3, <2>4
<1> QED
  BY <1>1, <1>2

LEMMA KeepType ==
    ASSUME NEW g \in Nat, NEW us \in Seq(Updates(g)), NEW h
    PROVE  Keep(us, h, Seq(Message))
<1> SUFFICES ASSUME NEW i \in 1..Len(us), NEW x \in Seq(Message)
             PROVE  Apply(us[i], x, h) \in Seq(Message)
  BY DEF Keep
<1>1. us[i] \in Updates(g)
  BY ElementType
<1> QED
  BY <1>1, ApplyType

\* One update that is run alone.
LEMMA RunOne ==
    ASSUME NEW u, NEW ms \in Seq(Message), NEW g,
           \A x \in Seq(Message) : Apply(u, x, g) \in Seq(Message)
    PROVE  RunUpdates(<<u>>, ms, g) = Apply(u, ms, g)
<1> DEFINE e == <<>>
<1>1. e \in Seq({u}) /\ u \in {u} /\ e \o <<u>> = <<u>>
  OBVIOUS
<1>2. Keep(e, g, Seq(Message)) /\ RunUpdates(e, ms, g) = ms
  BY RunNone DEF Keep
<1> HIDE DEF e
<1>3. RunUpdates(e \o <<u>>, ms, g) = Apply(u, RunUpdates(e, ms, g), g)
  BY <1>1, <1>2, RunLast
<1> QED
  BY <1>1, <1>2, <1>3

\* One more update.
LEMMA RunMore ==
    ASSUME NEW g \in Nat, NEW us \in Seq(Updates(g)), NEW h, NEW k \in Nat,
           NEW u \in Updates(k), NEW ms \in Seq(Message)
    PROVE  /\ RunUpdates(us, ms, h) \in Seq(Message)
           /\ RunUpdates(us \o <<u>>, ms, h) = Apply(u, RunUpdates(us, ms, h), h)
<1> DEFINE U == Updates(g) \cup Updates(k)
<1>1. Keep(us, h, Seq(Message))
  BY KeepType
<1>2. \A x \in Seq(Message) : Apply(u, x, h) \in Seq(Message)
  BY ApplyType
<1>3. us \in Seq(U) /\ u \in U
  <2>1. Updates(g) \subseteq U /\ u \in U
    OBVIOUS
  <2> HIDE DEF U
  <2> QED
    BY <2>1
<1> HIDE DEF U
<1>4. RunUpdates(us, ms, h) \in Seq(Message)
  BY <1>1, RunKeeps
<1>5. RunUpdates(us \o <<u>>, ms, h) = Apply(u, RunUpdates(us, ms, h), h)
  BY <1>1, <1>2, <1>3, RunLast
<1> QED
  BY <1>4, <1>5

LEMMA AppendTwo ==
    ASSUME NEW S, NEW us \in Seq(S), NEW a \in S, NEW b \in S
    PROVE  us \o <<a, b>> = (us \o <<a>>) \o <<b>>
<1> DEFINE p == us \o <<a, b>>
           q == (us \o <<a>>) \o <<b>>
<1>1. /\ p \in Seq(S) /\ q \in Seq(S) /\ Len(p) = Len(us) + 2 /\ Len(q) = Len(us) + 2
      /\ us \o <<a>> \in Seq(S) /\ Len(us) \in Nat
  OBVIOUS
<1>2. ASSUME NEW i \in 1..(Len(us) + 2) PROVE p[i] = q[i]
  <2>1. CASE i \in 1..Len(us)
    BY <2>1
  <2>2. CASE i = Len(us) + 1
    BY <2>2
  <2>3. CASE i = Len(us) + 2
    BY <2>3
  <2> QED
    BY <1>1, <2>1, <2>2, <2>3
<1> HIDE DEF p, q
<1>3. p = q
  BY <1>1, <1>2
<1> QED
  BY <1>3 DEF p, q

\* Two more updates.
LEMMA RunTwoMore ==
    ASSUME NEW g \in Nat, NEW us \in Seq(Updates(g)), NEW h, NEW k \in Nat,
           NEW a \in Updates(g), NEW b \in Updates(k), NEW ms \in Seq(Message)
    PROVE  RunUpdates(us \o <<a, b>>, ms, h) = Apply(b, Apply(a, RunUpdates(us, ms, h), h), h)
<1> DEFINE U == Updates(g) \cup Updates(k)
<1>1. us \in Seq(U) /\ a \in U /\ b \in U
  <2>1. Updates(g) \subseteq U /\ a \in U /\ b \in U
    OBVIOUS
  <2> HIDE DEF U
  <2> QED
    BY <2>1
<1> HIDE DEF U
<1>2. us \o <<a, b>> = (us \o <<a>>) \o <<b>>
  BY <1>1, AppendTwo
<1>3. us \o <<a>> \in Seq(Updates(g))
  OBVIOUS
<1>4. RunUpdates((us \o <<a>>) \o <<b>>, ms, h) = Apply(b, RunUpdates(us \o <<a>>, ms, h), h)
  BY <1>3, RunMore
<1>5. RunUpdates(us \o <<a>>, ms, h) = Apply(a, RunUpdates(us, ms, h), h)
  BY RunMore
<1> QED
  BY <1>2, <1>4, <1>5

LEMMA TailOfTwo ==
    ASSUME NEW S, NEW x \in S, NEW a \in S, NEW b \in S
    PROVE  <<x>> \o Tail(<<a, b>>) = <<x, b>> /\ <<x>> \o <<b>> = <<x, b>>
<1>1. Tail(<<a, b>>) = <<b>>
  OBVIOUS
<1>2. <<x>> \o <<b>> = <<x, b>>
  <2> DEFINE p == <<x>> \o <<b>>
             q == <<x, b>>
  <2>1. p \in Seq(S) /\ q \in Seq(S) /\ Len(p) = 2 /\ Len(q) = 2
    OBVIOUS
  <2>2. p[1] = q[1] /\ p[2] = q[2]
    OBVIOUS
  <2>3. \A i \in 1..2 : i = 1 \/ i = 2
    OBVIOUS
  <2> HIDE DEF p, q
  <2>4. p = q
    BY <2>1, <2>2, <2>3
  <2> QED
    BY <2>4 DEF p, q
<1> QED
  BY <1>1, <1>2

LEMMA SetIs ==
    ASSUME NEW ms \in Seq(Message), NEW x, NEW g, NEW h \in Nat
    PROVE  Set(ms) \in Updates(h) /\ Set(ms).op = "set" /\ Set(ms).msgs = ms /\ Apply(Set(ms), x, g) = ms
  BY DEF Set, Updates, Apply

\* While an answer is awaited, every queued update keeps the conversation one
\* that awaits it.
LEMMA QueueKeeps ==
    ASSUME ChatOK, shown, NEW h
    PROVE  /\ messages \in Talk(gen, lost) /\ Keep(queue, h, Talk(gen, lost))
           /\ RunUpdates(queue, messages, h) \in Talk(gen, lost)
<1> USE DEF ChatOK, ChatInv
<1>1. gen \in Nat /\ lost \in BOOLEAN /\ messages \in Seq(Message) /\ queue \in Seq(Updates(gen))
  BY DEF TypeOK, ControlType, QueueInv
<1>2. messages \in Talk(gen, lost)
  BY <1>1 DEF ConversationInv, Talk, Tidy
<1>3. ASSUME NEW i \in 1..Len(queue), NEW x \in Talk(gen, lost)
      PROVE  Apply(queue[i], x, h) \in Talk(gen, lost)
  <2>1. queue[i] \in Updates(gen) /\ i \in DOMAIN queue
    BY <1>1, ElementType
  <2>2. queue[i].op = "set" => queue[i].msgs \in Talk(gen, lost)
    <3> SUFFICES ASSUME queue[i].op = "set" PROVE queue[i].msgs \in Talk(gen, lost)
      OBVIOUS
    <3>1. queue[i].msgs \in Seq(Message)
      BY <2>1 DEF Updates
    <3> QED
      BY <2>1, <3>1 DEF QueueInv, Talk, Tidy
  <2> QED
    BY <1>1, <2>1, <2>2, ApplyTalk
<1>4. Keep(queue, h, Talk(gen, lost))
  BY <1>3 DEF Keep
<1> QED
  BY <1>1, <1>2, <1>4, RunKeeps

LEMMA NothingQueued ==
    ASSUME ChatOK, queue = <<>>
    PROVE  View = messages
  BY RunNone DEF View

\* What a turn that is no user event does to queue and messages.
Queued(u) ==
    /\ QueueInv' /\ UNCHANGED <<messages, storage>>
    /\ latest' \in Tidy(lost) /\ saveTimer' \in BOOLEAN
    /\ \E x \in Talk(gen, lost) : View' = Apply(u, x, gen)

\* The queue grows by updates of the current generation, or starts with the
\* result of the first.
LEMMA EnqueueKeeps ==
    ASSUME ChatOK, shown, gen' = gen, lost' = lost,
           NEW us \in Seq(Updates(gen)), NEW u \in Updates(gen), u.op # "set",
           us = <<u>> \/ \E v \in Updates(gen) : v.op # "set" /\ us = <<v, u>>,
           Enqueue(us)
    PROVE  Queued(u)
<1> USE DEF ChatOK, ChatInv
<1>1. gen \in Nat /\ lost \in BOOLEAN /\ messages \in Seq(Message) /\ queue \in Seq(Updates(gen))
  BY DEF TypeOK, ControlType, QueueInv
<1>2. messages \in Talk(gen, lost) /\ View \in Talk(gen, lost)
  BY QueueKeeps DEF View
<1>3. latest \in Tidy(lost) /\ saveTimer \in BOOLEAN
  BY DEF TypeOK, ConversationInv, Tidy
<1>4. ASSUME NEW v \in Updates(gen), v.op # "set", NEW x \in Talk(gen, lost)
      PROVE  Apply(v, x, gen) \in Talk(gen, lost)
  BY <1>1, <1>4, ApplyTalk
<1>5. CASE queue' = queue \o us /\ UNCHANGED <<messages, latest, saveTimer, storage>>
  <2>1. \A i \in 1..Len(us) : us[i].op # "set"
    OBVIOUS
  <2>2. QueueInv'
    <3>1. queue' \in Seq(Updates(gen))
      BY <1>1, <1>5
    <3>2. ASSUME NEW i \in DOMAIN queue', queue'[i].op = "set"
          PROVE  i \in DOMAIN queue /\ queue'[i] = queue[i]
      <4>1. i \in 1..(Len(queue) + Len(us)) /\ Len(queue) \in Nat /\ Len(us) \in Nat
        BY <1>1, <1>5
      <4>2. CASE i \in 1..Len(queue)
        BY <1>1, <1>5, <4>2
      <4>3. CASE i \notin 1..Len(queue)
        <5>1. i - Len(queue) \in 1..Len(us) /\ queue'[i] = us[i - Len(queue)]
          BY <1>1, <1>5, <4>1, <4>3
        <5> QED
          BY <2>1, <3>2, <5>1
      <4> QED
        BY <4>2, <4>3
    <3> QED
      BY <3>1, <3>2 DEF QueueInv
  <2>3. \E x \in Talk(gen, lost) : View' = Apply(u, x, gen)
    <3>1. CASE us = <<u>>
      <4>1. View' = RunUpdates(queue \o <<u>>, messages, gen)
        BY <1>5, <3>1 DEF View
      <4>2. View' = Apply(u, View, gen)
        BY <1>1, <4>1, RunMore DEF View
      <4> QED
        BY <1>2, <4>2
    <3>2. ASSUME NEW v \in Updates(gen), v.op # "set", us = <<v, u>>
          PROVE  \E x \in Talk(gen, lost) : View' = Apply(u, x, gen)
      <4>1. View' = RunUpdates(queue \o <<v, u>>, messages, gen)
        BY <1>5, <3>2 DEF View
      <4>2. View' = Apply(u, Apply(v, View, gen), gen)
        BY <1>1, <4>1, RunTwoMore DEF View
      <4> QED
        BY <1>2, <1>4, <3>2, <4>2
    <3> QED
      BY <3>1, <3>2
  <2> QED
    BY <1>3, <1>5, <2>2, <2>3 DEF Queued
<1> DEFINE ms == Apply(Head(us), messages, gen)
<1>6. CASE /\ queue = <<>> /\ queue' = <<Set(ms)>> \o Tail(us) /\ latest' = ms
           /\ saveTimer' = TRUE /\ UNCHANGED <<messages, storage>>
  <2>1. Head(us) \in Updates(gen) /\ Head(us).op # "set"
    OBVIOUS
  <2>2. ms \in Talk(gen, lost)
    BY <1>2, <1>4, <2>1
  <2> HIDE DEF ms
  <2>3. ms \in Seq(Message) /\ ms \in Tidy(lost)
    BY <2>2 DEF Talk, Tidy
  <2>4. /\ Set(ms) \in Updates(gen) /\ Set(ms).msgs = ms /\ Set(ms).op = "set"
        /\ \A x : Apply(Set(ms), x, gen) = ms
    BY <1>1, <2>3, SetIs
  <2>5. ASSUME NEW i \in DOMAIN queue', queue'[i].op = "set" PROVE queue'[i] = Set(ms)
    <3>1. CASE us = <<u>>
      BY <1>6, <2>5, <3>1
    <3>2. ASSUME NEW v \in Updates(gen), us = <<v, u>> PROVE queue'[i] = Set(ms)
      <4>1. queue' = <<Set(ms), u>>
        BY <1>6, <2>4, <3>2, TailOfTwo
      <4> QED
        BY <2>5, <4>1
    <3> QED
      BY <3>1, <3>2
  <2>6. QueueInv'
    <3>1. queue' \in Seq(Updates(gen))
      BY <1>6, <2>4
    <3>2. Clean(ms) /\ Awaits(ms, gen) /\ (~lost => Behind(ms))
      BY <2>2 DEF Talk, Tidy
    <3> QED
      BY <2>4, <2>5, <3>1, <3>2 DEF QueueInv
  <2>7. RunUpdates(<<Set(ms)>>, messages, gen) = ms
    BY <1>1, <2>3, <2>4, RunOne
  <2>8. \E x \in Talk(gen, lost) : View' = Apply(u, x, gen)
    <3>1. CASE us = <<u>>
      <4>1. queue' = <<Set(ms)>>
        BY <1>6, <3>1
      <4>2. View' = ms /\ ms = Apply(u, messages, gen)
        BY <1>6, <2>7, <3>1, <4>1 DEF View, ms
      <4> QED
        BY <1>2, <4>2
    <3>2. ASSUME NEW v \in Updates(gen), us = <<v, u>>
          PROVE  \E x \in Talk(gen, lost) : View' = Apply(u, x, gen)
      <4>1. queue' = <<Set(ms)>> \o <<u>> /\ <<Set(ms)>> \in Seq(Updates(gen))
        BY <1>6, <2>4, <3>2
      <4>2. View' = RunUpdates(<<Set(ms)>> \o <<u>>, messages, gen)
        BY <1>6, <4>1 DEF View
      <4>3. View' = Apply(u, RunUpdates(<<Set(ms)>>, messages, gen), gen)
        BY <1>1, <4>1, <4>2, RunMore
      <4> QED
        BY <2>2, <2>7, <4>3
    <3> QED
      BY <3>1, <3>2
  <2> QED
    BY <1>6, <2>3, <2>6, <2>8 DEF Queued
<1> QED
  BY <1>5, <1>6 DEF Enqueue

-----------------------------------------------------------------------------
(* The conversation.                                                       *)

DataOK ==
    /\ {saveTimer, intact, cut, lost} \subseteq BOOLEAN
    /\ messages \in Seq(Message) /\ latest \in Seq(Message) /\ storage \in Seq(Message)
    /\ recv \in Text
    /\ QueueInv /\ ConversationInv

LEMMA ChatIs == ChatOK <=> ControlOK /\ DataOK
  BY DEF ChatOK, ControlOK, DataOK, TypeOK, ChatInv

LEMMA ChatIsNext == ChatOK' <=> ControlOK' /\ DataOK'
  BY DEF ChatOK, ControlOK, DataOK, TypeOK, ChatInv

\* History and flags of the next state.
Noted ==
    /\ saveTimer' \in BOOLEAN /\ intact' \in BOOLEAN /\ cut' \in BOOLEAN /\ lost' \in BOOLEAN
    /\ recv' \in Text /\ gen' \in Nat
    /\ pending'.src \subseteq {pending'.gen}
    /\ lost => lost'

\* A step after which every update has been rendered.
LEMMA RenderedData ==
    ASSUME DataOK, Noted, queue' = <<>>, messages' \in Tidy(lost'), latest' \in Tidy(lost'),
           storage' \in Tidy(lost'), shown' => Awaits(messages', gen'),
           ~lost' /\ ~requesting' /\ ~streaming' => Settled(messages')
    PROVE  DataOK'
<1>1. View' = messages'
  BY RunNone DEF View
<1>2. QueueInv'
  BY DEF QueueInv
<1>3. ConversationInv'
  BY <1>1 DEF ConversationInv, Tidy, Noted
<1> QED
  BY <1>2, <1>3 DEF DataOK, Noted, Tidy

\* A step that leaves messages and queue alone.
LEMMA StillData ==
    ASSUME DataOK, Noted, UNCHANGED <<queue, messages, latest, gen, lost, shown>>,
           storage' = storage \/ storage' \in Tidy(lost),
           requesting \/ streaming => requesting' \/ streaming'
    PROVE  DataOK'
<1>1. View' = View
  BY DEF View
<1>2. QueueInv'
  BY DEF QueueInv, DataOK
<1>3. ConversationInv'
  BY <1>1 DEF ConversationInv, DataOK, Noted, Tidy
<1> QED
  BY <1>2, <1>3 DEF DataOK, Noted, Tidy

\* A step that queues an update, which ends the generation or leaves it going.
LEMMA QueuedData ==
    ASSUME ChatOK, Noted, UNCHANGED <<gen, lost, shown>>, shown,
           NEW u \in Updates(gen), u.op # "set", Queued(u),
           u.op \in Ends \/ requesting' \/ streaming'
    PROVE  DataOK'
<1>0. DataOK /\ gen \in Nat /\ lost \in BOOLEAN
  BY ChatIs DEF DataOK, ControlOK, ControlType
<1>1. PICK x \in Talk(gen, lost) : View' = Apply(u, x, gen)
  BY DEF Queued
<1>2. ~lost /\ u.op \in Ends => Settled(Apply(u, x, gen))
  BY <1>0, ApplyTalk
<1>3. UNCHANGED <<messages, storage>> /\ QueueInv' /\ latest' \in Tidy(lost)
  BY DEF Queued
<1>4. ConversationInv'
  BY <1>0, <1>1, <1>2, <1>3 DEF ConversationInv, DataOK, Noted, Tidy
<1> QED
  BY <1>0, <1>3, <1>4 DEF DataOK, Noted, Tidy

LEMMA FlushNoted ==
    ASSUME ChatOK, FlushState(gen)
    PROVE  pending'.src \subseteq {pending'.gen}
<1>1. /\ pending \in [gen : Nat, text : Text, src : SUBSET Nat]
      /\ pending.src \subseteq {pending.gen}
  BY DEF ChatOK, TypeOK, ControlType, ChatInv, ConversationInv
<1> QED
  BY <1>1 DEF FlushState

\* The buffer is flushed and one more update is queued.
LEMMA FlushedThen ==
    ASSUME ChatOK, shown, gen' = gen, lost' = lost, NEW u \in Updates(gen), u.op # "set",
           Enqueue(Flushed(gen) \o <<u>>)
    PROVE  Queued(u)
<1>1. CASE Flushed(gen) = <<>>
  <2>1. Flushed(gen) \o <<u>> = <<u>> /\ <<u>> \in Seq(Updates(gen))
    BY <1>1
  <2> QED
    BY <2>1, EnqueueKeeps
<1>2. CASE Flushed(gen) # <<>>
  <2> DEFINE v == [op |-> "chunk", gen |-> gen, text |-> pending.text, src |-> pending.src]
  <2>1. Flushed(gen) = <<v>> /\ pending.gen = gen
    BY <1>2 DEF Flushed
  <2>2. v \in Updates(gen) /\ v.op # "set"
    <3>1. pending.text \in Text /\ pending.src \subseteq {gen}
      BY <2>1 DEF ChatOK, TypeOK, ControlType, ChatInv, ConversationInv
    <3> QED
      BY <3>1 DEF Updates
  <2> HIDE DEF v
  <2>3. Flushed(gen) \o <<u>> = <<v, u>>
    BY <2>1, <2>2, TailOfTwo
  <2>4. <<v, u>> \in Seq(Updates(gen))
    BY <2>2
  <2> QED
    BY <2>2, <2>3, <2>4, EnqueueKeeps
<1> QED
  BY <1>1, <1>2

LEMMA FlushedAlone ==
    ASSUME ChatOK, shown, gen' = gen, lost' = lost, Flushed(gen) # <<>>, Enqueue(Flushed(gen))
    PROVE  \E u \in Updates(gen) : u.op = "chunk" /\ Queued(u)
<1> DEFINE v == [op |-> "chunk", gen |-> gen, text |-> pending.text, src |-> pending.src]
<1>1. Flushed(gen) = <<v>> /\ pending.gen = gen
  BY DEF Flushed
<1>2. v \in Updates(gen) /\ v.op = "chunk"
  <2>1. pending.text \in Text /\ pending.src \subseteq {gen}
    BY <1>1 DEF ChatOK, TypeOK, ControlType, ChatInv, ConversationInv
  <2> QED
    BY <2>1 DEF Updates
<1> HIDE DEF v
<1>3. <<v>> \in Seq(Updates(gen)) /\ Enqueue(<<v>>)
  BY <1>1, <1>2
<1>4. Queued(v)
  BY <1>2, <1>3, EnqueueKeeps
<1> QED
  BY <1>2, <1>4

\* handleStreamError in the current generation.
LEMMA FailData ==
    ASSUME ChatOK, shown, UNCHANGED <<gen, lost, shown, recv, intact, cut>>, FailGeneration(gen)
    PROVE  DataOK'
<1> DEFINE u == Upd("error", gen)
<1>1. u \in Updates(gen) /\ u.op = "error"
  BY DEF Upd, Updates, NoText, Text
<1> HIDE DEF u
<1>2. FlushState(gen) /\ Enqueue(Flushed(gen) \o <<u>>)
  BY DEF FailGeneration, u
<1>3. Queued(u)
  BY <1>1, <1>2, FlushedThen
<1>4. pending'.src \subseteq {pending'.gen}
  BY <1>2, FlushNoted
<1>5. Noted
  BY <1>3, <1>4 DEF Noted, Queued, ChatOK, TypeOK, ControlType
<1> QED
  BY <1>1, <1>3, <1>5, QueuedData DEF Ends

LEMMA HeadersFailChat ==
    ASSUME ChatOK, NEW w \in waits, HeadersFail(w)
    PROVE  ChatOK'
<1>0. ControlOK /\ DataOK
  BY ChatIs
<1>1. ControlOK'
  BY <1>0, HeadersFailControl
<1>2. UNCHANGED <<gen, lost, shown, recv, intact, cut, streaming>>
  BY DEF HeadersFail, histVars
<1>3. CASE w.cg # cgen
  <2>1. UNCHANGED <<pending, requesting, queue, messages, latest, saveTimer, storage>>
    BY <1>3 DEF HeadersFail
  <2>2. Noted
    BY <1>0, <1>2, <2>1 DEF Noted, DataOK, ConversationInv, ControlOK, ControlType
  <2>3. DataOK'
    BY <1>0, <1>2, <2>1, <2>2, StillData
  <2> QED
    BY <1>1, <2>3, ChatIsNext
<1>4. CASE w.cg = cgen
  <2>1. w.gen = gen /\ w \in Live /\ shown
    BY <1>0, <1>4 DEF ControlOK, ControlInv, RequestInv, FlagInv, Live
  <2>2. FailGeneration(gen)
    BY <1>4, <2>1 DEF HeadersFail
  <2> QED
    BY <1>1, <1>2, <2>1, <2>2, FailData, ChatIsNext
<1> QED
  BY <1>3, <1>4

LEMMA SourceErrorChat ==
    ASSUME ChatOK, NEW s \in open, SourceError(s)
    PROVE  ChatOK'
<1>0. ControlOK /\ DataOK
  BY ChatIs
<1>1. ControlOK' /\ s.gen = gen /\ shown
  BY <1>0, SourceEndControl, OpenSource
<1>2. UNCHANGED <<gen, lost, shown, recv, intact, cut>> /\ FailGeneration(gen)
  BY <1>1 DEF SourceError, histVars
<1> QED
  BY <1>1, <1>2, FailData, ChatIsNext

LEMMA SourceDoneChat ==
    ASSUME ChatOK, NEW s \in open, SourceDone(s)
    PROVE  ChatOK'
<1>0. ControlOK /\ DataOK
  BY ChatIs
<1>1. ControlOK' /\ s.gen = gen /\ shown
  BY <1>0, SourceEndControl, OpenSource
<1> DEFINE u == Upd("complete", gen)
<1>2. u \in Updates(gen) /\ u.op = "complete"
  BY DEF Upd, Updates, NoText, Text
<1> HIDE DEF u
<1>3. /\ UNCHANGED <<gen, lost, shown, recv, intact, cut>>
      /\ FlushState(gen) /\ Enqueue(Flushed(gen) \o <<u>>)
  BY <1>1 DEF SourceDone, histVars, u
<1>4. Queued(u) /\ pending'.src \subseteq {pending'.gen}
  BY <1>1, <1>2, <1>3, FlushedThen, FlushNoted
<1>5. Noted
  BY <1>0, <1>3, <1>4 DEF Noted, Queued, DataOK, ControlOK, ControlType
<1>6. DataOK'
  BY <1>1, <1>2, <1>3, <1>4, <1>5, QueuedData DEF Ends
<1> QED
  BY <1>1, <1>6, ChatIsNext

LEMMA ChatCompletionChat ==
    ASSUME ChatOK, NEW g \in calls, ChatCompletion(g)
    PROVE  ChatOK'
<1>0. ControlOK /\ DataOK
  BY ChatIs
<1>1. ControlOK' /\ g = gen /\ shown
  BY <1>0, CallEndControl DEF ControlOK, ControlInv, RequestInv, FlagInv
<1> DEFINE u == [op |-> "answer", gen |-> gen, text |-> FullText]
<1>2. u \in Updates(gen) /\ u.op = "answer"
  BY FullTextType DEF Updates
<1> HIDE DEF u
<1>3. /\ UNCHANGED <<gen, lost, shown, intact, cut, pending>> /\ recv' = FullText
      /\ Enqueue(<<u>>)
  BY <1>1 DEF ChatCompletion, u
<1>4. Queued(u)
  <2>1. <<u>> \in Seq(Updates(gen))
    BY <1>2
  <2> QED
    BY <1>1, <1>2, <1>3, <2>1, EnqueueKeeps
<1>5. Noted
  BY <1>0, <1>3, <1>4, FullTextType DEF Noted, Queued, DataOK, ConversationInv, ControlOK, ControlType
<1>6. DataOK'
  BY <1>1, <1>2, <1>3, <1>4, <1>5, QueuedData DEF Ends
<1> QED
  BY <1>1, <1>6, ChatIsNext

LEMMA ChatCompletionFailsChat ==
    ASSUME ChatOK, NEW g \in calls, ChatCompletionFails(g)
    PROVE  ChatOK'
<1>0. ControlOK /\ DataOK
  BY ChatIs
<1>1. ControlOK' /\ g = gen /\ shown
  BY <1>0, CallEndControl DEF ControlOK, ControlInv, RequestInv, FlagInv
<1>2. UNCHANGED <<gen, lost, shown, recv, intact, cut>> /\ FailGeneration(gen)
  BY <1>1 DEF ChatCompletionFails, histVars
<1> QED
  BY <1>1, <1>2, FailData, ChatIsNext

LEMMA FlushTimerChat ==
    ASSUME ChatOK, FlushTimer
    PROVE  ChatOK'
<1>0. ControlOK /\ DataOK
  BY ChatIs
<1>1. ControlOK'
  BY <1>0, FlushTimerControl
<1>2. /\ UNCHANGED <<gen, lost, shown, recv, intact, cut, requesting, streaming>>
      /\ timer = gen /\ FlushState(gen)
  BY <1>0 DEF FlushTimer, flagVars, histVars, ControlOK, ControlInv, BufferIsArmed
<1>3. pending'.src \subseteq {pending'.gen}
  BY <1>2, FlushNoted
<1>4. CASE Flushed(gen) = <<>>
  <2>1. UNCHANGED <<queue, messages, latest, saveTimer, storage>>
    BY <1>2, <1>4 DEF FlushTimer
  <2>2. Noted
    BY <1>0, <1>2, <1>3, <2>1 DEF Noted, DataOK, ControlOK, ControlType
  <2>3. DataOK'
    BY <1>0, <1>2, <2>1, <2>2, StillData
  <2> QED
    BY <1>1, <2>3, ChatIsNext
<1>5. CASE Flushed(gen) # <<>>
  <2>1. pending.text # NoText
    BY <1>5 DEF Flushed
  <2>2. streaming /\ shown
    BY <1>0, <2>1 DEF ControlOK, ControlInv, FlagInv
  <2>3. Enqueue(Flushed(gen))
    BY <1>2, <1>5 DEF FlushTimer
  <2>4. PICK u \in Updates(gen) : u.op = "chunk" /\ Queued(u)
    BY <1>2, <1>5, <2>2, <2>3, FlushedAlone
  <2>5. Noted
    BY <1>0, <1>2, <1>3, <2>4 DEF Noted, Queued, DataOK, ControlOK, ControlType
  <2>6. DataOK'
    BY <1>2, <2>2, <2>4, <2>5, QueuedData
  <2> QED
    BY <1>1, <2>6, ChatIsNext
<1> QED
  BY <1>4, <1>5

-----------------------------------------------------------------------------
(* Turns that leave the messages alone, and the editor.                    *)

LEMMA HeadersReadyChat ==
    ASSUME ChatOK, NEW w \in waits, HeadersReady(w)
    PROVE  ChatOK'
<1>0. ControlOK /\ DataOK
  BY ChatIs
<1>1. ControlOK'
  BY <1>0, HeadersReadyControl
<1>2. UNCHANGED <<gen, lost, shown, recv, intact, cut, pending, requesting, queue, messages, latest,
                  saveTimer, storage>>
  BY DEF HeadersReady, histVars, chatVars, msgVars
<1>3. streaming => streaming'
  BY DEF HeadersReady
<1>4. Noted
  BY <1>0, <1>2 DEF Noted, DataOK, ConversationInv, ControlOK, ControlType
<1>5. DataOK'
  BY <1>0, <1>2, <1>3, <1>4, StillData
<1> QED
  BY <1>1, <1>5, ChatIsNext

LEMMA SourceDeltaChat ==
    ASSUME ChatOK, NEW s \in open, SourceDelta(s)
    PROVE  ChatOK'
<1>0. ControlOK /\ DataOK
  BY ChatIs
<1>1. pending.src \subseteq {pending.gen} /\ recv \in Text
  BY <1>0 DEF DataOK, ConversationInv
<1>2. ControlOK' /\ pending'.src \subseteq {pending'.gen} /\ recv' \in Text
  BY <1>0, <1>1, SourceDeltaControl
<1>3. UNCHANGED <<gen, lost, shown, intact, cut, requesting, streaming, queue, messages, latest,
                  saveTimer, storage>>
  BY DEF SourceDelta, flagVars, msgVars
<1>4. Noted
  BY <1>0, <1>2, <1>3 DEF Noted, DataOK, ControlOK, ControlType
<1>5. DataOK'
  BY <1>0, <1>3, <1>4, StillData
<1> QED
  BY <1>2, <1>5, ChatIsNext

LEMMA SourceCutChat ==
    ASSUME ChatOK, NEW s \in open, SourceCut(s)
    PROVE  ChatOK'
<1>0. ControlOK /\ DataOK
  BY ChatIs
<1>1. ControlOK'
  BY <1>0, SourceCutControl
<1>2. /\ UNCHANGED <<gen, lost, shown, recv, intact, pending, requesting, streaming, queue, messages,
                     latest, saveTimer, storage>>
      /\ cut' = TRUE
  BY DEF SourceCut, chatVars, flagVars, msgVars
<1>3. Noted
  BY <1>0, <1>2 DEF Noted, DataOK, ConversationInv, ControlOK, ControlType
<1>4. DataOK'
  BY <1>0, <1>2, <1>3, StillData
<1> QED
  BY <1>1, <1>4, ChatIsNext

LEMMA EditorChat ==
    ASSUME ChatOK, HandleEditOpenChange \/ \E i \in DOMAIN messages : HandleEditMessage(i)
    PROVE  ChatOK'
<1>0. ControlOK /\ DataOK
  BY ChatIs
<1>1. /\ UNCHANGED <<ctlVars, chatVars, requesting, streaming, shown, queue, mounted>>
      /\ UNCHANGED <<lost, recv, intact, cut, messages, latest, saveTimer, storage, gen, pending>>
  BY DEF HandleEditOpenChange, HandleEditMessage, flagVars, msgVars, histVars, chatVars
<1>2. ControlOK'
  <2>1. mounted' \in BOOLEAN
    BY <1>0, <1>1 DEF ControlOK, ControlType
  <2> QED
    BY <1>0, <1>1, <2>1, QuietControl
<1>3. Noted
  BY <1>0, <1>1 DEF Noted, DataOK, ConversationInv, ControlOK, ControlType
<1>4. DataOK'
  BY <1>0, <1>1, <1>3, StillData
<1> QED
  BY <1>2, <1>4, ChatIsNext

-----------------------------------------------------------------------------
(* Rendering, saving and the page.                                         *)

LEMMA RenderChat ==
    ASSUME ChatOK, Render
    PROVE  ChatOK'
<1>0. ControlOK /\ DataOK
  BY ChatIs
<1>1. /\ UNCHANGED <<ctlVars, chatVars, requesting, streaming, mounted>> /\ mounted
      /\ UNCHANGED <<storage, lost, recv, intact, cut, gen, pending>>
      /\ messages' = View /\ latest' = View /\ queue' = <<>>
      /\ shown' = (requesting \/ streaming) /\ saveTimer' \in BOOLEAN
  <2>1. saveTimer \in BOOLEAN
    BY <1>0 DEF DataOK
  <2> QED
    BY <2>1 DEF Render, View, uiVars, histVars, chatVars
<1>2. ControlOK'
  <2>1. mounted' \in BOOLEAN
    BY <1>0, <1>1 DEF ControlOK, ControlType
  <2> QED
    BY <1>0, <1>1, <2>1, QuietControl
<1>3. Noted
  BY <1>0, <1>1 DEF Noted, DataOK, ConversationInv, ControlOK, ControlType
<1>4. View \in Tidy(lost) /\ (shown => Awaits(View, gen))
  <2>1. CASE shown
    BY <2>1, QueueKeeps DEF View, Talk
  <2>2. CASE ~shown
    <3>1. queue = <<>>
      BY <1>0, <2>2 DEF ControlOK, ControlInv, FlagInv
    <3>2. View = messages
      BY <3>1, NothingQueued
    <3> QED
      BY <1>0, <2>2, <3>2 DEF DataOK, ConversationInv, Tidy
  <2> QED
    BY <2>1, <2>2
<1>5. requesting \/ streaming => shown
  BY <1>0 DEF ControlOK, ControlInv, FlagInv
<1>6. ~lost /\ ~requesting /\ ~streaming => Settled(View)
  BY <1>0 DEF DataOK, ConversationInv
<1>7. storage \in Tidy(lost)
  BY <1>0 DEF DataOK, ConversationInv, Tidy
<1>8. DataOK'
  BY <1>0, <1>1, <1>3, <1>4, <1>5, <1>6, <1>7, RenderedData
<1> QED
  BY <1>2, <1>8, ChatIsNext

LEMMA TrimTidy ==
    ASSUME NEW l \in BOOLEAN, NEW ms \in Tidy(l)
    PROVE  Trim(ms) \in Tidy(l)
<1> DEFINE n == Len(ms)
           k == n - MaxStored
           r == SubSeq(ms, k + 1, n)
<1>1. ms \in Seq(Message) /\ Clean(ms) /\ (~l => Behind(ms))
  BY DEF Tidy
<1>2. n \in Nat /\ MaxStored \in Nat /\ MaxStored > 0
  BY <1>1, BoundsAssumption
<1>3. CASE n <= MaxStored
  BY <1>3 DEF Trim
<1>4. CASE ~(n <= MaxStored)
  <2>1. Trim(ms) = r
    BY <1>4 DEF Trim
  <2>2. k \in Nat /\ k + 1 \in 1..n /\ n = k + MaxStored
    BY <1>2, <1>4
  <2>3. r \in Seq(Message) /\ Len(r) = MaxStored /\ \A i \in 1..MaxStored : r[i] = ms[k + i]
    <3>1. r \in Seq(Message)
      BY <1>1, <2>2
    <3>2. Len(r) = n - (k + 1) + 1
      BY <1>1, <1>2, <2>2
    <3>3. ASSUME NEW i \in 1..MaxStored PROVE r[i] = ms[k + i]
      <4>1. r[i] = ms[(k + 1) + i - 1] /\ (k + 1) + i - 1 = k + i
        BY <1>1, <1>2, <2>2
      <4> QED
        BY <4>1
    <3>4. n - (k + 1) + 1 = MaxStored
      BY <1>2, <2>2
    <3> HIDE DEF r, k
    <3> QED
      BY <3>1, <3>2, <3>3, <3>4
  <2> HIDE DEF r
  <2>4. DOMAIN r = 1..MaxStored /\ DOMAIN ms = 1..n
    BY <1>1, <2>3
  <2> HIDE DEF k
  <2>5. Clean(r)
    <3> SUFFICES ASSUME NEW i \in 1..MaxStored
                 PROVE  /\ r[i].src \subseteq {r[i].req}
                        /\ r[i].from = "user" => r[i].status = "none"
      BY <2>4 DEF Clean
    <3>1. k + i \in DOMAIN ms
      BY <1>2, <2>2, <2>4
    <3>2. r[i] = ms[k + i]
      BY <2>3
    <3>3. /\ ms[k + i].src \subseteq {ms[k + i].req}
          /\ ms[k + i].from = "user" => ms[k + i].status = "none"
      BY <1>1, <3>1 DEF Clean
    <3> QED
      BY <3>2, <3>3
  <2>6. ASSUME ~l PROVE Behind(r)
    <3> SUFFICES ASSUME NEW i \in 1..(MaxStored - 1) PROVE ~IsPending(r[i])
      BY <2>3 DEF Behind
    <3>1. i \in 1..MaxStored /\ k + i \in 1..(n - 1)
      BY <1>2, <2>2
    <3>2. ~IsPending(ms[k + i])
      BY <1>1, <2>6, <3>1 DEF Behind
    <3> QED
      BY <2>3, <3>1, <3>2
  <2> QED
    BY <2>1, <2>3, <2>5, <2>6 DEF Tidy
<1> QED
  BY <1>3, <1>4

LEMMA SaveTimerChat ==
    ASSUME ChatOK, SaveTimer
    PROVE  ChatOK'
<1>0. ControlOK /\ DataOK
  BY ChatIs
<1>1. /\ UNCHANGED <<ctlVars, chatVars, requesting, streaming, shown, queue, mounted>>
      /\ UNCHANGED <<lost, recv, intact, cut, messages, latest, gen, pending>>
      /\ saveTimer' = FALSE /\ storage' = Trim(latest)
  BY DEF SaveTimer, flagVars, histVars, chatVars, uiVars
<1>2. ControlOK'
  <2>1. mounted' \in BOOLEAN
    BY <1>0, <1>1 DEF ControlOK, ControlType
  <2> QED
    BY <1>0, <1>1, <2>1, QuietControl
<1>3. latest \in Tidy(lost) /\ lost \in BOOLEAN
  BY <1>0 DEF DataOK, ConversationInv, Tidy
<1>4. Trim(latest) \in Tidy(lost)
  BY <1>3, TrimTidy
<1>5. Noted
  BY <1>0, <1>1 DEF Noted, DataOK, ConversationInv, ControlOK, ControlType
<1>6. DataOK'
  BY <1>0, <1>1, <1>4, <1>5, StillData
<1> QED
  BY <1>2, <1>6, ChatIsNext

LEMMA NoMessages ==
    ASSUME NEW l
    PROVE  <<>> \in Tidy(l) /\ Settled(<<>>)
<1> DEFINE e == <<>>
<1>1. e \in Seq(Message) /\ Len(e) = 0 /\ DOMAIN e = {}
  OBVIOUS
<1>2. \A i \in 1..(0 - 1) : FALSE
  OBVIOUS
<1> HIDE DEF e
<1>3. e \in Tidy(l) /\ Settled(e)
  BY <1>1, <1>2 DEF Tidy, Clean, Behind, Settled
<1> QED
  BY <1>3 DEF e

LEMMA LeaveChat ==
    ASSUME ChatOK, Unmount \/ Crash
    PROVE  ChatOK'
<1>0. ControlOK /\ DataOK /\ Leave
  BY ChatIs DEF Unmount, Crash
<1>1. ControlOK'
  BY <1>0, LeaveControl
<1>2. /\ messages' = <<>> /\ latest' = <<>> /\ queue' = <<>> /\ saveTimer' = FALSE
      /\ shown' = FALSE /\ lost' = lost /\ recv' = NoText /\ intact' = FALSE /\ cut' = FALSE
      /\ gen' = gen + 1 /\ pending' = [gen |-> gen + 1, text |-> NoText, src |-> {}]
  BY <1>0 DEF Leave, DiscardPending
<1>3. storage \in Tidy(lost) /\ latest \in Tidy(lost) /\ lost \in BOOLEAN
  BY <1>0 DEF DataOK, ConversationInv, Tidy
<1>4. storage' \in Tidy(lost)
  <2>1. Trim(latest) \in Tidy(lost)
    BY <1>3, TrimTidy
  <2> QED
    BY <1>3, <2>1 DEF Unmount, Crash
<1>5. Noted
  <2>1. NoText \in Text
    BY DEF NoText, Text
  <2>2. gen + 1 \in Nat
    BY <1>0 DEF ControlOK, ControlType
  <2>3. pending'.src \subseteq {pending'.gen}
    BY <1>2
  <2> QED
    BY <1>2, <1>3, <2>1, <2>2, <2>3 DEF Noted
<1>6. messages' \in Tidy(lost') /\ latest' \in Tidy(lost') /\ Settled(messages')
  BY <1>2, NoMessages
<1>7. DataOK'
  BY <1>0, <1>2, <1>4, <1>5, <1>6, RenderedData
<1> QED
  BY <1>1, <1>7, ChatIsNext

\* What loading makes of a message that is still pending.
Failed(m) == [m EXCEPT !.status = "error", !.text = [m.text EXCEPT !.content = <<"error">>]]

LEMMA NormalizeIs ==
    ASSUME NEW m \in Message, m.src \subseteq {m.req}, m.from = "user" => m.status = "none"
    PROVE  LET r == NormalizeStoredMessageForLoad(m)
           IN  /\ r \in Message /\ r.src \subseteq {r.req}
               /\ r.from = "user" => r.status = "none"
               /\ IsPending(r) => IsPending(m)
<1>1. CASE IsPending(m) /\ HasText(m)
  <2>1. NormalizeStoredMessageForLoad(m) = [m EXCEPT !.status = "complete"]
    BY <1>1 DEF NormalizeStoredMessageForLoad, Complete
  <2> QED
    BY <1>1, <2>1 DEF Message, IsPending
<1>2. CASE ~(IsPending(m) /\ HasText(m))
  <2>1. NormalizeStoredMessageForLoad(m) = m
    BY <1>2 DEF NormalizeStoredMessageForLoad
  <2> QED
    BY <2>1
<1> QED
  BY <1>1, <1>2

LEMMA FailedIs ==
    ASSUME NEW m \in Message, m.src \subseteq {m.req}, m.from = "user" => m.status = "none",
           IsPending(m)
    PROVE  /\ Failed(m) \in Message /\ Failed(m).src \subseteq {Failed(m).req}
           /\ Failed(m).from = "user" => Failed(m).status = "none"
           /\ ~IsPending(Failed(m))
<1>1. [m.text EXCEPT !.content = <<"error">>] \in Text
  <2>1. m.text \in Text
    BY DEF Message
  <2>2. <<"error">> \in Seq(Letters)
    <3>1. "error" \in Letters
      BY DEF Letters
    <3> QED
      BY <3>1
  <2> QED
    BY <2>1, <2>2 DEF Text
<1> QED
  BY <1>1 DEF Failed, Message, IsPending

\* A stored conversation is loaded with nothing pending, unless an edit undid
\* an update.
LEMMA LoadTidy ==
    ASSUME NEW l \in BOOLEAN, NEW ms \in Tidy(l)
    PROVE  Load(ms) \in Tidy(l) /\ (~l => Settled(Load(ms)))
<1> DEFINE n == Len(ms)
           normal == [i \in 1..n |-> NormalizeStoredMessageForLoad(ms[i])]
           left == {i \in 1..n : IsPending(normal[i])}
           r == Load(ms)
           Fine(m) == /\ m \in Message /\ m.src \subseteq {m.req}
                      /\ m.from = "user" => m.status = "none"
<1>1. ms \in Seq(Message) /\ Clean(ms) /\ (~l => Behind(ms))
  BY DEF Tidy
<1>2. n \in Nat /\ DOMAIN ms = 1..n
  BY <1>1
<1>3. \A i \in 1..n : Fine(ms[i])
  BY <1>1, <1>2, ElementType DEF Clean
<1>4. ASSUME NEW i \in 1..n
      PROVE  Fine(normal[i]) /\ (IsPending(normal[i]) => IsPending(ms[i]))
  <2>1. normal[i] = NormalizeStoredMessageForLoad(ms[i])
    OBVIOUS
  <2> HIDE DEF normal
  <2> QED
    BY <1>3, <2>1, NormalizeIs
<1>5. r = [i \in 1..n |->
             IF i \in left /\ \A j \in left : j <= i
             THEN [normal[i] EXCEPT !.status = "error", !.text.content = <<"error">>]
             ELSE normal[i]]
  BY DEF Load
<1> HIDE DEF normal, r
<1>6. ASSUME NEW i \in 1..n
      PROVE  Fine(r[i]) /\ (~l => ~IsPending(r[i]))
  <2>1. CASE i \in left /\ \A j \in left : j <= i
    <3>1. r[i] = [normal[i] EXCEPT !.status = "error", !.text.content = <<"error">>]
      BY <1>5, <2>1
    <3>2. r[i] = Failed(normal[i])
      BY <1>4, <3>1 DEF Failed, Message
    <3> QED
      BY <1>4, <2>1, <3>2, FailedIs
  <2>2. CASE ~(i \in left /\ \A j \in left : j <= i)
    <3>1. r[i] = normal[i]
      BY <1>5, <2>2
    <3>2. ASSUME ~l, IsPending(normal[i]) PROVE FALSE
      <4>1. i \in left
        BY <3>2
      <4>2. PICK j \in 1..n : IsPending(normal[j]) /\ ~(j <= i)
        BY <2>2, <4>1
      <4>3. i \in 1..(n - 1)
        <5> HIDE DEF n
        <5> QED
          BY <1>2, <4>2
      <4> QED
        BY <1>1, <1>4, <3>2, <4>3 DEF Behind
    <3> QED
      BY <1>4, <3>1, <3>2
  <2> QED
    BY <2>1, <2>2
<1>7. r \in Seq(Message) /\ Len(r) = n /\ DOMAIN r = 1..n
  <2>1. r \in [1..n -> Message]
    BY <1>5, <1>6
  <2> QED
    BY <1>2, <2>1
<1>8. Clean(r)
  BY <1>6, <1>7 DEF Clean
<1>9. ~l => Settled(r) /\ Behind(r)
  <2>1. \A i \in 1..(n - 1) : i \in 1..n
    BY <1>2
  <2> QED
    BY <1>6, <1>7, <2>1 DEF Settled, Behind
<1> QED
  BY <1>7, <1>8, <1>9 DEF Tidy, r

LEMMA MountChat ==
    ASSUME ChatOK, Mount
    PROVE  ChatOK'
<1>0. ControlOK /\ DataOK
  BY ChatIs
<1> DEFINE loaded == Load(storage)
<1>1. /\ UNCHANGED <<ctlVars, chatVars, requesting, streaming, shown, queue>> /\ ~mounted /\ mounted' = TRUE
      /\ UNCHANGED <<lost, recv, intact, cut, gen, pending, saveTimer>>
      /\ messages' = loaded /\ latest' = loaded /\ storage' = loaded
  BY DEF Mount, flagVars, histVars, chatVars
<1>2. ControlOK'
  BY <1>0, <1>1, QuietControl
<1>3. ~shown /\ queue = <<>>
  BY <1>0, <1>1 DEF ControlOK, ControlInv, FlagInv
<1>4. storage \in Tidy(lost) /\ lost \in BOOLEAN
  BY <1>0 DEF DataOK, ConversationInv, Tidy
<1>5. loaded \in Tidy(lost) /\ (~lost => Settled(loaded))
  BY <1>4, LoadTidy
<1>6. Noted
  BY <1>0, <1>1 DEF Noted, DataOK, ConversationInv, ControlOK, ControlType
<1> HIDE DEF loaded
<1>7. DataOK'
  BY <1>0, <1>1, <1>3, <1>5, <1>6, RenderedData
<1> QED
  BY <1>2, <1>7, ChatIsNext

-----------------------------------------------------------------------------
(* The user's actions on the conversation.                                 *)

\* A user event that replaces the messages.
LEMMA CommitSet ==
    ASSUME ChatOK, NEW ms \in Seq(Message), NEW at, NEW g, Commit(<<Set(ms)>>, at, g)
    PROVE  /\ messages' = ms /\ latest' = ms /\ queue' = <<>> /\ saveTimer' = TRUE
           /\ storage' = storage /\ shown' = (requesting' \/ streaming')
<1> DEFINE u == Set(ms)
<1>1. gen \in Nat /\ messages \in Seq(Message) /\ queue \in Seq(Updates(gen))
  BY DEF ChatOK, TypeOK, ControlType, ChatInv, QueueInv
<1>2. u \in Updates(gen) /\ \A x : Apply(u, x, g) = ms /\ Apply(u, x, at) = ms
  BY <1>1, SetIs
<1> HIDE DEF u
<1>3. \/ messages' = RunUpdates(queue \o <<u>>, messages, g)
      \/ messages' = RunUpdates(Tail(<<u>>), Apply(Head(<<u>>), messages, at), g)
  BY DEF Commit, u
<1>4. RunUpdates(queue \o <<u>>, messages, g) = ms
  <2>1. RunUpdates(queue \o <<u>>, messages, g) = Apply(u, RunUpdates(queue, messages, g), g)
    BY <1>1, <1>2, RunMore
  <2> QED
    BY <1>2, <2>1
<1>5. RunUpdates(Tail(<<u>>), Apply(Head(<<u>>), messages, at), g) = ms
  <2>1. Tail(<<u>>) = <<>> /\ Head(<<u>>) = u
    OBVIOUS
  <2> QED
    BY <1>2, <2>1, RunNone
<1>6. messages' = ms
  BY <1>3, <1>4, <1>5
<1> QED
  BY <1>6 DEF Commit

\* A request is sent for messages that await its answer.
LEMMA SendChatChat ==
    ASSUME ChatOK, NEW ms \in Talk(gen + 1, lost), SendChat(ms), mounted, mounted' = mounted
    PROVE  ChatOK'
<1>0. ControlOK /\ DataOK
  BY ChatIs
<1>1. ControlOK'
  BY <1>0, SendChatControl
<1>2. ms \in Seq(Message) /\ ms \in Tidy(lost) /\ Awaits(ms, gen + 1)
  BY DEF Talk, Tidy
<1>3. /\ gen' = gen + 1 /\ pending' = [gen |-> gen + 1, text |-> NoText, src |-> {}]
      /\ requesting' = TRUE /\ recv' = NoText /\ intact' = TRUE /\ cut' = FALSE /\ lost' = lost
      /\ Commit(<<Set(ms)>>, gen, gen + 1)
  BY DEF SendChat, DiscardPending
<1>4. messages' = ms /\ latest' = ms /\ queue' = <<>> /\ saveTimer' = TRUE /\ storage' = storage
  BY <1>2, <1>3, CommitSet
<1>5. storage \in Tidy(lost) /\ lost \in BOOLEAN
  BY <1>0 DEF DataOK, ConversationInv, Tidy
<1>6. Noted
  <2>1. NoText \in Text
    BY DEF NoText, Text
  <2>2. gen + 1 \in Nat
    BY <1>0 DEF ControlOK, ControlType
  <2>3. pending'.src \subseteq {pending'.gen}
    BY <1>3
  <2> QED
    BY <1>3, <1>4, <1>5, <2>1, <2>2, <2>3 DEF Noted
<1>7. DataOK'
  BY <1>0, <1>2, <1>3, <1>4, <1>5, <1>6, RenderedData
<1> QED
  BY <1>1, <1>7, ChatIsNext

\* While nothing is generated what is shown is all there is.
LEMMA Idle ==
    ASSUME ChatOK, ~shown
    PROVE  /\ queue = <<>> /\ ~requesting /\ ~streaming /\ messages \in Tidy(lost)
           /\ ~lost => Settled(messages)
<1>1. queue = <<>> /\ ~requesting /\ ~streaming
  BY DEF ChatOK, ChatInv, ControlInv, FlagInv
<1>2. View = messages
  BY <1>1, NothingQueued
<1>3. messages \in Tidy(lost) /\ (~lost => Settled(messages))
  BY <1>1, <1>2, ChatIs DEF DataOK, ConversationInv, Tidy
<1> QED
  BY <1>1, <1>3

Ready(l) == {ms \in Seq(Message) : Clean(ms) /\ (~l => Settled(ms))}

\* A message is added to a conversation that is ready for one.
LEMMA AddMessage ==
    ASSUME NEW l \in BOOLEAN, NEW ms \in Ready(l), NEW m \in Message, m.src = {},
           m.from = "user" => m.status = "none"
    PROVE  /\ ms \o <<m>> \in Tidy(l)
           /\ ~IsPending(m) => ms \o <<m>> \in Ready(l)
           /\ m.from = "assistant" => Awaits(ms \o <<m>>, m.req)
<1> DEFINE r == ms \o <<m>>
           n == Len(ms)
<1>1. ms \in Seq(Message) /\ Clean(ms) /\ (~l => Settled(ms)) /\ n \in Nat /\ DOMAIN ms = 1..n
  BY DEF Ready
<1>2. r \in Seq(Message) /\ Len(r) = n + 1
  BY <1>1
<1>3. (\A i \in 1..n : r[i] = ms[i]) /\ r[n + 1] = m
  BY <1>1
<1> HIDE DEF r
<1>4. DOMAIN r = 1..(n + 1)
  BY <1>2
<1> HIDE DEF n
<1>5. \A i \in 1..(n + 1) : i \in 1..n \/ i = n + 1
  BY <1>1
<1>6. Clean(r)
  BY <1>1, <1>3, <1>4, <1>5 DEF Clean
<1>7. ~l => Behind(r)
  <2>1. Len(r) - 1 = n
    BY <1>1, <1>2
  <2>2. ~l => \A i \in 1..n : ~IsPending(r[i])
    BY <1>1, <1>3 DEF Settled
  <2> QED
    BY <2>1, <2>2 DEF Behind
<1>8. ~IsPending(m) => (~l => Settled(r))
  BY <1>1, <1>3, <1>4, <1>5 DEF Settled
<1>9. m.from = "assistant" => Awaits(r, m.req)
  <2>1. r # <<>> /\ r[Len(r)] = m
    <3>1. r # <<>>
      BY <1>1, <1>2
    <3> QED
      BY <1>2, <1>3, <3>1
  <2> QED
    BY <2>1 DEF Awaits, Last
<1> QED
  BY <1>2, <1>6, <1>7, <1>8, <1>9 DEF Tidy, Ready, r

LEMMA LoadingIs ==
    ASSUME NEW g \in Nat
    PROVE  /\ LoadingMessage(g) \in Message /\ LoadingMessage(g).src = {} /\ LoadingMessage(g).req = g
           /\ LoadingMessage(g).from = "assistant"
           /\ UserMessage(g) \in Message /\ UserMessage(g).src = {} /\ UserMessage(g).from = "user"
           /\ UserMessage(g).status = "none" /\ ~IsPending(UserMessage(g))
<1>1. NoText \in Text
  BY DEF NoText, Text
<1>2. {} \in SUBSET Nat
  OBVIOUS
<1> QED
  BY <1>1, <1>2 DEF LoadingMessage, UserMessage, Message, IsPending

\* The message that waits for the answer is added.
LEMMA AddLoading ==
    ASSUME NEW l \in BOOLEAN, NEW g \in Nat, NEW ms \in Ready(l)
    PROVE  ms \o <<LoadingMessage(g)>> \in Talk(g, l)
<1> DEFINE m == LoadingMessage(g)
<1>1. m \in Message /\ m.src = {} /\ m.req = g /\ m.from = "assistant"
  BY LoadingIs
<1> HIDE DEF m
<1>2. ms \o <<m>> \in Tidy(l) /\ Awaits(ms \o <<m>>, g)
  BY <1>1, AddMessage
<1> QED
  BY <1>2 DEF Talk, m

LEMMA HandleSendMessageChat ==
    ASSUME ChatOK, HandleSendMessage
    PROVE  ChatOK'
<1> DEFINE g == gen + 1
           ms == messages \o <<UserMessage(g)>>
<1>0. g \in Nat /\ lost \in BOOLEAN
  BY DEF ChatOK, TypeOK, ControlType
<1>1. mounted /\ ~shown /\ mounted' = mounted
      /\ SendChat(messages \o <<UserMessage(g), LoadingMessage(g)>>)
  BY DEF HandleSendMessage
<1>2. messages \in Ready(lost)
  BY <1>1, Idle DEF Tidy, Ready
<1>3. ms \in Ready(lost)
  BY <1>0, <1>2, LoadingIs, AddMessage
<1>4. ms \o <<LoadingMessage(g)>> \in Talk(g, lost)
  BY <1>0, <1>3, AddLoading
<1>5. messages \o <<UserMessage(g), LoadingMessage(g)>> = ms \o <<LoadingMessage(g)>>
  <2>1. messages \in Seq(Message) /\ UserMessage(g) \in Message /\ LoadingMessage(g) \in Message
    BY <1>0, <1>2, LoadingIs DEF Ready
  <2> QED
    BY <2>1, AppendTwo
<1> QED
  BY <1>1, <1>4, <1>5, SendChatChat

\* A beginning of a conversation is ready, if nothing in it is pending.
LEMMA Beginning ==
    ASSUME NEW l \in BOOLEAN, NEW ms \in Seq(Message), Clean(ms), NEW k \in 0..Len(ms),
           ~l => \A j \in 1..k : ~IsPending(ms[j])
    PROVE  SubSeq(ms, 1, k) \in Ready(l)
<1> DEFINE r == SubSeq(ms, 1, k)
<1>1. Len(ms) \in Nat /\ k \in Nat /\ k <= Len(ms) /\ DOMAIN ms = 1..Len(ms)
  OBVIOUS
<1>2. r \in Seq(Message) /\ Len(r) = k
  BY <1>1
<1>3. \A i \in 1..k : r[i] = ms[i] /\ i \in DOMAIN ms
  BY <1>1
<1> HIDE DEF r
<1>4. DOMAIN r = 1..k
  BY <1>2
<1>5. Clean(r) /\ (~l => Settled(r))
  BY <1>3, <1>4 DEF Clean, Settled
<1> QED
  BY <1>2, <1>5 DEF Ready, r

LEMMA HandleRegenerateMessageChat ==
    ASSUME ChatOK, NEW i \in DOMAIN messages, HandleRegenerateMessage(i)
    PROVE  ChatOK'
<1> DEFINE g == gen + 1
           k == IF messages[i].from = "user" THEN i ELSE i - 1
           ms == SubSeq(messages, 1, k)
<1>0. g \in Nat /\ lost \in BOOLEAN
  BY DEF ChatOK, TypeOK, ControlType
<1>1. mounted /\ ~shown /\ mounted' = mounted /\ SendChat(ms \o <<LoadingMessage(g)>>)
  BY DEF HandleRegenerateMessage
<1>2. messages \in Seq(Message) /\ Clean(messages) /\ (~lost => Settled(messages))
  BY <1>1, Idle DEF Tidy
<1>3. k \in 0..Len(messages) /\ \A j \in 1..k : j \in DOMAIN messages
  <2>1. i \in 1..Len(messages) /\ Len(messages) \in Nat
    BY <1>2
  <2>2. k \in 0..Len(messages)
    BY <2>1
  <2> HIDE DEF k
  <2> QED
    BY <1>2, <2>2
<1> HIDE DEF k
<1>4. ms \in Ready(lost)
  BY <1>0, <1>2, <1>3, Beginning DEF Settled
<1> HIDE DEF ms
<1>5. ms \o <<LoadingMessage(g)>> \in Talk(g, lost)
  BY <1>0, <1>4, AddLoading
<1> QED
  BY <1>1, <1>5, SendChatChat

\* A message of ms is replaced by one that differs in its text only.
LEMMA ReplaceText ==
    ASSUME NEW ms \in Seq(Message), NEW i \in 1..Len(ms), NEW x \in Message,
           x.from = ms[i].from, x.req = ms[i].req, x.status = ms[i].status, x.src = ms[i].src
    PROVE  LET r == [ms EXCEPT ![i] = x]
           IN  /\ r \in Seq(Message) /\ Len(r) = Len(ms)
               /\ \A j \in 1..Len(ms) : r[j] = IF j = i THEN x ELSE ms[j]
               /\ Clean(ms) => Clean(r)
               /\ Behind(ms) => Behind(r)
               /\ Settled(ms) => Settled(r)
               /\ \A g : Awaits(ms, g) => Awaits(r, g)
<1> DEFINE n == Len(ms)
           r == [ms EXCEPT ![i] = x]
<1>1. n \in Nat /\ DOMAIN ms = 1..n /\ ms \in [1..n -> Message]
  OBVIOUS
<1>2. r \in [1..n -> Message] /\ \A j \in 1..n : r[j] = IF j = i THEN x ELSE ms[j]
  BY <1>1
<1> HIDE DEF r
<1>3. r \in Seq(Message) /\ Len(r) = n /\ DOMAIN r = 1..n
  BY <1>1, <1>2
<1>4. \A j \in 1..n : /\ r[j].from = ms[j].from /\ r[j].req = ms[j].req
                      /\ r[j].status = ms[j].status /\ r[j].src = ms[j].src
  BY <1>2
<1>5. Clean(ms) => Clean(r)
  BY <1>1, <1>3, <1>4 DEF Clean
<1>6. Settled(ms) => Settled(r)
  BY <1>1, <1>3, <1>4 DEF Settled, IsPending
<1>7. Behind(ms) => Behind(r)
  <2>1. \A j \in 1..(n - 1) : j \in 1..n
    BY <1>1
  <2> QED
    BY <1>3, <1>4, <2>1 DEF Behind, IsPending
<1>8. \A g : Awaits(ms, g) => Awaits(r, g)
  <2>1. n \in 1..n /\ r # <<>>
    <3>1. n \in 1..n
      BY <1>1
    <3>2. r # <<>>
      BY <1>3, <3>1
    <3> QED
      BY <3>1, <3>2
  <2> QED
    BY <1>3, <1>4, <2>1 DEF Awaits, Last
<1> QED
  BY <1>2, <1>3, <1>5, <1>6, <1>7, <1>8 DEF r

\* The message that is edited, and the messages with its new text.
EditedText(m) ==
    [m EXCEPT !.text = [m.text EXCEPT !.content = IF m.from = "user" THEN m.text.content ELSE <<"edited">>]]

LEMMA EditedTextIs ==
    ASSUME NEW m \in Message
    PROVE  /\ EditedText(m) \in Message /\ EditedText(m).from = m.from /\ EditedText(m).req = m.req
           /\ EditedText(m).status = m.status /\ EditedText(m).src = m.src
<1> DEFINE c == IF m.from = "user" THEN m.text.content ELSE <<"edited">>
<1>1. m.text \in Text
  BY DEF Message
<1>2. c \in Seq(Letters)
  <2>1. "edited" \in Letters
    BY DEF Letters
  <2>2. <<"edited">> \in Seq(Letters)
    BY <2>1
  <2> QED
    BY <1>1, <2>2 DEF Text
<1> HIDE DEF c
<1>3. [m.text EXCEPT !.content = c] \in Text
  BY <1>1, <1>2 DEF Text
<1>4. EditedText(m) = [m EXCEPT !.text = [m.text EXCEPT !.content = c]]
  BY DEF EditedText, c
<1> QED
  BY <1>3, <1>4 DEF Message

LEMMA ApplyEditChat ==
    ASSUME ChatOK, ApplyEdit
    PROVE  ChatOK'
<1>0. ControlOK /\ DataOK
  BY ChatIs
<1> DEFINE i == IndexOf(editing)
           x == EditedText(messages[i])
           edited == [messages EXCEPT ![i].text.content =
                        IF messages[i].from = "user" THEN @ ELSE <<"edited">>]
           r == [messages EXCEPT ![i] = x]
<1>1. /\ messages \in Seq(Message) /\ Clean(messages) /\ (~lost => Behind(messages)) /\ lost \in BOOLEAN
      /\ storage \in Tidy(lost) /\ Len(messages) \in Nat
  BY <1>0 DEF DataOK, ConversationInv, Tidy
<1>2. i \in 1..Len(messages)
  BY DEF ApplyEdit, IsShown, IndexOf
<1>3. mounted /\ mounted' = mounted
  BY DEF ApplyEdit
<1>4. \/ /\ UNCHANGED <<ctlVars, chatVars, requesting, streaming, recv, cut>>
         /\ intact' = (intact /\ queue = <<>> /\ messages[i].req # gen)
         /\ lost' = (lost \/ queue # <<>>)
         /\ Commit(<<Set(edited)>>, gen, gen)
      \/ messages[i].from = "user" /\ SendChat(SubSeq(edited, 1, i) \o <<LoadingMessage(gen + 1)>>)
  BY DEF ApplyEdit
<1> HIDE DEF i
<1>5. messages[i] \in Message
  BY <1>1, <1>2
<1>6. /\ x \in Message /\ x.from = messages[i].from /\ x.req = messages[i].req
      /\ x.status = messages[i].status /\ x.src = messages[i].src
  BY <1>5, EditedTextIs
<1>7. edited = r
  BY <1>1, <1>2, <1>5 DEF EditedText, Message, Text
<1> HIDE DEF edited, x
<1>8. /\ r \in Seq(Message) /\ Len(r) = Len(messages)
      /\ \A j \in 1..Len(messages) : r[j] = IF j = i THEN x ELSE messages[j]
      /\ Clean(r) /\ (~lost => Behind(r))
      /\ Settled(messages) => Settled(r)
      /\ Awaits(messages, gen) => Awaits(r, gen)
  BY <1>1, <1>2, <1>6, ReplaceText
<1> HIDE DEF r
<1>9. CASE /\ UNCHANGED <<ctlVars, chatVars, requesting, streaming, recv, cut>>
           /\ intact' = (intact /\ queue = <<>> /\ messages[i].req # gen)
           /\ lost' = (lost \/ queue # <<>>)
           /\ Commit(<<Set(r)>>, gen, gen)
  <2>1. /\ messages' = r /\ latest' = r /\ queue' = <<>> /\ saveTimer' = TRUE
        /\ storage' = storage /\ shown' = (requesting \/ streaming)
    BY <1>8, <1>9, CommitSet
  <2>2. ControlOK'
    <3>1. mounted' \in BOOLEAN
      BY <1>0, <1>3 DEF ControlOK, ControlType
    <3> QED
      BY <1>0, <1>3, <1>9, <2>1, <3>1, QuietControl
  <2>3. Noted
    <3>1. gen' = gen /\ pending' = pending /\ recv' = recv /\ cut' = cut
      BY <1>9 DEF chatVars
    <3>2. intact' \in BOOLEAN /\ lost' \in BOOLEAN /\ (lost => lost')
      BY <1>0, <1>9 DEF DataOK
    <3> QED
      BY <1>0, <2>1, <3>1, <3>2 DEF Noted, DataOK, ConversationInv, ControlOK, ControlType
  <2>4. requesting \/ streaming => Awaits(messages, gen)
    BY <1>0 DEF ControlOK, ControlInv, FlagInv, DataOK, ConversationInv
  <2>5. ~lost' /\ ~requesting /\ ~streaming => Settled(messages)
    <3> SUFFICES ASSUME ~lost', ~requesting, ~streaming PROVE Settled(messages)
      OBVIOUS
    <3>1. queue = <<>> /\ ~lost
      BY <1>9
    <3>2. View = messages
      BY <3>1, NothingQueued
    <3> QED
      BY <1>0, <3>1, <3>2 DEF DataOK, ConversationInv
  <2>6. ~lost' => ~lost
    BY <1>9
  <2>7. r \in Tidy(lost') /\ storage' \in Tidy(lost')
    BY <1>1, <1>8, <2>1, <2>6 DEF Tidy
  <2>8. UNCHANGED <<gen, requesting, streaming>>
    BY <1>9 DEF chatVars
  <2>9. DataOK'
    BY <1>0, <1>8, <2>1, <2>3, <2>4, <2>5, <2>7, <2>8, RenderedData
  <2> QED
    BY <2>2, <2>9, ChatIsNext
<1>10. CASE messages[i].from = "user" /\ SendChat(SubSeq(r, 1, i) \o <<LoadingMessage(gen + 1)>>)
  <2>1. i \in 0..Len(r) /\ i \in Nat
    BY <1>1, <1>2, <1>8
  <2>2. ~lost => \A j \in 1..i : ~IsPending(r[j])
    <3> SUFFICES ASSUME ~lost, NEW j \in 1..i PROVE ~IsPending(r[j])
      OBVIOUS
    <3>1. CASE j = i
      <4>1. r[j] = x /\ x.from = "user"
        BY <1>2, <1>6, <1>8, <1>10, <3>1
      <4>2. j \in DOMAIN r
        BY <1>2, <1>8, <3>1
      <4> QED
        BY <1>8, <4>1, <4>2 DEF Clean, IsPending
    <3>2. CASE j # i
      <4>1. j \in 1..(Len(r) - 1)
        BY <1>1, <1>2, <1>8, <3>2
      <4> QED
        BY <1>8, <4>1 DEF Behind
    <3> QED
      BY <3>1, <3>2
  <2> DEFINE ms == SubSeq(r, 1, i)
  <2>3. ms \in Ready(lost)
    BY <1>1, <1>8, <2>1, <2>2, Beginning
  <2> HIDE DEF ms
  <2>4. gen + 1 \in Nat
    BY <1>0 DEF ControlOK, ControlType
  <2>5. ms \o <<LoadingMessage(gen + 1)>> \in Talk(gen + 1, lost)
    BY <1>1, <2>3, <2>4, AddLoading
  <2>6. SendChat(ms \o <<LoadingMessage(gen + 1)>>)
    BY <1>10 DEF ms
  <2> QED
    BY <1>3, <2>5, <2>6, SendChatChat
<1> QED
  BY <1>4, <1>7, <1>9, <1>10

\* A user event, after which generation and requests are as they were, leaves
\* these messages.
LEMMA ReplacedChat ==
    ASSUME ChatOK, mounted, ~shown, UNCHANGED <<ctlVars, chatVars, requesting, streaming, mounted, histVars>>,
           messages' \in Ready(lost), latest' = messages', queue' = <<>>, saveTimer' = TRUE,
           storage' = storage, shown' = (requesting' \/ streaming')
    PROVE  ChatOK'
<1>0. ControlOK /\ DataOK
  BY ChatIs
<1>1. ~requesting /\ ~streaming
  BY Idle
<1>2. ControlOK'
  <2>1. mounted' \in BOOLEAN
    BY <1>0 DEF ControlOK, ControlType
  <2> QED
    BY <1>0, <2>1, QuietControl
<1>3. UNCHANGED <<gen, pending, recv, intact, cut, lost>>
  BY DEF chatVars, histVars
<1>4. Noted
  BY <1>0, <1>3 DEF Noted, DataOK, ConversationInv, ControlOK, ControlType
<1>5. messages' \in Tidy(lost)
  <2> DEFINE ms == messages'
  <2>1. ms \in Seq(Message) /\ Clean(ms) /\ (~lost => Settled(ms))
    BY DEF Ready
  <2> HIDE DEF ms
  <2>2. \A i \in 1..(Len(ms) - 1) : i \in DOMAIN ms
    <3>1. DOMAIN ms = 1..Len(ms) /\ Len(ms) \in Nat
      BY <2>1
    <3> QED
      BY <3>1
  <2>3. ms \in Tidy(lost)
    BY <2>1, <2>2 DEF Settled, Behind, Tidy
  <2> QED
    BY <2>3 DEF ms
<1>6. storage \in Tidy(lost)
  BY <1>0 DEF DataOK, ConversationInv, Tidy
<1>7. DataOK'
  BY <1>0, <1>1, <1>3, <1>4, <1>5, <1>6, RenderedData DEF Ready
<1> QED
  BY <1>2, <1>7, ChatIsNext

LEMMA HandleDeleteMessageChat ==
    ASSUME ChatOK, NEW i \in DOMAIN messages, HandleDeleteMessage(i)
    PROVE  ChatOK'
<1> DEFINE key == KeyOf(messages[i])
           u == [op |-> "delete", key |-> key]
           M == {m \in Message : /\ m.src \subseteq {m.req}
                                 /\ m.from = "user" => m.status = "none"
                                 /\ ~lost => ~IsPending(m)}
<1>1. /\ mounted /\ ~shown
      /\ UNCHANGED <<ctlVars, chatVars, requesting, streaming, mounted, histVars>>
      /\ Commit(<<u>>, gen, gen)
  BY DEF HandleDeleteMessage, uiVars
<1>2. queue = <<>> /\ messages \in Seq(Message) /\ Clean(messages) /\ (~lost => Settled(messages))
  BY <1>1, Idle DEF Tidy
<1>3. \A x : Apply(u, x, gen) = Without(x, key)
  BY DEF Apply
<1> HIDE DEF key
<1>4. \A x \in Seq(Message) : Apply(u, x, gen) \in Seq(Message)
  BY <1>3, WithoutType
<1> HIDE DEF u
<1>5. messages' = Without(messages, key)
  <2>1. <<>> \o <<u>> = <<u>> /\ Tail(<<u>>) = <<>> /\ Head(<<u>>) = u
    <3> DEFINE e == <<>>
    <3>1. e \in Seq({u}) /\ e = <<>>
      OBVIOUS
    <3>2. e \o <<u>> = <<u>>
      OBVIOUS
    <3> QED
      BY <3>1, <3>2
  <2>2. RunUpdates(<<u>>, messages, gen) = Apply(u, messages, gen)
    BY <1>2, <1>4, RunOne
  <2>3. \/ messages' = RunUpdates(<<u>>, messages, gen)
        \/ messages' = RunUpdates(<<>>, Apply(u, messages, gen), gen)
    BY <1>1, <1>2, <2>1 DEF Commit
  <2> QED
    BY <1>3, <2>2, <2>3, RunNone
<1>6. messages \in Seq(M)
  <2>1. messages \in [1..Len(messages) -> Message] /\ DOMAIN messages = 1..Len(messages) /\ Len(messages) \in Nat
    BY <1>2
  <2>2. \A j \in 1..Len(messages) : messages[j] \in M
    BY <1>2, <2>1 DEF Clean, Settled
  <2> HIDE DEF M
  <2> QED
    BY <2>1, <2>2
<1> DEFINE r == Without(messages, key)
<1>7. r \in Seq(M)
  <2> HIDE DEF M
  <2> QED
    BY <1>6, WithoutType
<1> HIDE DEF r
<1>8. r \in Ready(lost)
  <2>1. \A j \in DOMAIN r : r[j] \in M
    <3> HIDE DEF M
    <3> QED
      BY <1>7
  <2>2. r \in Seq(Message)
    <3>1. M \subseteq Message
      OBVIOUS
    <3> HIDE DEF M
    <3> QED
      BY <1>7, <3>1
  <2> QED
    BY <2>1, <2>2 DEF Ready, Clean, Settled
<1>9. messages' = r
  BY <1>5 DEF r
<1> QED
  BY <1>1, <1>8, <1>9, ReplacedChat DEF Commit

LEMMA HandleClearMessagesChat ==
    ASSUME ChatOK, HandleClearMessages
    PROVE  ChatOK'
<1> DEFINE e == <<>>
<1>1. /\ mounted /\ ~shown
      /\ UNCHANGED <<ctlVars, chatVars, requesting, streaming, mounted, histVars>>
      /\ Commit(<<Set(e)>>, gen, gen)
  BY DEF HandleClearMessages
<1>2. e \in Seq(Message) /\ e \in Ready(lost)
  <2>1. e \in Seq(Message) /\ e \in Tidy(lost) /\ Settled(e)
    BY NoMessages
  <2> QED
    BY <2>1 DEF Ready, Tidy
<1> HIDE DEF e
<1>3. /\ messages' = e /\ latest' = e /\ queue' = <<>> /\ saveTimer' = TRUE
      /\ storage' = storage /\ shown' = (requesting' \/ streaming')
  BY <1>1, <1>2, CommitSet
<1> QED
  BY <1>1, <1>2, <1>3, ReplacedChat

\* The update of a stop, whose generation is the one after the answer's.
LEMMA StopTalk ==
    ASSUME NEW g \in Nat, NEW l \in BOOLEAN, NEW ms \in Talk(g, l)
    PROVE  /\ Apply(Upd("stopped", g + 1), ms, g + 1) \in Tidy(l)
           /\ ~l => Settled(Apply(Upd("stopped", g + 1), ms, g + 1))
<1> DEFINE u == Upd("stopped", g + 1)
           m == ms[Len(ms)]
           x == IF IsPending(m) THEN Complete(m) ELSE m
           r == [ms EXCEPT ![Len(ms)] = x]
<1>1. ms \in Seq(Message) /\ ms # <<>> /\ Last(ms).from = "assistant" /\ Last(ms).req = g /\ Clean(ms)
  BY DEF Talk, Tidy, Awaits
<1>2. m \in Message /\ m.from = "assistant" /\ m.req = g /\ Len(ms) \in DOMAIN ms
  BY <1>1 DEF Last
<1>3. m.src \subseteq {g}
  BY <1>1, <1>2 DEF Clean
<1>4. u.op = "stopped" /\ u.gen = g + 1
  BY DEF Upd
<1> HIDE DEF u
<1>5. Apply(u, ms, g + 1) = r
  <2>1. Apply(u, ms, g + 1) = [ms EXCEPT ![Len(ms)] = UpdateLast(u, m)]
    BY <1>1, <1>4 DEF Apply
  <2>2. UpdateLast(u, m) = x
    BY <1>4 DEF UpdateLast
  <2> QED
    BY <2>1, <2>2
<1>6. x \in Message /\ x.from = "assistant" /\ x.req = g /\ x.src \subseteq {g} /\ ~IsPending(x)
  <2> HIDE DEF m
  <2> QED
    BY <1>2, <1>3 DEF IsPending, Complete, Message
<1> HIDE DEF x
<1>7. r \in Talk(g, l) /\ (~l => Settled(r))
  BY <1>6, ReplaceTalk
<1> QED
  BY <1>5, <1>7 DEF Talk, u

LEMMA StopGenerationChat ==
    ASSUME ChatOK, StopGeneration
    PROVE  ChatOK'
<1>0. ControlOK /\ DataOK
  BY ChatIs
<1>1. ControlOK'
  BY <1>0, StopControl
<1> DEFINE h == gen + 1
           u == Upd("stopped", h)
           at == IF Flushed(gen) = <<>> THEN h ELSE gen
<1>2. /\ gen \in Nat /\ h \in Nat /\ lost \in BOOLEAN /\ messages \in Seq(Message)
      /\ queue \in Seq(Updates(gen))
  BY <1>0 DEF ControlOK, ControlType, DataOK, QueueInv
<1>3. /\ shown /\ gen' = h /\ requesting' = FALSE /\ streaming' = FALSE /\ intact' = FALSE
      /\ pending' = [gen |-> h, text |-> NoText, src |-> {}]
      /\ recv' = recv /\ cut' = cut /\ lost' = lost
      /\ Commit(Flushed(gen) \o <<u>>, at, h)
  BY DEF StopGeneration, DiscardPending
<1>4. u \in Updates(h)
  BY DEF Upd, Updates, NoText, Text
<1> HIDE DEF u
<1>5. messages \in Talk(gen, lost) /\ RunUpdates(queue, messages, h) \in Talk(gen, lost)
  BY <1>3, QueueKeeps
<1>6. \E x \in Talk(gen, lost) : messages' = Apply(u, x, h)
  <2>1. CASE Flushed(gen) = <<>>
    <3>1. Flushed(gen) \o <<u>> = <<u>> /\ Tail(<<u>>) = <<>> /\ Head(<<u>>) = u /\ at = h
      BY <2>1
    <3>2. \/ messages' = RunUpdates(queue \o <<u>>, messages, h)
          \/ messages' = RunUpdates(<<>>, Apply(u, messages, h), h)
      BY <1>3, <3>1 DEF Commit
    <3>3. RunUpdates(queue \o <<u>>, messages, h) = Apply(u, RunUpdates(queue, messages, h), h)
      BY <1>2, <1>4, RunMore
    <3> QED
      BY <1>5, <3>2, <3>3, RunNone
  <2>2. CASE Flushed(gen) # <<>>
    <3> DEFINE v == [op |-> "chunk", gen |-> gen, text |-> pending.text, src |-> pending.src]
               S == {u, v}
    <3>1. Flushed(gen) = <<v>> /\ pending.gen = gen /\ at = gen
      BY <2>2 DEF Flushed
    <3>2. v \in Updates(gen) /\ v.op # "set"
      <4>1. pending.text \in Text /\ pending.src \subseteq {gen}
        BY <1>0, <3>1 DEF ControlOK, ControlType, DataOK, ConversationInv
      <4> QED
        BY <4>1 DEF Updates
    <3> HIDE DEF v, at
    <3>3. Flushed(gen) \o <<u>> = <<v, u>> /\ Tail(<<v, u>>) = <<u>> /\ Head(<<v, u>>) = v
      <4>1. u \in S /\ v \in S
        OBVIOUS
      <4> HIDE DEF S
      <4>2. <<v>> \o <<u>> = <<v, u>>
        BY <4>1, TailOfTwo
      <4> QED
        BY <3>1, <4>2
    <3>4. \/ messages' = RunUpdates(queue \o <<v, u>>, messages, h)
          \/ messages' = RunUpdates(<<u>>, Apply(v, messages, gen), h)
      BY <1>3, <3>1, <3>3 DEF Commit
    <3>5. \A k : \A x \in Talk(gen, lost) : Apply(v, x, k) \in Talk(gen, lost)
      BY <1>2, <3>2, ApplyTalk
    <3>6. RunUpdates(queue \o <<v, u>>, messages, h)
          = Apply(u, Apply(v, RunUpdates(queue, messages, h), h), h)
      BY <1>2, <1>4, <3>2, RunTwoMore
    <3>7. RunUpdates(<<u>>, Apply(v, messages, gen), h) = Apply(u, Apply(v, messages, gen), h)
      <4>1. Apply(v, messages, gen) \in Seq(Message)
        BY <1>2, <3>2, ApplyType
      <4>2. \A x \in Seq(Message) : Apply(u, x, h) \in Seq(Message)
        BY <1>2, <1>4, ApplyType
      <4> QED
        BY <4>1, <4>2, RunOne
    <3> QED
      BY <1>5, <3>4, <3>5, <3>6, <3>7
  <2> QED
    BY <2>1, <2>2
<1>7. messages' \in Tidy(lost) /\ (~lost => Settled(messages'))
  BY <1>2, <1>6, StopTalk DEF u
<1>8. latest' = messages' /\ queue' = <<>> /\ saveTimer' = TRUE /\ storage' = storage /\ shown' = FALSE
  BY <1>3 DEF Commit
<1>9. Noted
  <2>1. pending'.src \subseteq {pending'.gen}
    BY <1>3
  <2>2. recv \in Text /\ cut \in BOOLEAN
    BY <1>0 DEF DataOK
  <2> QED
    BY <1>2, <1>3, <1>8, <2>1, <2>2 DEF Noted
<1>10. storage \in Tidy(lost)
  BY <1>0 DEF DataOK, ConversationInv, Tidy
<1>11. DataOK'
  BY <1>0, <1>3, <1>7, <1>8, <1>9, <1>10, RenderedData
<1> QED
  BY <1>1, <1>11, ChatIsNext

-----------------------------------------------------------------------------
(* The theorems.                                                           *)

LEMMA InitChat == Init => ChatOK
<1> SUFFICES ASSUME Init PROVE ChatOK
  OBVIOUS
<1>1. NoText \in Text
  BY DEF NoText, Text
<1>2. ControlType
  <2>1. pending \in [gen : Nat, text : Text, src : SUBSET Nat]
    <3>1. {} \in SUBSET Nat
      OBVIOUS
    <3> QED
      BY <1>1, <3>1 DEF Init
  <2> QED
    BY <2>1 DEF Init, ControlType, NoSource
<1>3. ControlInv
  BY DEF Init, ControlInv, RequestInv, BufferIsArmed, FlagInv, Live
<1>4. DataOK
  <2>1. messages = <<>> /\ latest = <<>> /\ storage = <<>> /\ queue = <<>> /\ shown = FALSE
    BY DEF Init
  <2>2. messages \in Tidy(lost) /\ latest \in Tidy(lost) /\ storage \in Tidy(lost) /\ Settled(messages)
    BY <2>1, NoMessages
  <2>3. View = messages
    BY <2>1, RunNone DEF View
  <2>4. QueueInv
    BY <2>1 DEF QueueInv
  <2>5. pending.src \subseteq {pending.gen}
    BY DEF Init
  <2>6. ConversationInv
    BY <2>1, <2>2, <2>3, <2>5 DEF ConversationInv, Tidy
  <2> QED
    BY <1>1, <2>2, <2>4, <2>6 DEF DataOK, Tidy, Init
<1> QED
  BY <1>2, <1>3, <1>4, ChatIs DEF ControlOK

LEMMA StutterChat ==
    ASSUME ChatOK, UNCHANGED vars
    PROVE  ChatOK'
<1>0. ControlOK /\ DataOK
  BY ChatIs
<1>1. /\ UNCHANGED <<ctlVars, chatVars, requesting, streaming, shown, queue, mounted>>
      /\ UNCHANGED <<lost, recv, intact, cut, messages, latest, saveTimer, storage, gen, pending>>
  BY DEF vars, flagVars, msgVars, uiVars, histVars, chatVars
<1>2. ControlOK'
  <2>1. mounted' \in BOOLEAN
    BY <1>0, <1>1 DEF ControlOK, ControlType
  <2> QED
    BY <1>0, <1>1, <2>1, QuietControl
<1>3. Noted
  BY <1>0, <1>1 DEF Noted, DataOK, ConversationInv, ControlOK, ControlType
<1>4. DataOK'
  BY <1>0, <1>1, <1>3, StillData
<1> QED
  BY <1>2, <1>4, ChatIsNext

LEMMA NextChat == ChatOK /\ [Next]_vars => ChatOK'
<1> SUFFICES ASSUME ChatOK, [Next]_vars PROVE ChatOK'
  OBVIOUS
<1>1. CASE HandleSendMessage
  BY <1>1, HandleSendMessageChat
<1>2. ASSUME NEW i \in DOMAIN messages, HandleRegenerateMessage(i) PROVE ChatOK'
  BY <1>2, HandleRegenerateMessageChat
<1>3. CASE HandleEditOpenChange \/ \E i \in DOMAIN messages : HandleEditMessage(i)
  BY <1>3, EditorChat
<1>4. CASE ApplyEdit
  BY <1>4, ApplyEditChat
<1>5. ASSUME NEW i \in DOMAIN messages, HandleDeleteMessage(i) PROVE ChatOK'
  BY <1>5, HandleDeleteMessageChat
<1>6. CASE HandleClearMessages
  BY <1>6, HandleClearMessagesChat
<1>7. CASE StopGeneration
  BY <1>7, StopGenerationChat
<1>8. ASSUME NEW w \in waits, HeadersReady(w) PROVE ChatOK'
  BY <1>8, HeadersReadyChat
<1>9. ASSUME NEW w \in waits, HeadersFail(w) PROVE ChatOK'
  BY <1>9, HeadersFailChat
<1>10. ASSUME NEW s \in open, SourceDelta(s) PROVE ChatOK'
  BY <1>10, SourceDeltaChat
<1>11. ASSUME NEW s \in open, SourceDone(s) PROVE ChatOK'
  BY <1>11, SourceDoneChat
<1>12. ASSUME NEW s \in open, SourceError(s) PROVE ChatOK'
  BY <1>12, SourceErrorChat
<1>13. ASSUME NEW s \in open, SourceCut(s) PROVE ChatOK'
  BY <1>13, SourceCutChat
<1>14. ASSUME NEW g \in calls, ChatCompletion(g) PROVE ChatOK'
  BY <1>14, ChatCompletionChat
<1>15. ASSUME NEW g \in calls, ChatCompletionFails(g) PROVE ChatOK'
  BY <1>15, ChatCompletionFailsChat
<1>16. CASE FlushTimer
  BY <1>16, FlushTimerChat
<1>17. CASE Render
  BY <1>17, RenderChat
<1>18. CASE SaveTimer
  BY <1>18, SaveTimerChat
<1>19. CASE Unmount \/ Crash
  BY <1>19, LeaveChat
<1>20. CASE Mount
  BY <1>20, MountChat
<1>21. CASE UNCHANGED vars
  BY <1>21, StutterChat
<1> QED
  BY <1>1, <1>2, <1>3, <1>4, <1>5, <1>6, <1>7, <1>8, <1>9, <1>10, <1>11, <1>12, <1>13, <1>14,
     <1>15, <1>16, <1>17, <1>18, <1>19, <1>20, <1>21 DEF Next

\* Requests, flags, buffer, queue and conversation agree in every state: the
\* inductive invariant of the playground.
THEOREM ChatInvariant == Spec => [](TypeOK /\ ChatInv)
<1>1. Init => ChatOK
  BY InitChat
<1>2. ChatOK /\ [Next]_vars => ChatOK'
  BY NextChat
<1>3. ChatOK => TypeOK /\ ChatInv
  BY DEF ChatOK
<1> QED
  BY <1>1, <1>2, <1>3, PTL DEF Spec

\* The headers of a stopped or superseded send open no source: at most one
\* request to the upstream is waiting or running, the one on display.
THEOREM OneRequestAtATime == Spec => []AtMostOneRequest
<1>1. TypeOK /\ ChatInv => AtMostOneRequest
  <2> SUFFICES ASSUME TypeOK, ChatInv PROVE AtMostOneRequest
    OBVIOUS
  <2> DEFINE live == {w \in waits : w.cg = cgen}
             a == [cg |-> cgen, gen |-> gen]
  <2>1. RequestInv /\ ControlType
    BY DEF ChatInv, ControlInv, TypeOK
  <2>2. live = {} \/ live = {a}
    BY <2>1 DEF RequestInv, ControlType
  <2>3. open = {} \/ \E s \in open : open = {s}
    BY <2>1 DEF RequestInv
  <2>4. calls = {} \/ calls = {gen}
    BY <2>1 DEF RequestInv
  <2>5. (live # {} => open = {} /\ calls = {}) /\ (open # {} => calls = {})
    BY <2>1 DEF RequestInv, Live
  <2>6. \A x \in live \cup open : x.gen = gen
    BY <2>1 DEF RequestInv
  <2> HIDE DEF live, a
  <2>7. /\ Cardinality(live) = IF live = {} THEN 0 ELSE 1
        /\ Cardinality(open) = IF open = {} THEN 0 ELSE 1
        /\ Cardinality(calls) = IF calls = {} THEN 0 ELSE 1
    BY <2>2, <2>3, <2>4, FS_EmptySet, FS_Singleton
  <2>8. Cardinality(live) + Cardinality(open) + Cardinality(calls) <= 1
    BY <2>5, <2>7
  <2>9. calls \subseteq {gen}
    BY <2>4
  <2> QED
    BY <2>6, <2>8, <2>9 DEF AtMostOneRequest, live
<1> QED
  BY <1>1, ChatInvariant, PTL

\* Buffered text is always about to be flushed: a flush timer of an old
\* generation never stands in the way of a new one.
THEOREM BufferIsAlwaysArmed == Spec => []BufferIsArmed
<1>1. TypeOK /\ ChatInv => BufferIsArmed
  BY DEF ChatInv, ControlInv
<1> QED
  BY <1>1, ChatInvariant, PTL

\* However stops, edits, regenerations, reloads and queued deltas interleave,
\* no message gets text or an error of an answer that is not its own.
THEOREM TextIsTheMessagesOwn == Spec => []NoForeignText
<1>1. TypeOK /\ ChatInv => NoForeignText
  BY DEF ChatInv, ConversationInv, Clean, NoForeignText
<1> QED
  BY <1>1, ChatInvariant, PTL

\* Once nothing is generated and all is rendered no message is left loading
\* or streaming, unless an edit was saved over a queued update.
THEOREM SpinnersEnd == Spec => []NoSpinnerLeft
<1>1. TypeOK /\ ChatInv => NoSpinnerLeft
  <2> SUFFICES ASSUME TypeOK, ChatInv, ~lost, queue = <<>>, ~requesting, ~streaming
               PROVE  \A i \in DOMAIN messages : ~IsPending(messages[i])
    BY DEF NoSpinnerLeft
  <2>1. View = messages
    BY NothingQueued DEF ChatOK
  <2>2. Settled(View)
    BY DEF ChatInv, ConversationInv
  <2> QED
    BY <2>1, <2>2 DEF Settled
<1> QED
  BY <1>1, ChatInvariant, PTL

\* Wherever the tab dies, what is in storage loads with no message loading or
\* streaming, although only one of them is repaired.
THEOREM ReloadsSettle == Spec => []ReloadIsSettled
<1>1. TypeOK /\ ChatInv => ReloadIsSettled
  <2> SUFFICES ASSUME TypeOK, ChatInv, ~lost
               PROVE  \A i \in DOMAIN Load(storage) : ~IsPending(Load(storage)[i])
    BY DEF ReloadIsSettled
  <2>1. storage \in Tidy(lost) /\ lost \in BOOLEAN
    BY DEF TypeOK, ChatInv, ConversationInv, Tidy
  <2>2. Settled(Load(storage))
    BY <2>1, LoadTidy
  <2> QED
    BY <2>2 DEF Settled
<1> QED
  BY <1>1, ChatInvariant, PTL

-----------------------------------------------------------------------------
(* The text of an answer.                                                  *)

LEMMA ConcatAssoc ==
    ASSUME NEW S, NEW a \in Seq(S), NEW b \in Seq(S), NEW c \in Seq(S)
    PROVE  (a \o b) \o c = a \o (b \o c)
<1> DEFINE x == (a \o b) \o c
           y == a \o (b \o c)
<1>1. Len(a) \in Nat /\ Len(b) \in Nat /\ Len(c) \in Nat
  OBVIOUS
<1>2. a \o b \in Seq(S) /\ b \o c \in Seq(S) /\ Len(a \o b) = Len(a) + Len(b) /\ Len(b \o c) = Len(b) + Len(c)
  OBVIOUS
<1>3. /\ x \in Seq(S) /\ y \in Seq(S)
      /\ Len(x) = Len(a) + Len(b) + Len(c) /\ Len(y) = Len(a) + Len(b) + Len(c)
  BY <1>1, <1>2
<1>4. ASSUME NEW i \in 1..(Len(a) + Len(b) + Len(c)) PROVE x[i] = y[i]
  <2>1. CASE i <= Len(a)
    <3>1. (a \o b)[i] = a[i] /\ i \in 1..Len(a \o b)
      BY <1>1, <1>2, <2>1
    <3>2. x[i] = (a \o b)[i]
      BY <1>1, <1>2, <3>1
    <3>3. y[i] = a[i]
      BY <1>1, <1>2, <2>1
    <3> QED
      BY <3>1, <3>2, <3>3
  <2>2. CASE Len(a) < i /\ i <= Len(a) + Len(b)
    <3>1. (a \o b)[i] = b[i - Len(a)] /\ i \in 1..Len(a \o b)
      BY <1>1, <1>2, <2>2
    <3>2. x[i] = (a \o b)[i]
      BY <1>1, <1>2, <3>1
    <3>3. y[i] = (b \o c)[i - Len(a)] /\ (b \o c)[i - Len(a)] = b[i - Len(a)]
      BY <1>1, <1>2, <2>2
    <3> QED
      BY <3>1, <3>2, <3>3
  <2>3. CASE Len(a) + Len(b) < i
    <3>1. x[i] = c[i - (Len(a) + Len(b))]
      BY <1>1, <1>2, <2>3
    <3>2. y[i] = (b \o c)[i - Len(a)]
      BY <1>1, <1>2, <2>3
    <3>3. (b \o c)[i - Len(a)] = c[(i - Len(a)) - Len(b)]
      BY <1>1, <1>2, <2>3
    <3>4. (i - Len(a)) - Len(b) = i - (Len(a) + Len(b))
      BY <1>1
    <3> QED
      BY <3>1, <3>2, <3>3, <3>4
  <2> QED
    BY <1>1, <2>1, <2>2, <2>3
<1> HIDE DEF x, y
<1>5. x = y
  BY <1>3, <1>4
<1> QED
  BY <1>5 DEF x, y

LEMMA ConcatLetters ==
    \A a, b, c \in Seq(Letters) : (a \o b) \o c = a \o (b \o c)
<1> TAKE a, b, c \in Seq(Letters)
<1> QED
  BY ConcatAssoc

\* What the parts of the script are, as the buffer and the messages need it.
LEMMA PartDelta ==
    ASSUME NEW k \in 0..(Len(Script) - 1)
    PROVE  Part(k, k + 1)[Script[k + 1].type] = Script[k + 1].text
<1> DEFINE d == Script[k + 1]
<1>1. k \in 0..Len(Script) /\ k \in 0..k /\ k + 1 \in 1..Len(Script)
  BY ScriptAssumption
<1>2. d \in [type : {"reasoning", "content"}, text : Seq(Letters)]
  BY <1>1, ScriptLetters
<1>3. Part(k, k + 1) = Join(NoText, d)
  BY <1>1, PartNone, PartMore
<1> HIDE DEF d
<1>4. <<>> \o d.text = d.text
  BY <1>2
<1>5. d.type = "reasoning" \/ d.type = "content"
  BY <1>2
<1>6. Join(NoText, d)[d.type] = d.text
  <2>1. NoText \in Text /\ NoText.reasoning = <<>> /\ NoText.content = <<>>
    BY DEF NoText, Text
  <2>2. NoText[d.type] = <<>>
    BY <1>5, <2>1
  <2>3. Join(NoText, d)[d.type] = NoText[d.type] \o d.text
    BY <1>5, <2>1 DEF Join, Text
  <2> QED
    BY <1>4, <2>2, <2>3
<1> QED
  BY <1>3, <1>6 DEF d

\* The buffer takes a delta for a continuation.
LEMMA MergeIs ==
    ASSUME NoEcho, NEW k \in 0..(Len(Script) - 1), NEW i \in 0..k
    PROVE  MergePending(Part(i, k)[Script[k + 1].type], Script[k + 1].text)
             = Part(i, k)[Script[k + 1].type] \o Script[k + 1].text
<1> DEFINE d == Script[k + 1]
           t == d.type
<1>1. Len(Script) \in Nat
  BY ScriptAssumption
<1>2. k + 1 \in 1..Len(Script) /\ i \in 0..Len(Script) /\ k \in 0..Len(Script) /\ k + 1 \in 0..Len(Script)
      /\ i <= k /\ k <= k + 1
  BY <1>1
<1>3. t \in {"reasoning", "content"}
  BY <1>2, ScriptLetters
<1>4. Part(k, k + 1)[t] = d.text
  BY PartDelta
<1> HIDE DEF d, t
<1>5. Part(i, k)[t] # <<>> => ~IsPrefix(Part(i, k)[t], Part(k, k + 1)[t])
  BY <1>2, <1>3 DEF NoEcho
<1>6. MergePending(Part(i, k)[t], d.text) = Part(i, k)[t] \o d.text
  BY <1>4, <1>5 DEF MergePending
<1> QED
  BY <1>6 DEF d, t

\* A message takes a flush for a continuation.
LEMMA FlushNoEcho ==
    ASSUME NoEcho, NEW k \in 0..Len(Script), NEW i \in 0..k, NEW t \in {"reasoning", "content"}
    PROVE  Appendable(Part(0, i)[t], Part(i, k)[t]) = Part(i, k)[t]
<1>1. i \in 0..Len(Script) /\ 0 \in 0..Len(Script) /\ 0 <= i /\ i <= k
  BY ScriptAssumption
<1>2. Part(0, i)[t] # <<>> => ~IsPrefix(Part(0, i)[t], Part(i, k)[t])
  BY <1>1 DEF NoEcho
<1> QED
  BY <1>2 DEF Appendable

LEMMA ChunkAdds ==
    ASSUME NEW m \in Message, IsPending(m), NEW t \in {"reasoning", "content"},
           NEW chunk \in Seq(Letters), Appendable(m.text[t], chunk) = chunk
    PROVE  /\ IsPending(ApplyChunk(m, t, chunk))
           /\ ApplyChunk(m, t, chunk).text = [m.text EXCEPT ![t] = @ \o chunk]
<1>1. m.text.reasoning \in Seq(Letters) /\ m.text.content \in Seq(Letters) /\ m.text \in Text
  BY DEF Message, Text
<1>0. m.status # "error"
  BY DEF IsPending
<1>2. CASE chunk = <<>>
  <2>1. m.text[t] \o chunk = m.text[t]
    BY <1>1, <1>2
  <2>2. [m.text EXCEPT ![t] = @ \o chunk] = m.text
    BY <1>1, <2>1 DEF Text
  <2> QED
    BY <1>2, <2>2 DEF ApplyChunk
<1>3. CASE chunk # <<>>
  <2>1. ApplyChunk(m, t, chunk) = [m EXCEPT !.text[t] = @ \o Appendable(@, chunk), !.status = "streaming"]
    BY <1>0, <1>3 DEF ApplyChunk
  <2>2. ApplyChunk(m, t, chunk) = [m EXCEPT !.text = [m.text EXCEPT ![t] = m.text[t] \o chunk], !.status = "streaming"]
    BY <2>1 DEF Message
  <2> QED
    BY <1>1, <2>2 DEF Message, Text, IsPending
<1> QED
  BY <1>2, <1>3

\* A flush adds the buffer to the text.
LEMMA FlushAdds ==
    ASSUME NoEcho, NEW k \in 0..Len(Script), NEW i \in 0..k, NEW g \in Nat,
           NEW m \in Message, IsPending(m), m.text = Part(0, i),
           NEW u \in Updates(g), u.op = "chunk", u.text = Part(i, k)
    PROVE  LET x == UpdateLast(u, m)
           IN  /\ IsPending(x)
               /\ x.text.reasoning = m.text.reasoning \o u.text.reasoning
               /\ x.text.content = m.text.content \o u.text.content
<1> DEFINE n == ApplyChunk(m, "reasoning", u.text.reasoning)
           q == ApplyChunk(n, "content", u.text.content)
<1>1. u.text.reasoning \in Seq(Letters) /\ u.text.content \in Seq(Letters) /\ m.text \in Text
  BY DEF Updates, Text, Message
<1>2. /\ Appendable(m.text.reasoning, u.text.reasoning) = u.text.reasoning
      /\ Appendable(m.text.content, u.text.content) = u.text.content
  BY FlushNoEcho
<1>3. n \in Message
  BY <1>1, ApplyChunkType
<1>4. IsPending(n) /\ n.text = [m.text EXCEPT !.reasoning = @ \o u.text.reasoning]
  BY <1>1, <1>2, ChunkAdds
<1> HIDE DEF n
<1>5. n.text.content = m.text.content /\ n.text.reasoning = m.text.reasoning \o u.text.reasoning
  BY <1>1, <1>4 DEF Text
<1>6. q \in Message
  BY <1>1, <1>3, ApplyChunkType
<1>7. IsPending(q) /\ q.text = [n.text EXCEPT !.content = @ \o u.text.content]
  BY <1>1, <1>2, <1>3, <1>4, <1>5, ChunkAdds
<1> HIDE DEF q
<1>8. n.text \in Text
  BY <1>3 DEF Message
<1>9. q.text.content = m.text.content \o u.text.content /\ q.text.reasoning = m.text.reasoning \o u.text.reasoning
  BY <1>5, <1>7, <1>8 DEF Text
<1>10. UpdateLast(u, m) = [q EXCEPT !.src = @ \cup u.src]
  BY DEF UpdateLast, q, n
<1>11. UpdateLast(u, m).status = q.status /\ UpdateLast(u, m).text = q.text
  BY <1>6, <1>10 DEF Message
<1> QED
  BY <1>7, <1>9, <1>11 DEF IsPending

LEMMA SameText ==
    ASSUME NEW a \in Text, NEW b \in Text, a.reasoning = b.reasoning, a.content = b.content
    PROVE  a = b
  BY DEF Text

WholeIn(ms, g, p, r) == \A i \in DOMAIN ms : Whole(ms[i], g, p, r)

\* x is ms with the last message made m.
Ending(x, ms, m) ==
    /\ Len(ms) \in Nat /\ Len(ms) >= 1 /\ DOMAIN ms = 1..Len(ms)
    /\ Len(x) = Len(ms) /\ DOMAIN x = 1..Len(ms)
    /\ \A i \in 1..(Len(ms) - 1) : x[i] = ms[i]
    /\ x[Len(ms)] = m /\ Last(x) = m /\ Last(ms) = ms[Len(ms)]

\* An update run on a conversation that awaits the answer of its generation
\* changes the last message, and no other.
LEMMA AnswerUpdated ==
    ASSUME NEW g \in Nat, NEW l \in BOOLEAN, NEW ms \in Talk(g, l), NEW u \in Updates(g), u.op # "set"
    PROVE  /\ Apply(u, ms, g) \in Talk(g, l)
           /\ Ending(Apply(u, ms, g), ms, UpdateLast(u, Last(ms)))
           /\ Last(ms) \in Message /\ IsAnswer(Last(ms), g)
           /\ UpdateLast(u, Last(ms)) \in Message /\ IsAnswer(UpdateLast(u, Last(ms)), g)
<1> DEFINE r == Apply(u, ms, g)
           x == UpdateLast(u, Last(ms))
           n == Len(ms)
<1>1. ms \in Seq(Message) /\ ms # <<>> /\ Last(ms).from = "assistant" /\ Last(ms).req = g
  BY DEF Talk, Tidy, Awaits
<1>2. n \in Nat /\ n >= 1 /\ n \in 1..n /\ DOMAIN ms = 1..n /\ Last(ms) = ms[n] /\ ms[n] \in Message
  BY <1>1 DEF Last
<1>3. u.op \in {"chunk", "complete", "stopped", "answer", "error"} /\ u.gen = g
  BY DEF Updates
<1>4. r = [ms EXCEPT ![n] = x]
  BY <1>1, <1>2, <1>3 DEF Apply
<1>5. x \in Message /\ x.from = "assistant" /\ x.req = g
  BY <1>1, <1>2, UpdateLastKeeps
<1>6. r \in Talk(g, l)
  BY ApplyTalk
<1> HIDE DEF x
<1>7. /\ Len(r) = n /\ r \in Seq(Message)
      /\ \A i \in 1..n : r[i] = IF i = n THEN x ELSE ms[i]
  BY <1>1, <1>4, <1>5, ReplaceLast
<1> HIDE DEF r
<1>8. DOMAIN r = 1..n /\ Last(r) = x /\ r[n] = x
  <2>1. r[n] = x
    BY <1>2, <1>7
  <2>2. DOMAIN r = 1..Len(r) /\ Last(r) = r[Len(r)]
    BY <1>7 DEF Last
  <2> HIDE DEF n
  <2> QED
    BY <1>7, <2>1, <2>2
<1>9. ASSUME NEW i \in 1..(n - 1) PROVE r[i] = ms[i]
  <2>1. i \in 1..n /\ i # n
    <3> HIDE DEF n
    <3> QED
      BY <1>2
  <2> QED
    BY <1>7, <2>1
<1>10. Ending(r, ms, x)
  BY <1>2, <1>7, <1>8, <1>9 DEF Ending
<1> QED
  BY <1>1, <1>2, <1>5, <1>6, <1>10 DEF r, x, IsAnswer

\* What every message but the last has, and the last after the update.
LEMMA WholeEnding ==
    ASSUME NEW x, NEW ms, NEW m, Ending(x, ms, m), NEW g, NEW p, NEW r,
           \A i \in 1..(Len(ms) - 1) : Whole(ms[i], g, p, r), Whole(m, g, p, r)
    PROVE  WholeIn(x, g, p, r)
<1> SUFFICES ASSUME NEW i \in 1..Len(ms) PROVE Whole(x[i], g, p, r)
  BY DEF WholeIn, Ending
<1>1. i = Len(ms) \/ i \in 1..(Len(ms) - 1)
  <2>1. Len(ms) \in Nat /\ Len(ms) >= 1
    BY DEF Ending
  <2> QED
    BY <2>1
<1> QED
  BY <1>1 DEF Ending

\* A flush of the buffer p.
LEMMA FlushFollows ==
    ASSUME NoEcho, NEW g \in Nat, NEW l \in BOOLEAN, NEW ms \in Talk(g, l), NEW p \in Text, NEW r \in Text,
           NEW os, NEW on, WholeIn(ms, g, p, r), Following(ms, g, p, r, os, on),
           NEW u \in Updates(g), u.op = "chunk", u.text = p
    PROVE  /\ WholeIn(Apply(u, ms, g), g, NoText, r)
           /\ Following(Apply(u, ms, g), g, NoText, r, os, on)
<1> DEFINE x == Apply(u, ms, g)
           m == Last(ms)
           w == UpdateLast(u, m)
<1>1. x \in Talk(g, l) /\ Ending(x, ms, w) /\ m \in Message /\ IsAnswer(m, g) /\ w \in Message /\ IsAnswer(w, g)
  BY AnswerUpdated
<1>2. PICK i, k \in 0..Len(Script) : /\ i <= k /\ InStep(m, p, r, i, k)
                                     /\ \A s \in os : s.pos = k
                                     /\ ~on => k = 0
  BY DEF Following, Streams
<1>3. i \in 0..k /\ k \in Nat
  BY <1>2, ScriptAssumption
<1>4. IsPending(m) /\ m.text = Part(0, i) /\ p = Part(i, k) /\ r = Part(0, k)
  BY <1>2 DEF InStep
<1>5. /\ IsPending(w)
      /\ w.text.reasoning = m.text.reasoning \o p.reasoning
      /\ w.text.content = m.text.content \o p.content
  <2>1. u.text = Part(i, k)
    BY <1>4
  <2>2. m \in Message /\ IsPending(m) /\ m.text = Part(0, i)
    BY <1>1, <1>4
  <2> HIDE DEF m
  <2>3. /\ IsPending(w)
        /\ w.text.reasoning = m.text.reasoning \o u.text.reasoning
        /\ w.text.content = m.text.content \o u.text.content
    BY <1>3, <2>1, <2>2, FlushAdds
  <2> QED
    BY <2>3
<1>6. Whole(m, g, p, r)
  <2>1. Len(ms) \in DOMAIN ms /\ m = ms[Len(ms)]
    BY <1>1 DEF Ending
  <2> QED
    BY <2>1 DEF WholeIn
<1>7. w.text.reasoning = r.reasoning /\ w.text.content = r.content
  BY <1>1, <1>4, <1>5, <1>6 DEF Whole, IsPending
<1> HIDE DEF x, m, w
<1>8. w.text = r
  <2>1. w.text \in Text
    BY <1>1 DEF Message
  <2> QED
    BY <1>7, <2>1, SameText
<1>9. InStep(w, NoText, r, k, k)
  BY <1>2, <1>4, <1>5, <1>8, PartNone DEF InStep
<1>10. Streams(w, NoText, r, os, on)
  BY <1>2, <1>3, <1>9 DEF Streams
<1>11. \A j \in 1..(Len(ms) - 1) : ~IsAnswer(ms[j], g)
  BY DEF Following
<1>12. Following(x, g, NoText, r, os, on)
  <2>1. Len(x) = Len(ms) /\ Last(x) = w /\ \A j \in 1..(Len(ms) - 1) : x[j] = ms[j]
    BY <1>1 DEF Ending
  <2> QED
    BY <1>10, <1>11, <2>1 DEF Following
<1>13. Whole(w, g, NoText, r)
  <2>1. r.reasoning \o NoText.reasoning = r.reasoning /\ r.content \o NoText.content = r.content
    BY DEF Text, NoText
  <2> QED
    BY <1>8, <2>1 DEF Whole
<1>14. WholeIn(x, g, NoText, r)
  <2>1. \A j \in 1..(Len(ms) - 1) : Whole(ms[j], g, NoText, r)
    BY <1>11 DEF Whole
  <2> QED
    BY <1>1, <1>13, <2>1, WholeEnding
<1> QED
  BY <1>12, <1>14 DEF x

\* The end of a stream, or its failure.
LEMMA EndWhole ==
    ASSUME NEW g \in Nat, NEW l \in BOOLEAN, NEW ms \in Talk(g, l), NEW p, NEW r,
           WholeIn(ms, g, p, r), NEW u \in Updates(g), u.op \in {"complete", "error"}
    PROVE  WholeIn(Apply(u, ms, g), g, p, r)
<1> DEFINE x == Apply(u, ms, g)
           m == Last(ms)
           w == UpdateLast(u, m)
<1>1. Ending(x, ms, w) /\ m \in Message /\ IsAnswer(m, g) /\ w \in Message
  BY AnswerUpdated
<1>2. Whole(m, g, p, r) /\ \A j \in 1..(Len(ms) - 1) : Whole(ms[j], g, p, r)
  <2>1. Len(ms) \in DOMAIN ms /\ m = ms[Len(ms)] /\ \A j \in 1..(Len(ms) - 1) : j \in DOMAIN ms
    BY <1>1 DEF Ending
  <2> QED
    BY <2>1 DEF WholeIn
<1>3. Whole(w, g, p, r)
  <2>1. CASE u.op = "complete"
    <3>1. w = IF IsFinal(m) THEN m ELSE Complete(m)
      BY <2>1 DEF UpdateLast
    <3> HIDE DEF w, m
    <3>2. CASE IsFinal(m)
      BY <1>2, <3>1, <3>2
    <3>3. CASE ~IsFinal(m)
      <4>1. w.text = m.text /\ m.status # "error"
        BY <1>1, <3>1, <3>3 DEF Complete, Message, IsFinal
      <4> QED
        BY <1>1, <1>2, <4>1 DEF Whole
    <3> QED
      BY <3>2, <3>3
  <2>2. CASE u.op = "error"
    <3>1. w = [m EXCEPT !.text.content = <<"error">>, !.status = "error", !.src = @ \cup {u.gen}]
      BY <2>2 DEF UpdateLast
    <3> HIDE DEF w, m
    <3>2. w.status = "error"
      BY <1>1, <3>1 DEF Message
    <3> QED
      BY <3>2 DEF Whole
  <2> QED
    BY <2>1, <2>2
<1> HIDE DEF x, w, m
<1> QED
  BY <1>1, <1>2, <1>3, WholeEnding DEF x

\* The answer of a request without streaming.
LEMMA AnswerWhole ==
    ASSUME NEW g \in Nat, NEW l \in BOOLEAN, NEW ms \in Talk(g, l), NEW r \in Text,
           \A i \in 1..(Len(ms) - 1) : ~IsAnswer(ms[i], g),
           NEW u \in Updates(g), u.op = "answer", u.text = r
    PROVE  WholeIn(Apply(u, ms, g), g, NoText, r)
<1> DEFINE x == Apply(u, ms, g)
           m == Last(ms)
           w == UpdateLast(u, m)
<1>1. Ending(x, ms, w) /\ m \in Message
  BY AnswerUpdated
<1>2. w = [Complete(m) EXCEPT !.text = r, !.src = @ \cup {u.gen}]
  BY DEF UpdateLast
<1> HIDE DEF w, m
<1>3. w.text = r
  BY <1>1, <1>2 DEF Complete, Message
<1>4. r.reasoning \o NoText.reasoning = r.reasoning /\ r.content \o NoText.content = r.content
  BY DEF Text, NoText
<1>5. Whole(w, g, NoText, r) /\ \A j \in 1..(Len(ms) - 1) : Whole(ms[j], g, NoText, r)
  BY <1>3, <1>4 DEF Whole
<1> HIDE DEF x
<1> QED
  BY <1>1, <1>5, WholeEnding DEF x

-----------------------------------------------------------------------------
(* Generations of the messages, and what is queued for the last of them.   *)

LEMMA DatedIs ==
    ASSUME NEW g \in Nat, NEW ms \in Dated(g)
    PROVE  ms \in Seq(Message) /\ \A i \in 1..Len(ms) : ms[i] \in Message /\ ms[i].req <= g
<1> DEFINE M == {m \in Message : m.req <= g}
<1>1. ms \in Seq(M) /\ M \subseteq Message
  BY DEF Dated
<1>2. \A i \in 1..Len(ms) : ms[i] \in M
  <2> HIDE DEF M
  <2> QED
    BY <1>1, ElementType
<1>3. ms \in Seq(Message)
  <2> HIDE DEF M
  <2>1. Len(ms) \in Nat /\ ms = [i \in 1..Len(ms) |-> ms[i]]
    BY <1>1
  <2>2. [i \in 1..Len(ms) |-> ms[i]] \in Seq(Message)
    BY <1>1, <1>2, <2>1
  <2> QED
    BY <2>1, <2>2
<1> QED
  BY <1>2, <1>3

LEMMA DatedFrom ==
    ASSUME NEW g \in Nat, NEW ms \in Seq(Message), \A i \in 1..Len(ms) : ms[i].req <= g
    PROVE  ms \in Dated(g)
<1> DEFINE M == {m \in Message : m.req <= g}
<1>1. \A i \in 1..Len(ms) : ms[i] \in M
  BY ElementType
<1> HIDE DEF M
<1>2. Len(ms) \in Nat /\ ms = [i \in 1..Len(ms) |-> ms[i]]
  OBVIOUS
<1>3. [i \in 1..Len(ms) |-> ms[i]] \in Seq(M)
  BY <1>1, <1>2
<1> QED
  BY <1>2, <1>3 DEF M, Dated

LEMMA DatedLater ==
    ASSUME NEW g \in Nat, NEW ms \in Dated(g)
    PROVE  ms \in Dated(g + 1)
<1>1. ms \in Seq(Message) /\ \A i \in 1..Len(ms) : ms[i] \in Message /\ ms[i].req <= g
  BY DatedIs
<1>2. \A i \in 1..Len(ms) : ms[i].req <= g + 1
  BY <1>1 DEF Message
<1> QED
  BY <1>1, <1>2, DatedFrom

LEMMA ApplyDated ==
    ASSUME NEW g \in Nat, NEW k \in Nat, NEW h, NEW u \in Updates(k),
           u.op = "set" => u.msgs \in Dated(g), NEW ms \in Dated(g)
    PROVE  Apply(u, ms, h) \in Dated(g)
<1>1. CASE u.op = "set"
  BY <1>1 DEF Apply
<1>2. CASE u.op # "set"
  <2> DEFINE n == Len(ms)
             x == UpdateLast(u, ms[n])
             r == [ms EXCEPT ![n] = x]
  <2>1. u.op \in {"chunk", "complete", "stopped", "answer", "error"}
    BY <1>2 DEF Updates
  <2>2. Apply(u, ms, h) = ms \/ (ms # <<>> /\ Apply(u, ms, h) = r)
    BY <2>1 DEF Apply
  <2>3. ASSUME ms # <<>> PROVE r \in Dated(g)
    <3>1. ms \in Seq(Message) /\ \A i \in 1..n : ms[i] \in Message /\ ms[i].req <= g
      BY DatedIs
    <3>2. n \in 1..n
      BY <2>3, <3>1
    <3>3. x \in Message /\ x.req = ms[n].req
      BY <1>2, <3>1, <3>2, UpdateLastKeeps
    <3> HIDE DEF x
    <3>4. /\ r \in Seq(Message) /\ Len(r) = n
          /\ \A i \in 1..n : r[i] = IF i = n THEN x ELSE ms[i]
      BY <2>3, <3>1, <3>3, ReplaceLast
    <3> HIDE DEF r, n
    <3>5. \A i \in 1..Len(r) : r[i].req <= g
      BY <3>1, <3>2, <3>3, <3>4
    <3> QED
      BY <3>4, <3>5, DatedFrom
  <2> QED
    BY <2>2, <2>3
<1> QED
  BY <1>1, <1>2

LEMMA QueueDated ==
    ASSUME ChatOK, KnownInv, NEW h
    PROVE  /\ messages \in Dated(gen) /\ Keep(queue, h, Dated(gen))
           /\ RunUpdates(queue, messages, h) \in Dated(gen)
<1>1. gen \in Nat /\ queue \in Seq(Updates(gen)) /\ messages \in Dated(gen)
  BY DEF ChatOK, ChatInv, TypeOK, ControlType, QueueInv, KnownInv
<1>2. ASSUME NEW i \in 1..Len(queue), NEW x \in Dated(gen)
      PROVE  Apply(queue[i], x, h) \in Dated(gen)
  <2>1. queue[i] \in Updates(gen) /\ i \in DOMAIN queue
    BY <1>1, ElementType
  <2>2. queue[i].op = "set" => queue[i].msgs \in Dated(gen)
    BY <2>1 DEF KnownInv
  <2> QED
    BY <1>1, <2>1, <2>2, ApplyDated
<1>3. Keep(queue, h, Dated(gen))
  BY <1>2 DEF Keep
<1> QED
  BY <1>1, <1>3, RunKeeps

\* What Enqueue makes of the view, and of the generations.
LEMMA EnqueueView ==
    ASSUME ChatOK, shown, gen' = gen, NEW us \in Seq(Updates(gen)), NEW u \in Updates(gen), u.op # "set",
           us = <<u>> \/ \E v \in Updates(gen) : v.op # "set" /\ us = <<v, u>>,
           Enqueue(us)
    PROVE  /\ us = <<u>> => View' = Apply(u, View, gen)
           /\ \A v \in Updates(gen) : us = <<v, u>> => View' = Apply(u, Apply(v, View, gen), gen)
           /\ KnownInv => KnownInv'
<1> USE DEF ChatOK, ChatInv
<1>1. gen \in Nat /\ messages \in Seq(Message) /\ queue \in Seq(Updates(gen))
  BY DEF TypeOK, ControlType, QueueInv
<1>2. CASE queue' = queue \o us /\ UNCHANGED <<messages, latest, saveTimer, storage>>
  <2>1. ASSUME us = <<u>> PROVE View' = Apply(u, View, gen)
    <3>1. View' = RunUpdates(queue \o <<u>>, messages, gen)
      BY <1>2, <2>1 DEF View
    <3> QED
      BY <1>1, <3>1, RunMore DEF View
  <2>2. ASSUME NEW v \in Updates(gen), us = <<v, u>> PROVE View' = Apply(u, Apply(v, View, gen), gen)
    <3>1. View' = RunUpdates(queue \o <<v, u>>, messages, gen)
      BY <1>2, <2>2 DEF View
    <3> QED
      BY <1>1, <3>1, RunTwoMore DEF View
  <2>3. ASSUME KnownInv PROVE KnownInv'
    <3>1. \A i \in 1..Len(us) : us[i].op # "set"
      OBVIOUS
    <3>2. ASSUME NEW i \in DOMAIN queue', queue'[i].op = "set"
          PROVE  i \in DOMAIN queue /\ queue'[i] = queue[i]
      <4>1. i \in 1..(Len(queue) + Len(us)) /\ Len(queue) \in Nat /\ Len(us) \in Nat
        BY <1>1, <1>2
      <4>2. CASE i \in 1..Len(queue)
        BY <1>1, <1>2, <4>2
      <4>3. CASE i \notin 1..Len(queue)
        <5>1. i - Len(queue) \in 1..Len(us) /\ queue'[i] = us[i - Len(queue)]
          BY <1>1, <1>2, <4>1, <4>3
        <5> QED
          BY <3>1, <3>2, <5>1
      <4> QED
        BY <4>2, <4>3
    <3> QED
      BY <1>2, <2>3, <3>2 DEF KnownInv
  <2> QED
    BY <2>1, <2>2, <2>3
<1> DEFINE ms == Apply(Head(us), messages, gen)
<1>3. CASE /\ queue = <<>> /\ queue' = <<Set(ms)>> \o Tail(us) /\ latest' = ms
           /\ saveTimer' = TRUE /\ UNCHANGED <<messages, storage>>
  <2>1. Head(us) \in Updates(gen) /\ Head(us).op # "set"
    OBVIOUS
  <2>2. ms \in Seq(Message)
    BY <1>1, <2>1, ApplyType
  <2>3. View = messages
    BY <1>3, NothingQueued
  <2>4. ASSUME KnownInv PROVE ms \in Dated(gen)
    <3>1. messages \in Dated(gen)
      BY <2>4 DEF KnownInv
    <3> QED
      BY <1>1, <2>1, <3>1, ApplyDated
  <2>0. (us = <<u>> => ms = Apply(u, View, gen)) /\ \A v : us = <<v, u>> => ms = Apply(v, View, gen)
    BY <2>3
  <2> HIDE DEF ms
  <2>5. /\ Set(ms) \in Updates(gen) /\ Set(ms).msgs = ms /\ Set(ms).op = "set"
        /\ \A x : Apply(Set(ms), x, gen) = ms
    BY <1>1, <2>2, SetIs
  <2>6. RunUpdates(<<Set(ms)>>, messages, gen) = ms
    BY <1>1, <2>2, <2>5, RunOne
  <2>7. ASSUME us = <<u>> PROVE View' = Apply(u, View, gen)
    <3>1. queue' = <<Set(ms)>>
      BY <1>3, <2>7
    <3>2. View' = ms
      BY <1>3, <2>6, <3>1 DEF View
    <3> QED
      BY <2>0, <2>7, <3>2
  <2>8. ASSUME NEW v \in Updates(gen), us = <<v, u>> PROVE View' = Apply(u, Apply(v, View, gen), gen)
    <3>1. queue' = <<Set(ms)>> \o <<u>> /\ <<Set(ms)>> \in Seq(Updates(gen))
      BY <1>3, <2>5, <2>8
    <3>2. View' = RunUpdates(<<Set(ms)>> \o <<u>>, messages, gen)
      BY <1>3, <3>1 DEF View
    <3>3. View' = Apply(u, RunUpdates(<<Set(ms)>>, messages, gen), gen)
      BY <1>1, <3>1, <3>2, RunMore
    <3> QED
      BY <2>0, <2>6, <2>8, <3>3
  <2>9. ASSUME NEW i \in DOMAIN queue', queue'[i].op = "set" PROVE queue'[i] = Set(ms)
    <3>1. CASE us = <<u>>
      BY <1>3, <2>9, <3>1
    <3>2. ASSUME NEW v \in Updates(gen), us = <<v, u>> PROVE queue'[i] = Set(ms)
      <4>1. queue' = <<Set(ms), u>>
        BY <1>3, <2>5, <3>2, TailOfTwo
      <4> QED
        BY <2>9, <4>1
    <3> QED
      BY <3>1, <3>2
  <2>10. ASSUME KnownInv PROVE KnownInv'
    BY <1>3, <2>4, <2>5, <2>9, <2>10 DEF KnownInv
  <2> QED
    BY <2>7, <2>8, <2>10
<1> QED
  BY <1>2, <1>3 DEF Enqueue

\* The flush of the buffer, as an update.
Chunk == [op |-> "chunk", gen |-> gen, text |-> pending.text, src |-> pending.src]

LEMMA FlushedIs ==
    ASSUME ChatOK
    PROVE  /\ Flushed(gen) = <<>> => pending.text = NoText
           /\ Flushed(gen) # <<>> => /\ Flushed(gen) = <<Chunk>> /\ Chunk \in Updates(gen)
                                     /\ pending.gen = gen /\ pending.text # NoText
<1>1. pending.text # NoText => pending.gen = gen
  BY DEF ChatOK, ChatInv, ControlInv, BufferIsArmed
<1>2. Flushed(gen) = IF pending.gen # gen \/ pending.text = NoText THEN <<>> ELSE <<Chunk>>
  BY DEF Flushed, Chunk
<1>3. Flushed(gen) = <<>> => pending.text = NoText
  <2>1. <<Chunk>> # <<>>
    OBVIOUS
  <2> QED
    BY <1>1, <1>2, <2>1
<1>4. ASSUME Flushed(gen) # <<>> PROVE Chunk \in Updates(gen)
  <2>1. pending.gen = gen
    BY <1>2, <1>4
  <2>2. pending.text \in Text /\ pending.src \subseteq {gen}
    BY <2>1 DEF ChatOK, TypeOK, ControlType, ChatInv, ConversationInv
  <2> QED
    BY <2>2 DEF Updates, Chunk
<1> QED
  BY <1>2, <1>3, <1>4

\* After a flush the buffer is empty.
LEMMA FlushStateIs ==
    ASSUME ChatOK, FlushState(gen)
    PROVE  pending'.text = NoText
<1>1. pending \in [gen : Nat, text : Text, src : SUBSET Nat] /\ (pending.text # NoText => pending.gen = gen)
  BY DEF ChatOK, ChatInv, ControlInv, BufferIsArmed, TypeOK, ControlType
<1> QED
  BY <1>1 DEF FlushState

LEMMA FlushedView ==
    ASSUME ChatOK, shown, gen' = gen, NEW u \in Updates(gen), u.op # "set",
           Enqueue(Flushed(gen) \o <<u>>)
    PROVE  /\ Flushed(gen) = <<>> => View' = Apply(u, View, gen)
           /\ Flushed(gen) # <<>> => View' = Apply(u, Apply(Chunk, View, gen), gen)
           /\ KnownInv => KnownInv'
<1>1. CASE Flushed(gen) = <<>>
  <2>1. Flushed(gen) \o <<u>> = <<u>> /\ <<u>> \in Seq(Updates(gen))
    BY <1>1
  <2> QED
    BY <1>1, <2>1, EnqueueView
<1>2. CASE Flushed(gen) # <<>>
  <2>1. Flushed(gen) = <<Chunk>> /\ Chunk \in Updates(gen)
    BY <1>2, FlushedIs
  <2>2. Chunk.op # "set"
    BY DEF Chunk
  <2>3. Flushed(gen) \o <<u>> = <<Chunk, u>>
    BY <2>1, TailOfTwo
  <2>4. <<Chunk, u>> \in Seq(Updates(gen))
    BY <2>1
  <2> QED
    BY <1>2, <2>1, <2>2, <2>3, <2>4, EnqueueView
<1> QED
  BY <1>1, <1>2

-----------------------------------------------------------------------------
(* The answer is whole: the turns that queue updates.                      *)

\* What the proofs below take from the invariant.
LEMMA AwaitedView ==
    ASSUME ChatOK, shown
    PROVE  View \in Talk(gen, lost) /\ gen \in Nat /\ lost \in BOOLEAN /\ pending.text \in Text /\ recv \in Text
<1>1. View \in Talk(gen, lost)
  BY QueueKeeps DEF View
<1> QED
  BY <1>1 DEF ChatOK, TypeOK, ControlType

\* The turn that ends a stream or fails it: what is buffered is flushed first.
LEMMA EndingTurn ==
    ASSUME NoEcho, ChatOK, KnownInv, WholeInv, shown, requesting \/ streaming,
           UNCHANGED <<gen, recv, intact, mounted>>, FlushState(gen),
           NEW u \in Updates(gen), u.op \in {"complete", "error"},
           Enqueue(Flushed(gen) \o <<u>>), requesting' = FALSE, streaming' = FALSE
    PROVE  KnownInv' /\ WholeInv'
<1>1. View \in Talk(gen, lost) /\ gen \in Nat /\ lost \in BOOLEAN /\ pending.text \in Text /\ recv \in Text
  BY AwaitedView
<1>2. pending'.text = NoText /\ pending'.gen = gen
  <2>1. pending'.gen = gen
    BY DEF FlushState, WholeInv, ChatOK, TypeOK, ControlType
  <2> QED
    BY <2>1, FlushStateIs
<1>3. /\ Flushed(gen) = <<>> => View' = Apply(u, View, gen)
      /\ Flushed(gen) # <<>> => View' = Apply(u, Apply(Chunk, View, gen), gen)
      /\ KnownInv'
  BY FlushedView
<1>4. ASSUME intact PROVE WholeIn(View', gen, NoText, recv)
  <2>1. /\ WholeIn(View, gen, pending.text, recv)
        /\ Following(View, gen, pending.text, recv, open, streaming)
    BY <1>4 DEF WholeInv, WholeIn
  <2>2. CASE Flushed(gen) = <<>>
    <3>1. pending.text = NoText
      BY <2>2, FlushedIs
    <3> QED
      BY <1>1, <1>3, <2>1, <2>2, <3>1, EndWhole
  <2>3. CASE Flushed(gen) # <<>>
    <3>1. Chunk \in Updates(gen) /\ Chunk.op = "chunk" /\ Chunk.text = pending.text
      BY <2>3, FlushedIs DEF Chunk
    <3> DEFINE v == Apply(Chunk, View, gen)
    <3>2. WholeIn(v, gen, NoText, recv)
      BY <1>1, <2>1, <3>1, FlushFollows
    <3>3. v \in Talk(gen, lost)
      BY <1>1, <3>1, AnswerUpdated
    <3>4. View' = Apply(u, v, gen)
      BY <1>3, <2>3
    <3> HIDE DEF v
    <3> QED
      BY <1>1, <3>2, <3>3, <3>4, EndWhole
  <2> QED
    BY <2>2, <2>3
<1>5. WholeInv'
  BY <1>2, <1>4 DEF WholeInv, WholeIn
<1> QED
  BY <1>3, <1>5

LEMMA FailWhole ==
    ASSUME NoEcho, ChatOK, KnownInv, WholeInv, shown, requesting \/ streaming,
           UNCHANGED <<gen, recv, intact, mounted>>, FailGeneration(gen), streaming' = FALSE
    PROVE  KnownInv' /\ WholeInv'
<1> DEFINE u == Upd("error", gen)
<1>1. u \in Updates(gen) /\ u.op = "error"
  BY DEF Upd, Updates, NoText, Text
<1> HIDE DEF u
<1>2. FlushState(gen) /\ Enqueue(Flushed(gen) \o <<u>>) /\ requesting' = FALSE
  BY DEF FailGeneration, u
<1> QED
  BY <1>1, <1>2, EndingTurn

\* A step that changes nothing the invariant looks at.
LEMMA StillWhole ==
    ASSUME KnownInv, WholeInv, storage' = storage \/ storage' \in Dated(gen),
           UNCHANGED <<queue, messages, latest, gen, recv, intact, mounted, requesting, streaming>>,
           pending'.gen = pending.gen, pending'.text = pending.text, open' \subseteq open
    PROVE  KnownInv' /\ WholeInv'
<1>1. View' = View
  BY DEF View
<1>2. KnownInv'
  BY DEF KnownInv
<1>3. ASSUME NEW ms, NEW p, NEW r, Following(ms, gen, p, r, open, streaming)
      PROVE  Following(ms, gen, p, r, open', streaming)
  BY <1>3 DEF Following, Streams
<1>4. WholeInv'
  BY <1>1, <1>3 DEF WholeInv
<1> QED
  BY <1>2, <1>4

LEMMA HeadersFailWhole ==
    ASSUME NoEcho, ChatOK, KnownInv, WholeInv, NEW w \in waits, HeadersFail(w)
    PROVE  KnownInv' /\ WholeInv'
<1>1. UNCHANGED <<open, gen, recv, intact, mounted, streaming>>
  BY DEF HeadersFail, histVars, uiVars
<1>2. CASE w.cg # cgen
  <2>1. UNCHANGED <<pending, requesting, queue, messages, latest, storage>>
    BY <1>2 DEF HeadersFail
  <2> QED
    BY <1>1, <2>1, StillWhole
<1>3. CASE w.cg = cgen
  <2>1. w \in Live /\ w.gen = gen
    BY <1>3 DEF Live, ChatOK, ChatInv, ControlInv, RequestInv
  <2>2. requesting /\ ~streaming /\ shown
    BY <2>1 DEF ChatOK, ChatInv, ControlInv, FlagInv
  <2>3. FailGeneration(gen)
    BY <1>3, <2>1 DEF HeadersFail
  <2>4. streaming' = FALSE
    BY <1>1, <2>2 DEF ChatOK, TypeOK, ControlType
  <2> QED
    BY <1>1, <2>2, <2>3, <2>4, FailWhole
<1> QED
  BY <1>2, <1>3

LEMMA SourceEndWhole ==
    ASSUME NoEcho, ChatOK, KnownInv, WholeInv, NEW s \in open, SourceDone(s) \/ SourceError(s)
    PROVE  KnownInv' /\ WholeInv'
<1>1. IsCurrent(s) /\ s.gen = gen /\ streaming /\ shown
  <2>1. ControlOK
    BY ChatIs
  <2> QED
    BY <2>1, OpenSource
<1>2. streaming' = FALSE
  BY <1>1 DEF SourceDone, SourceError, CloseActive
<1>3. UNCHANGED <<gen, recv, intact, mounted>>
  BY DEF SourceDone, SourceError, histVars, uiVars
<1>4. CASE SourceError(s)
  <2>1. FailGeneration(gen)
    BY <1>1, <1>4 DEF SourceError
  <2> QED
    BY <1>1, <1>2, <1>3, <2>1, FailWhole
<1>5. CASE SourceDone(s)
  <2> DEFINE u == Upd("complete", gen)
  <2>1. u \in Updates(gen) /\ u.op = "complete"
    BY DEF Upd, Updates, NoText, Text
  <2> HIDE DEF u
  <2>2. FlushState(gen) /\ Enqueue(Flushed(gen) \o <<u>>) /\ requesting' = FALSE
    BY <1>1, <1>5 DEF SourceDone, u
  <2> QED
    BY <1>1, <1>2, <1>3, <2>1, <2>2, EndingTurn
<1> QED
  BY <1>4, <1>5

LEMMA CallIs ==
    ASSUME ChatOK, NEW g \in calls
    PROVE  g = gen /\ requesting /\ streaming = FALSE /\ shown /\ pending.text = NoText
<1>1. g = gen
  BY DEF ChatOK, ChatInv, ControlInv, RequestInv
<1>2. requesting /\ ~streaming /\ shown /\ pending.text = NoText /\ streaming \in BOOLEAN
  BY DEF ChatOK, ChatInv, ControlInv, FlagInv, TypeOK, ControlType
<1> QED
  BY <1>1, <1>2

LEMMA ChatCompletionFailsWhole ==
    ASSUME NoEcho, ChatOK, KnownInv, WholeInv, NEW g \in calls, ChatCompletionFails(g)
    PROVE  KnownInv' /\ WholeInv'
<1>1. g = gen /\ requesting /\ streaming = FALSE /\ shown
  BY CallIs
<1>2. UNCHANGED <<gen, recv, intact, mounted>> /\ FailGeneration(gen) /\ streaming' = FALSE
  BY <1>1 DEF ChatCompletionFails, histVars, uiVars
<1> QED
  BY <1>1, <1>2, FailWhole

LEMMA ChatCompletionWhole ==
    ASSUME ChatOK, KnownInv, WholeInv, NEW g \in calls, ChatCompletion(g)
    PROVE  KnownInv' /\ WholeInv'
<1> DEFINE u == [op |-> "answer", gen |-> gen, text |-> FullText]
<1>1. g = gen /\ requesting /\ streaming = FALSE /\ shown /\ pending.text = NoText
  BY CallIs
<1>2. u \in Updates(gen) /\ u.op = "answer" /\ u.text = FullText
  BY FullTextType DEF Updates
<1>3. /\ UNCHANGED <<gen, pending, intact, mounted>> /\ streaming' = FALSE /\ requesting' = FALSE
      /\ recv' = FullText /\ Enqueue(<<u>>)
  BY <1>1 DEF ChatCompletion, uiVars
<1> HIDE DEF u
<1>4. <<u>> \in Seq(Updates(gen)) /\ u.op # "set"
  BY <1>2
<1>5. View' = Apply(u, View, gen) /\ KnownInv'
  BY <1>1, <1>2, <1>3, <1>4, EnqueueView
<1>6. View \in Talk(gen, lost) /\ gen \in Nat /\ lost \in BOOLEAN
  BY <1>1, AwaitedView
<1>7. ASSUME intact PROVE WholeIn(View', gen, NoText, FullText)
  <2>1. \A i \in 1..(Len(View) - 1) : ~IsAnswer(View[i], gen)
    BY <1>1, <1>7 DEF WholeInv, Following
  <2> QED
    BY <1>2, <1>5, <1>6, <2>1, AnswerWhole, FullTextType
<1>8. WholeInv'
  BY <1>1, <1>3, <1>7 DEF WholeInv, WholeIn
<1> QED
  BY <1>5, <1>8

LEMMA FlushTimerWhole ==
    ASSUME NoEcho, ChatOK, KnownInv, WholeInv, FlushTimer
    PROVE  KnownInv' /\ WholeInv'
<1>1. timer = gen
  BY DEF FlushTimer, ChatOK, ChatInv, ControlInv, BufferIsArmed
<1>2. UNCHANGED <<open, gen, recv, intact, mounted, requesting, streaming>> /\ FlushState(gen)
  BY <1>1 DEF FlushTimer, histVars, uiVars, ctlVars, flagVars
<1>3. pending'.text = NoText /\ pending'.gen = gen
  <2>1. pending'.gen = gen
    BY <1>2 DEF FlushState, WholeInv, ChatOK, TypeOK, ControlType
  <2> QED
    BY <1>2, <2>1, FlushStateIs
<1>4. CASE Flushed(gen) = <<>>
  <2>1. pending.text = NoText
    BY <1>4, FlushedIs
  <2>2. UNCHANGED <<queue, messages, latest, storage>>
    BY <1>1, <1>4 DEF FlushTimer
  <2>3. pending.gen = gen
    BY DEF WholeInv
  <2> QED
    BY <1>2, <1>3, <2>1, <2>2, <2>3, StillWhole
<1>5. CASE Flushed(gen) # <<>>
  <2>1. Flushed(gen) = <<Chunk>> /\ Chunk \in Updates(gen) /\ pending.text # NoText
    BY <1>5, FlushedIs
  <2>2. Chunk.op = "chunk" /\ Chunk.text = pending.text /\ <<Chunk>> \in Seq(Updates(gen))
    BY <2>1 DEF Chunk
  <2>3. Enqueue(<<Chunk>>)
    BY <1>1, <1>5, <2>1 DEF FlushTimer
  <2>4. streaming /\ shown
    BY <2>1 DEF ChatOK, ChatInv, ControlInv, FlagInv
  <2>5. View' = Apply(Chunk, View, gen) /\ KnownInv'
    BY <1>2, <2>1, <2>2, <2>3, <2>4, EnqueueView
  <2>6. View \in Talk(gen, lost) /\ gen \in Nat /\ lost \in BOOLEAN /\ pending.text \in Text /\ recv \in Text
    BY <2>4, AwaitedView
  <2>7. ASSUME intact
        PROVE  /\ WholeIn(View', gen, NoText, recv)
               /\ Following(View', gen, NoText, recv, open, streaming)
    <3>1. /\ WholeIn(View, gen, pending.text, recv)
          /\ Following(View, gen, pending.text, recv, open, streaming)
      BY <2>4, <2>7 DEF WholeInv, WholeIn
    <3> QED
      BY <2>1, <2>2, <2>5, <2>6, <3>1, FlushFollows
  <2>8. WholeInv'
    BY <1>2, <1>3, <2>7 DEF WholeInv, WholeIn
  <2> QED
    BY <2>5, <2>8
<1> QED
  BY <1>4, <1>5

-----------------------------------------------------------------------------
(* The answer is whole: the stream and the timers.                         *)

LEMMA HeadersReadyWhole ==
    ASSUME ChatOK, KnownInv, WholeInv, NEW w \in waits, HeadersReady(w)
    PROVE  KnownInv' /\ WholeInv'
<1>1. UNCHANGED <<gen, pending, requesting, queue, messages, latest, storage, recv, intact, mounted>>
  BY DEF HeadersReady, chatVars, msgVars, histVars, uiVars
<1>2. CASE w.cg # cgen
  <2>1. UNCHANGED <<open, streaming>>
    BY <1>2 DEF HeadersReady
  <2> QED
    BY <1>1, <2>1, StillWhole
<1>3. CASE w.cg = cgen
  <2> DEFINE n == [cg |-> w.cg, gen |-> w.gen, pos |-> 0]
  <2>1. w \in Live
    BY <1>3 DEF Live
  <2>2. requesting /\ ~streaming /\ open = {}
    BY <2>1 DEF ChatOK, ChatInv, ControlInv, FlagInv, RequestInv
  <2>3. open' = {n} /\ streaming' = TRUE
    BY <1>3, <2>2 DEF HeadersReady
  <2>4. View' = View
    BY <1>1 DEF View
  <2>5. KnownInv'
    BY <1>1 DEF KnownInv
  <2>6. ASSUME intact PROVE Following(View, gen, pending.text, recv, {n}, TRUE)
    <3>1. Following(View, gen, pending.text, recv, open, streaming)
      BY <2>2, <2>6 DEF WholeInv
    <3>2. Streams(Last(View), pending.text, recv, {n}, TRUE)
      <4>1. PICK i, k \in 0..Len(Script) : i <= k /\ InStep(Last(View), pending.text, recv, i, k) /\ k = 0
        BY <2>2, <3>1 DEF Following, Streams
      <4> QED
        BY <4>1 DEF Streams
    <3> QED
      BY <3>1, <3>2 DEF Following
  <2> HIDE DEF n
  <2>7. WholeInv'
    BY <1>1, <2>3, <2>4, <2>6 DEF WholeInv
  <2> QED
    BY <2>5, <2>7
<1> QED
  BY <1>2, <1>3

\* One more delta in the buffer.
LEMMA DeltaFollows ==
    ASSUME NoEcho, NEW g \in Nat, NEW l \in BOOLEAN, NEW ms \in Talk(g, l), NEW p \in Text, NEW r \in Text,
           NEW s, NEW z, WholeIn(ms, g, p, r), Following(ms, g, p, r, {s}, TRUE),
           s.pos < Len(Script), z.pos = s.pos + 1, NEW d, d = Script[s.pos + 1]
    PROVE  LET q == [p EXCEPT ![d.type] = MergePending(@, d.text)]
               t == [r EXCEPT ![d.type] = @ \o d.text]
           IN  WholeIn(ms, g, q, t) /\ Following(ms, g, q, t, {z}, TRUE)
<1> DEFINE q == [p EXCEPT ![d.type] = MergePending(@, d.text)]
           t == [r EXCEPT ![d.type] = @ \o d.text]
           m == Last(ms)
           n == Len(ms)
<1>1. PICK i, k \in 0..Len(Script) : i <= k /\ InStep(m, p, r, i, k) /\ s.pos = k
  BY DEF Following, Streams
<1>2. Len(Script) \in Nat
  BY ScriptAssumption
<1>3. k \in 0..(Len(Script) - 1) /\ i \in 0..k /\ k + 1 \in 1..Len(Script) /\ k + 1 \in 0..Len(Script)
      /\ i <= k + 1 /\ 0 \in 0..k /\ z.pos = k + 1
  BY <1>1, <1>2
<1>4. IsPending(m) /\ m.text = Part(0, i) /\ p = Part(i, k) /\ r = Part(0, k) /\ d = Script[k + 1]
  BY <1>1 DEF InStep
<1>5. d \in Deltas
  BY <1>3, <1>4, ScriptLetters DEF Deltas
<1>6. d.type \in {"reasoning", "content"} /\ d.text \in Seq(Letters)
  BY <1>5 DEF Deltas
<1>7. MergePending(p[d.type], d.text) = p[d.type] \o d.text
  <2>1. MergePending(Part(i, k)[Script[k + 1].type], Script[k + 1].text)
             = Part(i, k)[Script[k + 1].type] \o Script[k + 1].text
    BY <1>3, MergeIs
  <2> QED
    BY <1>4, <2>1
<1>8. q = Join(p, d) /\ t = Join(r, d)
  BY <1>7 DEF Join
<1> HIDE DEF q, t
<1>9. q = Part(i, k + 1)
  <2>1. Part(i, k + 1) = Join(Part(i, k), Script[k + 1])
    BY <1>3, PartMore
  <2> QED
    BY <1>4, <1>8, <2>1
<1>10. t = Part(0, k + 1)
  <2>1. Part(0, k + 1) = Join(Part(0, k), Script[k + 1])
    BY <1>3, PartMore
  <2> QED
    BY <1>4, <1>8, <2>1
<1>11. Streams(m, q, t, {z}, TRUE)
  <2>1. InStep(m, q, t, i, k + 1)
    BY <1>4, <1>9, <1>10 DEF InStep
  <2> QED
    BY <1>1, <1>3, <2>1 DEF Streams
<1>12. \A j \in 1..(n - 1) : ~IsAnswer(ms[j], g)
  BY DEF Following
<1>13. Following(ms, g, q, t, {z}, TRUE)
  BY <1>11, <1>12 DEF Following
<1>14. ms \in Seq(Message) /\ n \in Nat /\ n >= 1 /\ DOMAIN ms = 1..n /\ m = ms[n] /\ m \in Message
  <2>1. ms \in Seq(Message) /\ ms # <<>>
    BY DEF Talk, Tidy, Awaits
  <2> QED
    BY <2>1 DEF Last
<1>15. Whole(m, g, q, t)
  <2> SUFFICES ASSUME IsAnswer(m, g)
               PROVE  /\ m.text.reasoning \o q.reasoning = t.reasoning
                      /\ m.text.content \o q.content = t.content
    BY DEF Whole
  <2>1. Whole(m, g, p, r)
    <3>1. n \in DOMAIN ms
      BY <1>14
    <3> QED
      BY <1>14, <3>1 DEF WholeIn
  <2>2. m.text.reasoning \o p.reasoning = r.reasoning /\ m.text.content \o p.content = r.content
    BY <1>4, <2>1 DEF Whole, IsPending
  <2>3. /\ m.text.reasoning \in Seq(Letters) /\ m.text.content \in Seq(Letters)
        /\ p.reasoning \in Seq(Letters) /\ p.content \in Seq(Letters)
    BY <1>14 DEF Message, Text
  <2>4. /\ (m.text.reasoning \o p.reasoning) \o d.text = m.text.reasoning \o (p.reasoning \o d.text)
        /\ (m.text.content \o p.content) \o d.text = m.text.content \o (p.content \o d.text)
    <3> HIDE DEF m
    <3>1. (m.text.reasoning \o p.reasoning) \o d.text = m.text.reasoning \o (p.reasoning \o d.text)
      BY <1>6, <2>3, ConcatLetters, Zenon
    <3>2. (m.text.content \o p.content) \o d.text = m.text.content \o (p.content \o d.text)
      BY <1>6, <2>3, ConcatLetters, Zenon
    <3> QED
      BY <3>1, <3>2
  <2>5. CASE d.type = "reasoning"
    <3>1. /\ q.reasoning = p.reasoning \o d.text /\ q.content = p.content
          /\ t.reasoning = r.reasoning \o d.text /\ t.content = r.content
      BY <1>8, <2>5 DEF Join, Text
    <3> QED
      BY <2>2, <2>4, <3>1
  <2>6. CASE d.type = "content"
    <3>1. /\ q.content = p.content \o d.text /\ q.reasoning = p.reasoning
          /\ t.content = r.content \o d.text /\ t.reasoning = r.reasoning
      BY <1>8, <2>6 DEF Join, Text
    <3> QED
      BY <2>2, <2>4, <3>1
  <2> QED
    BY <1>6, <2>5, <2>6
<1>16. WholeIn(ms, g, q, t)
  <2> SUFFICES ASSUME NEW j \in 1..n PROVE Whole(ms[j], g, q, t)
    BY <1>14 DEF WholeIn
  <2>1. CASE j = n
    BY <1>14, <1>15, <2>1
  <2>2. CASE j # n
    <3>1. j \in 1..(n - 1)
      <4> HIDE DEF n
      <4> QED
        BY <1>14, <2>2
    <3> QED
      BY <1>12, <3>1 DEF Whole
  <2> QED
    BY <2>1, <2>2
<1> QED
  BY <1>13, <1>16 DEF q, t

LEMMA SourceDeltaWhole ==
    ASSUME NoEcho, ChatOK, KnownInv, WholeInv, NEW s \in open, SourceDelta(s)
    PROVE  KnownInv' /\ WholeInv'
<1> DEFINE d == Script[s.pos + 1]
           z == [s EXCEPT !.pos = @ + 1]
           q == [pending.text EXCEPT ![d.type] = MergePending(@, d.text)]
           t == [recv EXCEPT ![d.type] = @ \o d.text]
<1>1. IsCurrent(s) /\ s.gen = gen /\ open = {s} /\ streaming /\ shown
  <2>1. ControlOK
    BY ChatIs
  <2> QED
    BY <2>1, OpenSource
<1>2. UNCHANGED <<gen, queue, messages, latest, storage, intact, mounted, requesting, streaming>>
  BY DEF SourceDelta, flagVars, msgVars, uiVars
<1>3. s \in [cg : Nat, gen : Nat, pos : 0..Len(Script)] /\ pending \in [gen : Nat, text : Text, src : SUBSET Nat]
      /\ streaming \in BOOLEAN
  BY DEF ChatOK, TypeOK, ControlType
<1>4. s.pos < Len(Script) /\ open' = {z} /\ z.pos = s.pos + 1
  <2>1. s.pos < Len(Script) /\ open' = {z}
    BY <1>1 DEF SourceDelta
  <2> QED
    BY <1>3, <2>1
<1>5. pending.gen = gen
  BY DEF WholeInv
<1>6. pending' = [pending EXCEPT !.text[d.type] = MergePending(@, d.text), !.src = @ \cup {s.gen}] /\ recv' = t
  BY <1>1, <1>5 DEF SourceDelta
<1>7. pending'.text = q /\ pending'.gen = gen
  BY <1>3, <1>5, <1>6
<1>8. View' = View
  BY <1>2 DEF View
<1>9. KnownInv'
  BY <1>2 DEF KnownInv
<1>10. View \in Talk(gen, lost) /\ gen \in Nat /\ lost \in BOOLEAN /\ pending.text \in Text /\ recv \in Text
  BY <1>1, AwaitedView
<1>11. ASSUME intact PROVE WholeIn(View, gen, q, t) /\ Following(View, gen, q, t, {z}, TRUE)
  <2>1. streaming = TRUE
    BY <1>1, <1>3
  <2>2. /\ WholeIn(View, gen, pending.text, recv)
        /\ Following(View, gen, pending.text, recv, {s}, TRUE)
    BY <1>1, <1>11, <2>1 DEF WholeInv, WholeIn
  <2> HIDE DEF z
  <2> QED
    BY <1>4, <1>10, <2>2, DeltaFollows
<1> HIDE DEF z, q, t
<1>12. WholeInv'
  <2>1. streaming = TRUE
    BY <1>1, <1>3
  <2> QED
    BY <1>2, <1>4, <1>6, <1>7, <1>8, <1>11, <2>1 DEF WholeInv, WholeIn
<1> QED
  BY <1>9, <1>12

LEMMA SourceCutWhole ==
    ASSUME KnownInv, WholeInv, NEW s \in open, SourceCut(s)
    PROVE  KnownInv' /\ WholeInv'
<1>1. UNCHANGED <<gen, pending, requesting, streaming, queue, messages, latest, storage, recv, intact, mounted>>
  BY DEF SourceCut, chatVars, flagVars, msgVars, uiVars
<1>2. open' \subseteq open
  BY DEF SourceCut
<1> QED
  BY <1>1, <1>2, StillWhole

LEMMA EditorWhole ==
    ASSUME KnownInv, WholeInv, HandleEditOpenChange \/ \E i \in DOMAIN messages : HandleEditMessage(i)
    PROVE  KnownInv' /\ WholeInv'
<1>1. UNCHANGED <<ctlVars, chatVars, flagVars, msgVars, mounted, histVars>>
  BY DEF HandleEditOpenChange, HandleEditMessage
<1> QED
  BY <1>1, StillWhole DEF ctlVars, chatVars, flagVars, msgVars, histVars

LEMMA RenderWhole ==
    ASSUME ChatOK, KnownInv, WholeInv, Render
    PROVE  KnownInv' /\ WholeInv'
<1>1. UNCHANGED <<gen, pending, open, requesting, streaming, storage, recv, intact, mounted>>
  BY DEF Render, ctlVars, chatVars, uiVars, histVars
<1>2. messages' = View /\ latest' = View /\ queue' = <<>>
  BY DEF Render, View
<1>3. View' = View
  BY <1>2, RunNone DEF View
<1>4. View \in Dated(gen)
  BY QueueDated DEF View
<1>5. KnownInv'
  BY <1>1, <1>2, <1>4 DEF KnownInv
<1>6. WholeInv'
  BY <1>1, <1>3 DEF WholeInv
<1> QED
  BY <1>5, <1>6

LEMMA TrimDated ==
    ASSUME NEW g \in Nat, NEW ms \in Dated(g)
    PROVE  Trim(ms) \in Dated(g)
<1> DEFINE M == {m \in Message : m.req <= g}
<1>1. ms \in Seq(M)
  BY DEF Dated
<1> HIDE DEF M
<1>2. Len(ms) \in Nat /\ MaxStored \in Nat
  BY <1>1, BoundsAssumption
<1>3. SubSeq(ms, Len(ms) - MaxStored + 1, Len(ms)) \in Seq(M) \/ Len(ms) <= MaxStored
  BY <1>1, <1>2
<1> QED
  BY <1>1, <1>3 DEF Trim, Dated, M

LEMMA SaveTimerWhole ==
    ASSUME ChatOK, KnownInv, WholeInv, SaveTimer
    PROVE  KnownInv' /\ WholeInv'
<1>1. UNCHANGED <<ctlVars, chatVars, flagVars, queue, messages, latest, mounted, histVars>>
  BY DEF SaveTimer, uiVars
<1>2. storage' \in Dated(gen)
  <2>1. latest \in Dated(gen) /\ gen \in Nat
    BY DEF KnownInv, ChatOK, TypeOK, ControlType
  <2> QED
    BY <2>1, TrimDated DEF SaveTimer
<1> QED
  BY <1>1, <1>2, StillWhole DEF ctlVars, chatVars, flagVars, histVars

LEMMA NoneDated ==
    ASSUME NEW g
    PROVE  <<>> \in Dated(g)
  BY DEF Dated

LEMMA LeaveWhole ==
    ASSUME ChatOK, KnownInv, WholeInv, Unmount \/ Crash
    PROVE  KnownInv' /\ WholeInv'
<1>1. Leave /\ (storage' = storage \/ storage' = Trim(latest))
  BY DEF Unmount, Crash
<1>2. gen \in Nat /\ latest \in Dated(gen) /\ storage \in Dated(gen)
  BY DEF KnownInv, ChatOK, TypeOK, ControlType
<1>3. storage' \in Dated(gen + 1)
  BY <1>1, <1>2, TrimDated, DatedLater
<1>4. /\ gen' = gen + 1 /\ queue' = <<>> /\ messages' = <<>> /\ latest' = <<>> /\ intact' = FALSE
      /\ pending'.gen = gen + 1
  BY <1>1 DEF Leave, DiscardPending
<1>5. KnownInv'
  BY <1>3, <1>4, NoneDated DEF KnownInv
<1> QED
  BY <1>4, <1>5 DEF WholeInv

LEMMA LoadDated ==
    ASSUME NEW g \in Nat, NEW l \in BOOLEAN, NEW ms \in Tidy(l), ms \in Dated(g)
    PROVE  Load(ms) \in Dated(g)
<1> DEFINE n == Len(ms)
           normal == [i \in 1..n |-> NormalizeStoredMessageForLoad(ms[i])]
           left == {i \in 1..n : IsPending(normal[i])}
           chosen(i) == i \in left /\ \A j \in left : j <= i
           r == [i \in 1..n |-> IF chosen(i) THEN [normal[i] EXCEPT !.status = "error", !.text.content = <<"error">>]
                                ELSE normal[i]]
<1>1. Load(ms) = r
  BY DEF Load
<1>2. \A i \in 1..n : ms[i] \in Message /\ ms[i].req <= g
  BY DatedIs
<1>3. Load(ms) \in Seq(Message)
  BY LoadTidy DEF Tidy
<1>4. n \in Nat
  BY DEF Tidy
<1>5. ASSUME NEW i \in 1..n PROVE r[i].req = ms[i].req
  <2>1. ms[i] \in Message
    BY <1>2
  <2>2. normal[i] = NormalizeStoredMessageForLoad(ms[i])
    OBVIOUS
  <2>3. normal[i].req = ms[i].req /\ normal[i] \in Message
    <3> DEFINE m == ms[i]
    <3>1. m \in Message /\ normal[i] = IF IsPending(m) /\ HasText(m) THEN Complete(m) ELSE m
      BY <2>1, <2>2 DEF NormalizeStoredMessageForLoad
    <3> HIDE DEF m, normal
    <3> QED
      BY <3>1 DEF Complete, Message, m
  <2>4. r[i] = IF chosen(i) THEN [normal[i] EXCEPT !.status = "error", !.text.content = <<"error">>] ELSE normal[i]
    OBVIOUS
  <2> HIDE DEF r, chosen, normal, left
  <2>5. [normal[i] EXCEPT !.status = "error", !.text.content = <<"error">>].req = normal[i].req
    BY <2>3 DEF Message
  <2> QED
    BY <2>3, <2>4, <2>5
<1>6. Len(r) = n
  BY <1>4
<1> HIDE DEF r, n
<1>7. \A i \in 1..Len(r) : r[i].req <= g
  BY <1>2, <1>5, <1>6
<1> QED
  BY <1>1, <1>3, <1>7, DatedFrom

LEMMA MountWhole ==
    ASSUME ChatOK, KnownInv, WholeInv, Mount
    PROVE  KnownInv' /\ WholeInv'
<1>1. gen \in Nat /\ lost \in BOOLEAN /\ storage \in Dated(gen) /\ storage \in Tidy(lost)
  BY DEF KnownInv, ChatOK, TypeOK, ControlType, ChatInv, ConversationInv, Tidy
<1>2. Load(storage) \in Dated(gen)
  BY <1>1, LoadDated
<1>3. messages' = Load(storage) /\ latest' = Load(storage) /\ storage' = Load(storage)
      /\ UNCHANGED <<gen, queue, pending, intact>> /\ ~mounted
  BY DEF Mount, chatVars, histVars
<1>4. KnownInv'
  BY <1>2, <1>3 DEF KnownInv
<1>5. ~intact
  BY <1>3 DEF WholeInv
<1> QED
  BY <1>3, <1>4, <1>5 DEF WholeInv

-----------------------------------------------------------------------------
(* The answer is whole: the user.                                          *)

\* The messages of a new request: the last waits for the answer, and no other
\* is of its generation but the user's own.
Fresh(ms, g) ==
    /\ ms \in Seq(Message) /\ Len(ms) >= 1 /\ Last(ms) = LoadingMessage(g)
    /\ \A i \in 1..(Len(ms) - 1) : ms[i].req <= g /\ ~IsAnswer(ms[i], g)

LEMMA AddFresh ==
    ASSUME NEW g \in Nat, NEW ms \in Seq(Message),
           \A i \in 1..Len(ms) : ms[i].req <= g /\ ~IsAnswer(ms[i], g)
    PROVE  Fresh(ms \o <<LoadingMessage(g)>>, g)
<1> DEFINE m == LoadingMessage(g)
           r == ms \o <<m>>
           n == Len(ms)
<1>1. m \in Message
  BY LoadingIs
<1> HIDE DEF m
<1>2. r \in Seq(Message) /\ Len(r) = n + 1 /\ r[n + 1] = m /\ n \in Nat /\ \A i \in 1..n : r[i] = ms[i]
  BY <1>1
<1> HIDE DEF r
<1>3. Len(r) >= 1 /\ Last(r) = m /\ Len(r) - 1 = n
  <2> HIDE DEF n
  <2> QED
    BY <1>2 DEF Last
<1> QED
  BY <1>2, <1>3 DEF Fresh, r, m

LEMMA DatedFresh ==
    ASSUME NEW g \in Nat, NEW ms \in Dated(g)
    PROVE  ms \in Seq(Message) /\ \A i \in 1..Len(ms) : ms[i].req <= g + 1 /\ ~IsAnswer(ms[i], g + 1)
<1>1. ms \in Seq(Message) /\ \A i \in 1..Len(ms) : ms[i] \in Message /\ ms[i].req <= g
  BY DatedIs
<1>2. ASSUME NEW i \in 1..Len(ms) PROVE ms[i].req <= g + 1 /\ ms[i].req # g + 1
  <2>1. ms[i].req \in Nat /\ ms[i].req <= g
    BY <1>1 DEF Message
  <2> QED
    BY <2>1
<1> QED
  BY <1>1, <1>2 DEF IsAnswer

LEMMA SendChatWhole ==
    ASSUME ChatOK, KnownInv, NEW ms, Fresh(ms, gen + 1), SendChat(ms), mounted, mounted' = mounted
    PROVE  KnownInv' /\ WholeInv'
<1> DEFINE g == gen + 1
           n == Len(ms)
<1>1. gen \in Nat /\ g \in Nat /\ storage \in Dated(gen)
  BY DEF KnownInv, ChatOK, TypeOK, ControlType
<1>2. /\ gen' = g /\ pending'.gen = g /\ pending'.text = NoText /\ recv' = NoText
      /\ streaming' = FALSE /\ Commit(<<Set(ms)>>, gen, g)
  BY DEF SendChat, DiscardPending
<1>3. ms \in Seq(Message) /\ n \in Nat /\ n >= 1 /\ DOMAIN ms = 1..n /\ Last(ms) = ms[n]
  BY DEF Fresh, Last
<1>4. messages' = ms /\ latest' = ms /\ queue' = <<>> /\ storage' = storage
  BY <1>2, <1>3, CommitSet
<1>5. open' = {}
  <2>1. ControlOK
    BY ChatIs
  <2>2. ControlOK'
    BY <2>1, SendChatControl
  <2> QED
    BY <1>2, <2>2 DEF ControlOK, ControlInv, FlagInv
<1>6. View' = ms
  BY <1>4, RunNone DEF View
<1> DEFINE m == LoadingMessage(g)
<1>7. m.req = g /\ m.text = NoText /\ IsPending(m) /\ m = Last(ms)
  BY DEF LoadingMessage, IsPending, Fresh
<1> HIDE DEF m
<1>8. \A i \in 1..n : i = n \/ i \in 1..(n - 1)
  <2> HIDE DEF n
  <2> QED
    BY <1>3
<1>9. ms \in Dated(g)
  <2>1. \A i \in 1..n : ms[i].req <= g
    <3> HIDE DEF n, g
    <3>1. g <= g
      BY <1>1
    <3> QED
      BY <1>3, <1>7, <1>8, <3>1 DEF Fresh, g, n
  <2> QED
    BY <1>1, <1>3, <2>1, DatedFrom
<1>10. KnownInv'
  <2>1. storage \in Dated(g)
    BY <1>1, DatedLater
  <2> QED
    BY <1>2, <1>4, <1>9, <2>1 DEF KnownInv
<1>11. WholeIn(ms, g, NoText, NoText)
  <2> SUFFICES ASSUME NEW i \in 1..n PROVE Whole(ms[i], g, NoText, NoText)
    BY <1>3 DEF WholeIn
  <2>1. CASE i = n
    <3>1. ms[i].text = NoText
      BY <1>3, <1>7, <2>1
    <3>2. NoText.reasoning \o NoText.reasoning = NoText.reasoning /\ NoText.content \o NoText.content = NoText.content
      BY DEF NoText
    <3> QED
      BY <3>1, <3>2 DEF Whole
  <2>2. CASE i \in 1..(n - 1)
    BY <2>2 DEF Fresh, Whole
  <2> QED
    BY <1>8, <2>1, <2>2
<1>12. Following(ms, g, NoText, NoText, {}, FALSE)
  <2>1. 0 \in 0..Len(Script)
    BY ScriptAssumption
  <2>2. Part(0, 0) = NoText
    BY <2>1, PartNone
  <2>3. InStep(m, NoText, NoText, 0, 0)
    BY <1>7, <2>2 DEF InStep
  <2>4. Streams(m, NoText, NoText, {}, FALSE)
    BY <2>1, <2>3 DEF Streams
  <2> QED
    BY <1>7, <2>4 DEF Following, Fresh
<1> HIDE DEF g, n
<1>13. WholeInv'
  BY <1>2, <1>5, <1>6, <1>11, <1>12 DEF WholeInv, WholeIn
<1> QED
  BY <1>10, <1>13

LEMMA HandleSendMessageWhole ==
    ASSUME ChatOK, KnownInv, HandleSendMessage
    PROVE  KnownInv' /\ WholeInv'
<1> DEFINE g == gen + 1
           u == UserMessage(g)
           ms == messages \o <<u>>
<1>1. mounted /\ mounted' = mounted /\ SendChat(messages \o <<u, LoadingMessage(g)>>)
  BY DEF HandleSendMessage
<1>2. gen \in Nat /\ g \in Nat /\ messages \in Dated(gen)
  BY DEF KnownInv, ChatOK, TypeOK, ControlType
<1>3. messages \in Seq(Message) /\ \A i \in 1..Len(messages) : messages[i].req <= g /\ ~IsAnswer(messages[i], g)
  BY <1>2, DatedFresh
<1>4. u \in Message /\ LoadingMessage(g) \in Message /\ u.req = g /\ u.from = "user"
  BY <1>2, LoadingIs DEF UserMessage
<1>5. messages \o <<u, LoadingMessage(g)>> = ms \o <<LoadingMessage(g)>>
  BY <1>3, <1>4, AppendTwo
<1> HIDE DEF u
<1>6. ms \in Seq(Message) /\ Len(ms) = Len(messages) + 1 /\ ms[Len(messages) + 1] = u
      /\ Len(messages) \in Nat /\ \A i \in 1..Len(messages) : ms[i] = messages[i]
  BY <1>3, <1>4
<1> HIDE DEF ms
<1>7. ASSUME NEW i \in 1..Len(ms) PROVE ms[i].req <= g /\ ~IsAnswer(ms[i], g)
  <2>1. i \in 1..Len(messages) \/ i = Len(messages) + 1
    BY <1>6
  <2>2. u.req <= g /\ ~IsAnswer(u, g)
    <3> HIDE DEF g
    <3> QED
      BY <1>2, <1>4 DEF IsAnswer
  <2> HIDE DEF g
  <2> QED
    BY <1>3, <1>6, <2>1, <2>2
<1>8. Fresh(ms \o <<LoadingMessage(g)>>, g)
  <2> HIDE DEF g
  <2> QED
    BY <1>2, <1>6, <1>7, AddFresh
<1> QED
  BY <1>1, <1>5, <1>8, SendChatWhole

\* A request made with the first k of the messages ms.
LEMMA SendBeginningWhole ==
    ASSUME ChatOK, KnownInv, NEW ms \in Dated(gen), NEW k \in 0..Len(ms),
           SendChat(SubSeq(ms, 1, k) \o <<LoadingMessage(gen + 1)>>), mounted, mounted' = mounted
    PROVE  KnownInv' /\ WholeInv'
<1> DEFINE r == SubSeq(ms, 1, k)
<1>1. gen \in Nat /\ gen + 1 \in Nat
  BY DEF ChatOK, TypeOK, ControlType
<1>2. ms \in Seq(Message) /\ \A i \in 1..Len(ms) : ms[i].req <= gen + 1 /\ ~IsAnswer(ms[i], gen + 1)
  BY <1>1, DatedFresh
<1>3. r \in Seq(Message) /\ Len(r) = k /\ \A j \in 1..k : r[j] = ms[j] /\ j \in 1..Len(ms)
  BY <1>2
<1> HIDE DEF r
<1>4. \A j \in 1..Len(r) : r[j].req <= gen + 1 /\ ~IsAnswer(r[j], gen + 1)
  BY <1>2, <1>3
<1>5. Fresh(r \o <<LoadingMessage(gen + 1)>>, gen + 1)
  BY <1>1, <1>3, <1>4, AddFresh
<1> QED
  BY <1>5, SendChatWhole DEF r

LEMMA HandleRegenerateMessageWhole ==
    ASSUME ChatOK, KnownInv, NEW i \in DOMAIN messages, HandleRegenerateMessage(i)
    PROVE  KnownInv' /\ WholeInv'
<1> DEFINE k == IF messages[i].from = "user" THEN i ELSE i - 1
<1>1. mounted /\ mounted' = mounted /\ SendChat(SubSeq(messages, 1, k) \o <<LoadingMessage(gen + 1)>>)
  BY DEF HandleRegenerateMessage
<1>2. messages \in Dated(gen) /\ messages \in Seq(Message)
  BY DEF KnownInv, ChatOK, TypeOK
<1>3. k \in 0..Len(messages)
  <2>1. i \in 1..Len(messages) /\ Len(messages) \in Nat
    BY <1>2
  <2> QED
    BY <2>1
<1> HIDE DEF k
<1> QED
  BY <1>1, <1>2, <1>3, SendBeginningWhole

\* An edit of another answer's message leaves the answer as it is.
LEMMA ApplyEditWhole ==
    ASSUME ChatOK, KnownInv, WholeInv, ApplyEdit
    PROVE  KnownInv' /\ WholeInv'
<1> DEFINE i == IndexOf(editing)
           x == EditedText(messages[i])
           edited == [messages EXCEPT ![i].text.content =
                        IF messages[i].from = "user" THEN @ ELSE <<"edited">>]
           r == [messages EXCEPT ![i] = x]
           n == Len(messages)
<1>1. messages \in Seq(Message) /\ n \in Nat /\ messages \in Dated(gen) /\ gen \in Nat /\ storage \in Dated(gen)
  BY DEF KnownInv, ChatOK, TypeOK, ControlType
<1>2. i \in 1..n
  BY DEF ApplyEdit, IsShown, IndexOf
<1>3. mounted /\ mounted' = mounted
  BY DEF ApplyEdit
<1>4. \/ /\ UNCHANGED <<ctlVars, chatVars, requesting, streaming, recv>>
         /\ intact' = (intact /\ queue = <<>> /\ messages[i].req # gen)
         /\ Commit(<<Set(edited)>>, gen, gen)
      \/ SendChat(SubSeq(edited, 1, i) \o <<LoadingMessage(gen + 1)>>)
  BY DEF ApplyEdit
<1> HIDE DEF i
<1>5. messages[i] \in Message
  BY <1>1, <1>2
<1>6. /\ x \in Message /\ x.from = messages[i].from /\ x.req = messages[i].req
      /\ x.status = messages[i].status /\ x.src = messages[i].src
  BY <1>5, EditedTextIs
<1>7. edited = r
  BY <1>1, <1>2, <1>5 DEF EditedText, Message, Text
<1> HIDE DEF edited, x
<1>8. /\ r \in Seq(Message) /\ Len(r) = n
      /\ \A j \in 1..n : r[j] = IF j = i THEN x ELSE messages[j]
  BY <1>1, <1>2, <1>6, ReplaceText
<1> HIDE DEF r
<1>9. r \in Dated(gen)
  <2>1. \A j \in 1..n : messages[j].req <= gen
    BY <1>1, DatedIs
  <2>2. \A j \in 1..Len(r) : r[j].req <= gen
    <3> HIDE DEF n
    <3> QED
      BY <1>2, <1>6, <1>8, <2>1
  <2> QED
    BY <1>1, <1>8, <2>2, DatedFrom
<1>10. CASE /\ UNCHANGED <<ctlVars, chatVars, requesting, streaming, recv>>
            /\ intact' = (intact /\ queue = <<>> /\ messages[i].req # gen)
            /\ Commit(<<Set(r)>>, gen, gen)
  <2>1. messages' = r /\ latest' = r /\ queue' = <<>> /\ storage' = storage
    BY <1>8, <1>10, CommitSet
  <2>2. UNCHANGED <<gen, pending, open>>
    BY <1>10 DEF ctlVars, chatVars
  <2>3. KnownInv'
    BY <1>1, <1>9, <2>1, <2>2 DEF KnownInv
  <2>4. View' = r
    BY <2>1, RunNone DEF View
  <2>5. ASSUME intact, queue = <<>>, messages[i].req # gen
        PROVE  /\ WholeIn(r, gen, pending.text, recv)
               /\ requesting \/ streaming => Following(r, gen, pending.text, recv, open, streaming)
    <3>1. View = messages
      BY <2>5, NothingQueued
    <3>2. WholeIn(messages, gen, pending.text, recv)
      BY <2>5, <3>1 DEF WholeInv, WholeIn
    <3>3. ~IsAnswer(x, gen) /\ DOMAIN messages = 1..n /\ DOMAIN r = 1..n
      BY <1>1, <1>6, <1>8, <2>5 DEF IsAnswer
    <3>4. WholeIn(r, gen, pending.text, recv)
      <4> SUFFICES ASSUME NEW j \in 1..n PROVE Whole(r[j], gen, pending.text, recv)
        BY <3>3 DEF WholeIn
      <4>1. CASE j = i
        BY <1>8, <3>3, <4>1 DEF Whole
      <4>2. CASE j # i
        BY <1>8, <3>2, <3>3, <4>2 DEF WholeIn
      <4> QED
        BY <4>1, <4>2
    <3>5. ASSUME requesting \/ streaming
          PROVE  Following(r, gen, pending.text, recv, open, streaming)
      <4>1. Following(messages, gen, pending.text, recv, open, streaming)
        BY <2>5, <3>1, <3>5 DEF WholeInv
      <4>2. Awaits(messages, gen)
        BY <3>5 DEF ChatOK, ChatInv, ControlInv, FlagInv, ConversationInv
      <4>3. n >= 1 /\ messages[n].req = gen /\ Last(messages) = messages[n]
        <5>1. messages # <<>>
          BY <4>2 DEF Awaits
        <5>2. n >= 1
          BY <1>1, <5>1
        <5> QED
          BY <4>2, <5>2 DEF Awaits, Last
      <4>4. i # n
        BY <2>5, <4>3
      <4>5. Last(r) = Last(messages)
        <5>1. n \in 1..n
          BY <1>1, <4>3
        <5>2. r[n] = messages[n] /\ Last(r) = r[n]
          <6> HIDE DEF n
          <6> QED
            BY <1>8, <4>4, <5>1 DEF Last
        <5> QED
          BY <4>3, <5>2
      <4>6. \A j \in 1..(n - 1) : ~IsAnswer(r[j], gen)
        <5> SUFFICES ASSUME NEW j \in 1..(n - 1) PROVE ~IsAnswer(r[j], gen)
          OBVIOUS
        <5>1. j \in 1..n
          <6> HIDE DEF n
          <6> QED
            BY <1>1
        <5>2. ~IsAnswer(messages[j], gen)
          BY <4>1 DEF Following
        <5> QED
          BY <1>8, <3>3, <5>1, <5>2
      <4> QED
        BY <1>8, <4>1, <4>5, <4>6 DEF Following
    <3> QED
      BY <3>4, <3>5
  <2>6. WholeInv'
    BY <1>3, <1>10, <2>2, <2>4, <2>5 DEF WholeInv, WholeIn
  <2> QED
    BY <2>3, <2>6
<1>11. CASE SendChat(SubSeq(r, 1, i) \o <<LoadingMessage(gen + 1)>>)
  <2>1. i \in 0..Len(r)
    BY <1>1, <1>2, <1>8
  <2> QED
    BY <1>3, <1>9, <1>11, <2>1, SendBeginningWhole
<1> QED
  BY <1>4, <1>7, <1>10, <1>11

\* While nothing is generated the messages may be replaced by any of which
\* each is whole.
LEMMA ReplacedWhole ==
    ASSUME ChatOK, KnownInv, WholeInv, ~shown,
           UNCHANGED <<gen, pending, requesting, streaming, recv, intact, mounted, storage>>,
           messages' \in Dated(gen), latest' = messages', queue' = <<>>,
           intact => WholeIn(messages', gen, pending.text, recv)
    PROVE  KnownInv' /\ WholeInv'
<1>1. ~requesting /\ ~streaming
  BY Idle
<1>2. View' = messages'
  BY RunNone DEF View
<1>3. KnownInv'
  BY DEF KnownInv
<1>4. WholeInv'
  BY <1>1, <1>2 DEF WholeInv, WholeIn
<1> QED
  BY <1>3, <1>4

LEMMA HandleDeleteMessageWhole ==
    ASSUME ChatOK, KnownInv, WholeInv, NEW i \in DOMAIN messages, HandleDeleteMessage(i)
    PROVE  KnownInv' /\ WholeInv'
<1> DEFINE key == KeyOf(messages[i])
           u == [op |-> "delete", key |-> key]
           M == {m \in Message : m.req <= gen /\ (intact => Whole(m, gen, pending.text, recv))}
           r == Without(messages, key)
<1>1. /\ mounted /\ ~shown
      /\ UNCHANGED <<gen, pending, requesting, streaming, recv, intact, mounted>>
      /\ Commit(<<u>>, gen, gen)
  BY DEF HandleDeleteMessage, uiVars, chatVars, histVars
<1>2. queue = <<>> /\ messages \in Seq(Message) /\ messages \in Dated(gen) /\ gen \in Nat
  BY <1>1, Idle DEF Tidy, KnownInv, ChatOK, TypeOK, ControlType
<1>3. \A x : Apply(u, x, gen) = Without(x, key)
  BY DEF Apply
<1> HIDE DEF key
<1>4. \A x \in Seq(Message) : Apply(u, x, gen) \in Seq(Message)
  BY <1>3, WithoutType
<1> HIDE DEF u
<1>5. messages' = r
  <2>1. <<>> \o <<u>> = <<u>> /\ Tail(<<u>>) = <<>> /\ Head(<<u>>) = u
    <3> DEFINE e == <<>>
    <3>1. e \in Seq({u}) /\ e = <<>>
      OBVIOUS
    <3>2. e \o <<u>> = <<u>>
      OBVIOUS
    <3> QED
      BY <3>1, <3>2
  <2>2. RunUpdates(<<u>>, messages, gen) = Apply(u, messages, gen)
    BY <1>2, <1>4, RunOne
  <2>3. \/ messages' = RunUpdates(<<u>>, messages, gen)
        \/ messages' = RunUpdates(<<>>, Apply(u, messages, gen), gen)
    BY <1>1, <1>2, <2>1 DEF Commit
  <2> QED
    BY <1>3, <2>2, <2>3, RunNone
<1>6. messages \in Seq(M)
  <2>1. messages \in [1..Len(messages) -> Message] /\ DOMAIN messages = 1..Len(messages) /\ Len(messages) \in Nat
    BY <1>2
  <2>2. View = messages
    BY <1>2, NothingQueued
  <2>3. \A j \in 1..Len(messages) : messages[j].req <= gen
    BY <1>2, DatedIs
  <2>4. intact => \A j \in 1..Len(messages) : Whole(messages[j], gen, pending.text, recv)
    BY <2>1, <2>2 DEF WholeInv
  <2>5. \A j \in 1..Len(messages) : messages[j] \in M
    BY <2>1, <2>3, <2>4
  <2> HIDE DEF M
  <2> QED
    BY <2>1, <2>5
<1>7. r \in Seq(M)
  <2> HIDE DEF M
  <2> QED
    BY <1>6, WithoutType
<1> HIDE DEF r
<1>8. \A j \in DOMAIN r : r[j] \in M
  <2> HIDE DEF M
  <2> QED
    BY <1>7
<1>9. r \in Seq(Message) /\ DOMAIN r = 1..Len(r)
  <2>1. M \subseteq Message
    OBVIOUS
  <2> HIDE DEF M
  <2> QED
    BY <1>7, <2>1
<1>10. r \in Dated(gen)
  BY <1>2, <1>8, <1>9, DatedFrom
<1>11. intact => WholeIn(r, gen, pending.text, recv)
  BY <1>8 DEF WholeIn
<1>12. latest' = messages' /\ queue' = <<>> /\ storage' = storage
  BY <1>1 DEF Commit
<1> QED
  BY <1>1, <1>5, <1>10, <1>11, <1>12, ReplacedWhole

LEMMA HandleClearMessagesWhole ==
    ASSUME ChatOK, KnownInv, WholeInv, HandleClearMessages
    PROVE  KnownInv' /\ WholeInv'
<1> DEFINE e == <<>>
<1>1. /\ ~shown /\ UNCHANGED <<gen, pending, requesting, streaming, recv, intact, mounted>>
      /\ Commit(<<Set(e)>>, gen, gen)
  BY DEF HandleClearMessages, chatVars, histVars
<1>2. e \in Seq(Message) /\ e \in Dated(gen)
  BY NoneDated
<1>3. WholeIn(e, gen, pending.text, recv)
  <2>1. DOMAIN e = {}
    OBVIOUS
  <2> HIDE DEF e
  <2> QED
    BY <2>1 DEF WholeIn
<1> HIDE DEF e
<1>4. messages' = e /\ latest' = e /\ queue' = <<>> /\ storage' = storage
  BY <1>1, <1>2, CommitSet
<1> QED
  BY <1>1, <1>2, <1>3, <1>4, ReplacedWhole

LEMMA StopGenerationWhole ==
    ASSUME ChatOK, KnownInv, StopGeneration
    PROVE  KnownInv' /\ WholeInv'
<1> DEFINE h == gen + 1
           u == Upd("stopped", h)
           at == IF Flushed(gen) = <<>> THEN h ELSE gen
           D == Dated(gen)
<1>1. /\ gen \in Nat /\ h \in Nat /\ messages \in Seq(Message) /\ queue \in Seq(Updates(gen))
      /\ storage \in D
  BY DEF ChatOK, TypeOK, ControlType, ChatInv, QueueInv, KnownInv
<1>2. /\ gen' = h /\ intact' = FALSE /\ pending'.gen = h
      /\ Commit(Flushed(gen) \o <<u>>, at, h)
  BY DEF StopGeneration, DiscardPending
<1>3. u \in Updates(h) /\ u.op # "set"
  BY DEF Upd, Updates, NoText, Text
<1> HIDE DEF u
<1>4. messages \in D /\ RunUpdates(queue, messages, h) \in D
  BY QueueDated
<1>5. \A k : \A x \in D : Apply(u, x, k) \in D
  <2> HIDE DEF h
  <2> QED
    BY <1>1, <1>3, ApplyDated
<1>6. messages' \in D
  <2>1. CASE Flushed(gen) = <<>>
    <3>1. Flushed(gen) \o <<u>> = <<u>> /\ Tail(<<u>>) = <<>> /\ Head(<<u>>) = u /\ at = h
      BY <2>1
    <3>2. \/ messages' = RunUpdates(queue \o <<u>>, messages, h)
          \/ messages' = RunUpdates(<<>>, Apply(u, messages, h), h)
      BY <1>2, <3>1 DEF Commit
    <3>3. RunUpdates(queue \o <<u>>, messages, h) = Apply(u, RunUpdates(queue, messages, h), h)
      BY <1>1, <1>3, RunMore
    <3> HIDE DEF D
    <3> QED
      BY <1>4, <1>5, <3>2, <3>3, RunNone
  <2>2. CASE Flushed(gen) # <<>>
    <3> DEFINE S == {u, Chunk}
    <3>1. Flushed(gen) = <<Chunk>> /\ Chunk \in Updates(gen) /\ at = gen
      BY <2>2, FlushedIs
    <3>2. Chunk.op # "set"
      BY DEF Chunk
    <3> HIDE DEF at
    <3>3. Flushed(gen) \o <<u>> = <<Chunk, u>> /\ Tail(<<Chunk, u>>) = <<u>> /\ Head(<<Chunk, u>>) = Chunk
      <4>1. u \in S /\ Chunk \in S
        OBVIOUS
      <4> HIDE DEF S
      <4>2. <<Chunk>> \o <<u>> = <<Chunk, u>>
        BY <4>1, TailOfTwo
      <4> QED
        BY <3>1, <4>2
    <3>4. \/ messages' = RunUpdates(queue \o <<Chunk, u>>, messages, h)
          \/ messages' = RunUpdates(<<u>>, Apply(Chunk, messages, gen), h)
      BY <1>2, <3>1, <3>3 DEF Commit
    <3>5. \A k : \A x \in D : Apply(Chunk, x, k) \in D
      BY <1>1, <3>1, <3>2, ApplyDated
    <3>6. RunUpdates(queue \o <<Chunk, u>>, messages, h)
          = Apply(u, Apply(Chunk, RunUpdates(queue, messages, h), h), h)
      BY <1>1, <1>3, <3>1, RunTwoMore
    <3>7. RunUpdates(<<u>>, Apply(Chunk, messages, gen), h) = Apply(u, Apply(Chunk, messages, gen), h)
      <4>1. Apply(Chunk, messages, gen) \in Seq(Message)
        BY <1>1, <3>1, ApplyType
      <4>2. \A x \in Seq(Message) : Apply(u, x, h) \in Seq(Message)
        BY <1>1, <1>3, ApplyType
      <4> QED
        BY <4>1, <4>2, RunOne
    <3> HIDE DEF D
    <3> QED
      BY <1>4, <1>5, <3>4, <3>5, <3>6, <3>7
  <2> QED
    BY <2>1, <2>2
<1>7. messages' \in Dated(h) /\ storage \in Dated(h)
  BY <1>1, <1>6, DatedLater
<1>8. latest' = messages' /\ queue' = <<>> /\ storage' = storage
  BY <1>2 DEF Commit
<1>9. KnownInv'
  <2> HIDE DEF h
  <2> QED
    BY <1>2, <1>7, <1>8 DEF KnownInv
<1> QED
  BY <1>2, <1>9 DEF WholeInv

WholeOK == ChatOK /\ KnownInv /\ WholeInv

LEMMA InitWhole == Init => WholeOK
<1> SUFFICES ASSUME Init PROVE WholeOK
  OBVIOUS
<1>1. messages = <<>> /\ latest = <<>> /\ storage = <<>> /\ queue = <<>> /\ intact = FALSE
      /\ pending.gen = gen
  BY DEF Init
<1>2. KnownInv
  BY <1>1, NoneDated DEF KnownInv
<1> QED
  BY <1>1, <1>2, InitChat DEF WholeOK, WholeInv

LEMMA NextWhole ==
    ASSUME NoEcho, WholeOK, [Next]_vars
    PROVE  WholeOK'
<1>0. ChatOK /\ KnownInv /\ WholeInv
  BY DEF WholeOK
<1> SUFFICES KnownInv' /\ WholeInv'
  BY <1>0, NextChat DEF WholeOK
<1>1. CASE HandleSendMessage
  BY <1>0, <1>1, HandleSendMessageWhole
<1>2. ASSUME NEW i \in DOMAIN messages, HandleRegenerateMessage(i) PROVE KnownInv' /\ WholeInv'
  BY <1>0, <1>2, HandleRegenerateMessageWhole
<1>3. CASE HandleEditOpenChange \/ \E i \in DOMAIN messages : HandleEditMessage(i)
  BY <1>0, <1>3, EditorWhole
<1>4. CASE ApplyEdit
  BY <1>0, <1>4, ApplyEditWhole
<1>5. ASSUME NEW i \in DOMAIN messages, HandleDeleteMessage(i) PROVE KnownInv' /\ WholeInv'
  BY <1>0, <1>5, HandleDeleteMessageWhole
<1>6. CASE HandleClearMessages
  BY <1>0, <1>6, HandleClearMessagesWhole
<1>7. CASE StopGeneration
  BY <1>0, <1>7, StopGenerationWhole
<1>8. ASSUME NEW w \in waits, HeadersReady(w) PROVE KnownInv' /\ WholeInv'
  BY <1>0, <1>8, HeadersReadyWhole
<1>9. ASSUME NEW w \in waits, HeadersFail(w) PROVE KnownInv' /\ WholeInv'
  BY <1>0, <1>9, HeadersFailWhole
<1>10. ASSUME NEW s \in open, SourceDelta(s) PROVE KnownInv' /\ WholeInv'
  BY <1>0, <1>10, SourceDeltaWhole
<1>11. ASSUME NEW s \in open, SourceDone(s) PROVE KnownInv' /\ WholeInv'
  BY <1>0, <1>11, SourceEndWhole
<1>12. ASSUME NEW s \in open, SourceError(s) PROVE KnownInv' /\ WholeInv'
  BY <1>0, <1>12, SourceEndWhole
<1>13. ASSUME NEW s \in open, SourceCut(s) PROVE KnownInv' /\ WholeInv'
  BY <1>0, <1>13, SourceCutWhole
<1>14. ASSUME NEW g \in calls, ChatCompletion(g) PROVE KnownInv' /\ WholeInv'
  BY <1>0, <1>14, ChatCompletionWhole
<1>15. ASSUME NEW g \in calls, ChatCompletionFails(g) PROVE KnownInv' /\ WholeInv'
  BY <1>0, <1>15, ChatCompletionFailsWhole
<1>16. CASE FlushTimer
  BY <1>0, <1>16, FlushTimerWhole
<1>17. CASE Render
  BY <1>0, <1>17, RenderWhole
<1>18. CASE SaveTimer
  BY <1>0, <1>18, SaveTimerWhole
<1>19. CASE Unmount \/ Crash
  BY <1>0, <1>19, LeaveWhole
<1>20. CASE Mount
  BY <1>0, <1>20, MountWhole
<1>21. CASE UNCHANGED vars
  BY <1>0, <1>21, StillWhole DEF vars, ctlVars, chatVars, flagVars, msgVars, uiVars, histVars
<1> QED
  BY <1>1, <1>2, <1>3, <1>4, <1>5, <1>6, <1>7, <1>8, <1>9, <1>10, <1>11, <1>12, <1>13, <1>14,
     <1>15, <1>16, <1>17, <1>18, <1>19, <1>20, <1>21 DEF Next

\* If no text of the script can be taken for a repetition, then at every
\* moment of an undisturbed answer its message and the buffer together hold
\* exactly the text received, in the order it was received.
THEOREM WholeInvariant ==
    ASSUME NoEcho
    PROVE  Spec => [](TypeOK /\ ChatInv /\ KnownInv /\ WholeInv)
<1>1. Init => WholeOK
  BY InitWhole
<1>2. WholeOK /\ [Next]_vars => WholeOK'
  BY NextWhole
<1>3. WholeOK => TypeOK /\ ChatInv /\ KnownInv /\ WholeInv
  BY DEF WholeOK, ChatOK
<1> QED
  BY <1>1, <1>2, <1>3, PTL DEF Spec

\* What both properties say of the last message.
LEMMA LastIsWhole ==
    ASSUME ChatOK, WholeInv, intact, queue = <<>>, messages # <<>>, Last(messages).req = gen,
           Last(messages).status \in {"complete", "streaming"}, pending.text = NoText
    PROVE  Last(messages).text = recv
<1> DEFINE n == Len(messages)
           m == Last(messages)
<1>1. messages \in Seq(Message) /\ Clean(messages) /\ recv \in Text
  BY DEF ChatOK, TypeOK, ChatInv, ConversationInv
<1>2. n \in DOMAIN messages /\ m = messages[n] /\ m \in Message
  BY <1>1 DEF Last
<1>3. m.from = "assistant"
  BY <1>1, <1>2 DEF Clean, Message
<1>4. View = messages
  BY NothingQueued
<1>5. Whole(m, gen, NoText, recv)
  BY <1>2, <1>4 DEF WholeInv
<1> HIDE DEF m, n
<1>6. m.status \in {"complete", "streaming"} /\ m.req = gen
  BY DEF m
<1>7. m.text.reasoning \o NoText.reasoning = recv.reasoning /\ m.text.content \o NoText.content = recv.content
  BY <1>3, <1>5, <1>6 DEF Whole, IsAnswer
<1>8. m.text \in Text
  BY <1>2 DEF Message
<1>9. m.text.reasoning \o NoText.reasoning = m.text.reasoning /\ m.text.content \o NoText.content = m.text.content
  BY <1>8 DEF Text, NoText
<1>10. m.text = recv
  BY <1>1, <1>7, <1>8, <1>9, SameText
<1> QED
  BY <1>10 DEF m

\* An answer that ran to [DONE] shows exactly the text received for it,
\* however the deltas were divided into flushes and whenever React ran them,
\* unless the user stopped it or saved an edit over it.
THEOREM CompletedTheorem ==
    ASSUME NoEcho
    PROVE  Spec => []CompletedIsWhole
<1>1. TypeOK /\ ChatInv /\ KnownInv /\ WholeInv => CompletedIsWhole
  <2> SUFFICES ASSUME TypeOK, ChatInv, WholeInv, intact, queue = <<>>, messages # <<>>,
                      Last(messages).req = gen, Last(messages).status = "complete"
               PROVE  Last(messages).text = recv
    BY DEF CompletedIsWhole
  <2>1. ChatOK
    BY DEF ChatOK
  <2>2. View = messages
    BY <2>1, NothingQueued
  <2>3. ~streaming
    <3> SUFFICES ASSUME streaming PROVE FALSE
      OBVIOUS
    <3>1. IsPending(Last(messages))
      BY <2>2 DEF WholeInv, Following, Streams, InStep
    <3> QED
      BY <3>1 DEF IsPending
  <2>4. pending.text = NoText
    BY <2>3 DEF ChatInv, ControlInv, FlagInv
  <2> QED
    BY <2>1, <2>4, LastIsWhole
<1> QED
  BY <1>1, WholeInvariant, PTL

\* While an answer streams, and no delta is buffered or queued, its message
\* holds the full raw text received.
THEOREM RawContentTheorem ==
    ASSUME NoEcho
    PROVE  Spec => []FullRawContent
<1>1. TypeOK /\ ChatInv /\ KnownInv /\ WholeInv => FullRawContent
  BY LastIsWhole DEF FullRawContent, ChatOK
<1> QED
  BY <1>1, WholeInvariant, PTL
=============================================================================
