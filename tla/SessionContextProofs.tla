------------------------ MODULE SessionContextProofs ------------------------
(***************************************************************************)
(* What a context shows: TypeOK, ContextIsPaired, GroupsFoldTogether and    *)
(* NothingIsLost for every session.  The first part proves what Select,     *)
(* Highest and Lowest compute, by induction over the indices; then what the *)
(* sanitizer, the arrangement of a context and the alignment of a boundary  *)
(* give for any list of messages.  The invariants follow, with the log only *)
(* growing (Grows) while an actor waits.  NothingIsLost comes last: the     *)
(* next context finds the head of a compression again from the flags alone, *)
(* so what the head looked like is part of its invariant (Keeps).           *)
(***************************************************************************)
EXTENDS SessionContext, FiniteSetTheorems, WellFoundedInduction, TLAPS

-----------------------------------------------------------------------------
(* Natural numbers *)

\* A set of natural numbers that is not empty has a least element.
LEMMA Least ==
  ASSUME NEW T, T \subseteq Nat, T # {}
  PROVE  \E x \in T : \A y \in T : x <= y
<1>0. PICK n \in Nat : n \in T
  OBVIOUS
<1>d. IsFiniteSet(0..n)
  BY FS_Interval
<1>1. IsWellFoundedOn(StrictSubsetOrdering(0..n), FiniteSubsetsOf(0..n))
  BY <1>d, FS_StrictSubsetOrderingWellFounded
<1> DEFINE F == {0..x : x \in {y \in T : y <= n}}
<1>2. F \subseteq FiniteSubsetsOf(0..n)
  <2> SUFFICES ASSUME NEW x \in T, x <= n PROVE 0..x \in SUBSET (0..n) /\ IsFiniteSet(0..x)
    BY DEF FiniteSubsetsOf
  <2>1. \A z \in 0..x : z \in 0..n
    BY <1>0
  <2>2. IsFiniteSet(0..x)
    BY FS_Interval
  <2> QED BY <2>1, <2>2
<1>3. F # {}
  BY <1>0
<1> HIDE DEF F
<1>4. PICK A \in F : \A B \in F : <<B, A>> \notin StrictSubsetOrdering(0..n)
  BY <1>1, <1>2, <1>3, WFMin
<1>5. PICK x \in T : x <= n /\ A = 0..x
  BY DEF F
<1>6. ASSUME NEW y \in T PROVE x <= y
  <2> SUFFICES ASSUME y < x PROVE FALSE
    BY <1>5
  <2>1. 0..y \in F
    BY <1>5 DEF F
  <2>2. 0..y \subseteq A /\ x \in A /\ x \notin 0..y
    BY <1>5
  <2>3. 0..y \in SUBSET (0..n) /\ A \in SUBSET (0..n)
    BY <1>5, <2>2
  <2>4. <<0..y, A>> \in StrictSubsetOrdering(0..n)
    BY <2>2, <2>3 DEF StrictSubsetOrdering
  <2> QED BY <1>4, <2>1, <2>4
<1> QED BY <1>6

\* Induction, about a set of natural numbers.
LEMMA SetInduction ==
  ASSUME NEW S, 0 \in S, \A n \in Nat : n \in S => n + 1 \in S
  PROVE  Nat \subseteq S
<1> SUFFICES ASSUME Nat \ S # {} PROVE FALSE
  OBVIOUS
<1>1. PICK x \in Nat \ S : \A y \in Nat \ S : x <= y
  BY Least
<1>2. x # 0
  OBVIOUS
<1>3. x - 1 \in Nat /\ x - 1 \in S /\ (x - 1) + 1 = x
  BY <1>1, <1>2
<1> QED BY <1>3

\* The highest element of a bounded set.
LEMMA HighestIs ==
  ASSUME NEW S, S \subseteq Nat, S # {}, NEW n \in Nat, \A x \in S : x <= n
  PROVE  Highest(S) \in S /\ \A j \in S : j <= Highest(S)
<1> DEFINE T == {n - x : x \in S}
<1>1. T \subseteq Nat /\ T # {}
  <2>1. \A x \in S : n - x \in Nat
    OBVIOUS
  <2> QED BY <2>1, Zenon
<1>2. PICK t \in T : \A y \in T : t <= y
  BY <1>1, Least
<1>3. PICK x \in S : t = n - x
  OBVIOUS
<1>4. ASSUME NEW y \in S PROVE y <= x
  <2>1. n - y \in T
    OBVIOUS
  <2> QED BY <1>2, <1>3, <2>1
<1> HIDE DEF T
<1> QED BY <1>4 DEF Highest

LEMMA LowestIs ==
  ASSUME NEW S, S \subseteq Nat, S # {}
  PROVE  Lowest(S) \in S /\ \A j \in S : Lowest(S) <= j
<1>1. \E x \in S : \A y \in S : x <= y
  BY Least
<1> QED BY <1>1 DEF Lowest

-----------------------------------------------------------------------------
(* The elements a sequence keeps *)

\* What Select computes, step by step.
Steps(es, S, n, f) ==
  f = [k \in 0..n |-> IF k = 0 THEN <<>>
                      ELSE IF k \in S THEN Append(f[k - 1], es[k]) ELSE f[k - 1]]

LEMMA StepsExist ==
  ASSUME NEW es, NEW S
  PROVE  \A n \in Nat : \E f : Steps(es, S, n, f)
<1> DEFINE T == {n \in Nat : \E f : Steps(es, S, n, f)}
<1>1. 0 \in T
  <2> DEFINE g == [k \in 0..0 |-> <<>>]
  <2>1. Steps(es, S, 0, g)
    BY DEF Steps
  <2> QED BY <2>1
<1>2. ASSUME NEW n \in Nat, n \in T PROVE n + 1 \in T
  <2>1. PICK f : Steps(es, S, n, f)
    BY <1>2
  <2> DEFINE g == [k \in 0..(n + 1) |->
                     IF k <= n THEN f[k]
                     ELSE IF k \in S THEN Append(f[n], es[k]) ELSE f[n]]
  <2>2. f = [k \in 0..n |-> IF k = 0 THEN <<>>
                      ELSE IF k \in S THEN Append(f[k - 1], es[k]) ELSE f[k - 1]]
    BY <2>1 DEF Steps
  <2>3. ASSUME NEW k \in 0..(n + 1)
        PROVE  g[k] = IF k = 0 THEN <<>>
                      ELSE IF k \in S THEN Append(g[k - 1], es[k]) ELSE g[k - 1]
    <3>1. CASE k = 0
      BY <3>1, <2>2
    <3>2. CASE k # 0 /\ k <= n
      <4>1. k \in 0..n /\ k - 1 \in 0..n
        BY <3>2
      <4>2. g[k] = f[k] /\ g[k - 1] = f[k - 1]
        BY <4>1
      <4>3. f[k] = IF k \in S THEN Append(f[k - 1], es[k]) ELSE f[k - 1]
        BY <2>2, <4>1, <3>2
      <4> QED BY <4>2, <4>3, <3>2
    <3>3. CASE k = n + 1
      <4>1. k - 1 = n /\ k - 1 \in 0..(n + 1) /\ ~(k <= n) /\ k # 0
        BY <3>3
      <4>2. g[k - 1] = f[n]
        BY <4>1
      <4>3. g[k] = IF k \in S THEN Append(f[n], es[k]) ELSE f[n]
        BY <4>1
      <4> QED BY <4>1, <4>2, <4>3
    <3> QED BY <3>1, <3>2, <3>3
  <2>4. g = [k \in 0..(n + 1) |-> g[k]]
    OBVIOUS
  <2> HIDE DEF g
  <2>5. Steps(es, S, n + 1, g)
    BY <2>3, <2>4 DEF Steps
  <2> QED BY <2>5
<1> HIDE DEF T
<1>3. Nat \subseteq T
  BY <1>1, <1>2, SetInduction
<1> QED BY <1>3 DEF T

LEMMA SelectSteps ==
  ASSUME NEW es, NEW S, Len(es) \in Nat
  PROVE  \E f : Steps(es, S, Len(es), f) /\ Select(es, S) = f[Len(es)]
<1> DEFINE f == CHOOSE f : f = [k \in 0..Len(es) |-> IF k = 0 THEN <<>>
                  ELSE IF k \in S THEN Append(f[k - 1], es[k]) ELSE f[k - 1]]
<1>1. Select(es, S) = f[Len(es)]
  BY DEF Select
<1>2. PICK g : Steps(es, S, Len(es), g)
  BY StepsExist
<1>3. f = [k \in 0..Len(es) |-> IF k = 0 THEN <<>>
             ELSE IF k \in S THEN Append(f[k - 1], es[k]) ELSE f[k - 1]]
  BY <1>2 DEF Steps
<1> HIDE DEF f
<1> QED BY <1>1, <1>3 DEF Steps

\* q keeps the elements of es at the places S, in order: f says where each comes from.
Picks(q, es, S, f) ==
  /\ f \in [DOMAIN q -> S]
  /\ \A i, j \in DOMAIN q : i < j => f[i] < f[j]
  /\ \A s \in S : \E i \in DOMAIN q : f[i] = s
  /\ \A i \in DOMAIN q : q[i] = es[f[i]]

LEMMA SelectPicks ==
  ASSUME NEW X, NEW es \in Seq(X), NEW S, S \subseteq DOMAIN es
  PROVE  /\ Select(es, S) \in Seq(X)
         /\ \E f : Picks(Select(es, S), es, S, f)
<1>0. Len(es) \in Nat /\ DOMAIN es = 1..Len(es) /\ \A k \in 1..Len(es) : es[k] \in X
  OBVIOUS
<1>1. PICK g : Steps(es, S, Len(es), g) /\ Select(es, S) = g[Len(es)]
  BY <1>0, SelectSteps
<1>2. g = [k \in 0..Len(es) |-> IF k = 0 THEN <<>>
             ELSE IF k \in S THEN Append(g[k - 1], es[k]) ELSE g[k - 1]]
  BY <1>1 DEF Steps
<1> DEFINE Ok(n) == g[n] \in Seq(X) /\ \E f : Picks(g[n], es, S \intersect 1..n, f)
           T == {n \in Nat : n <= Len(es) => Ok(n)}
<1>3. 0 \in T
  <2>1. g[0] = <<>>
    BY <1>0, <1>2
  <2>2. Picks(<<>>, es, S \intersect 1..0, <<>>)
    BY DEF Picks
  <2>3. <<>> \in Seq(X)
    OBVIOUS
  <2> QED BY <2>1, <2>2, <2>3
<1>4. ASSUME NEW n \in Nat, n \in T PROVE n + 1 \in T
  <2> SUFFICES ASSUME n + 1 <= Len(es) PROVE Ok(n + 1)
    <3> HIDE DEF Ok
    <3> QED OBVIOUS
  <2>1. n <= Len(es)
    BY <1>0
  <2>2. g[n] \in Seq(X)
    BY <1>4, <2>1
  <2>3. PICK f : Picks(g[n], es, S \intersect 1..n, f)
    BY <1>4, <2>1
  <2>4. g[n + 1] = IF n + 1 \in S THEN Append(g[n], es[n + 1]) ELSE g[n]
    <3>1. n + 1 \in 0..Len(es) /\ n + 1 # 0 /\ (n + 1) - 1 = n
      BY <1>0
    <3> QED BY <1>2, <3>1
  <2>5. CASE n + 1 \notin S
    <3>1. S \intersect 1..(n + 1) = S \intersect 1..n
      BY <2>5
    <3> QED BY <2>2, <2>3, <2>4, <2>5, <3>1
  <2>6. CASE n + 1 \in S
    <3> DEFINE q == g[n]
               r == Append(q, es[n + 1])
               h == [i \in 1..(Len(q) + 1) |-> IF i <= Len(q) THEN f[i] ELSE n + 1]
    <3>1. g[n + 1] = r
      BY <2>4, <2>6
    <3>2. q \in Seq(X) /\ es[n + 1] \in X
      BY <2>2, <1>0
    <3>3. Len(q) \in Nat /\ DOMAIN q = 1..Len(q)
      BY <3>2
    <3>4. /\ r \in Seq(X) /\ DOMAIN r = 1..(Len(q) + 1)
          /\ \A i \in 1..Len(q) : r[i] = q[i]
          /\ r[Len(q) + 1] = es[n + 1]
      BY <3>2, <3>3
    <3>5. /\ f \in [1..Len(q) -> S \intersect 1..n]
          /\ \A i, j \in 1..Len(q) : i < j => f[i] < f[j]
          /\ \A s \in S \intersect 1..n : \E i \in 1..Len(q) : f[i] = s
          /\ \A i \in 1..Len(q) : q[i] = es[f[i]]
      BY <2>3, <3>3 DEF Picks
    <3> HIDE DEF q, r
    <3>6. h \in [DOMAIN r -> S \intersect 1..(n + 1)]
      BY <2>6, <3>3, <3>4, <3>5
    <3>7. ASSUME NEW i \in DOMAIN r, NEW j \in DOMAIN r, i < j PROVE h[i] < h[j]
      <4>1. i \in 1..Len(q) /\ h[i] = f[i] /\ f[i] \in 1..n
        BY <3>3, <3>4, <3>5, <3>7
      <4>2. CASE j \in 1..Len(q)
        BY <4>1, <4>2, <3>3, <3>5, <3>7
      <4>3. CASE j = Len(q) + 1
        BY <4>1, <4>3, <3>3
      <4> QED BY <4>2, <4>3, <3>3, <3>4
    <3>8. ASSUME NEW s \in S \intersect 1..(n + 1) PROVE \E i \in DOMAIN r : h[i] = s
      <4>1. CASE s = n + 1
        <5>1. Len(q) + 1 \in DOMAIN r /\ h[Len(q) + 1] = s
          BY <4>1, <3>3, <3>4
        <5> QED BY <5>1
      <4>2. CASE s \in 1..n
        <5>1. PICK i \in 1..Len(q) : f[i] = s
          BY <4>2, <3>5
        <5>2. i \in DOMAIN r /\ h[i] = s
          BY <5>1, <3>3, <3>4
        <5> QED BY <5>2
      <4> QED BY <4>1, <4>2
    <3>9. ASSUME NEW i \in DOMAIN r PROVE r[i] = es[h[i]]
      <4>1. CASE i \in 1..Len(q)
        BY <4>1, <3>3, <3>4, <3>5
      <4>2. CASE i = Len(q) + 1
        BY <4>2, <3>3, <3>4
      <4> QED BY <4>1, <4>2, <3>3, <3>4
    <3> HIDE DEF h
    <3>10. Picks(r, es, S \intersect 1..(n + 1), h)
      BY <3>6, <3>7, <3>8, <3>9 DEF Picks
    <3> QED BY <3>1, <3>4, <3>10
  <2> QED BY <2>5, <2>6
<1>5. Nat \subseteq T
  <2> HIDE DEF T
  <2> QED BY <1>3, <1>4, SetInduction
<1>6. Ok(Len(es))
  <2> HIDE DEF Ok
  <2> QED BY <1>0, <1>5
<1>7. S \intersect 1..Len(es) = S
  BY <1>0
<1> QED BY <1>0, <1>1, <1>6, <1>7

-----------------------------------------------------------------------------
(* Calls and results in a context *)

Entries == [at : Nat, calls : SUBSET (Nat \X Nat)]

IsTool(lg, e) == lg[e.at].role = "tool"

\* The message k of es follows the message i over results only.
Behind(lg, es, i, k) ==
  /\ i \in DOMAIN es /\ i < k
  /\ ~IsTool(lg, es[i])
  /\ \A j \in (i + 1)..(k - 1) : IsTool(lg, es[j])

\* The results and the calls of es belong together.
Paired(lg, es) ==
  \A k \in DOMAIN es :
    /\ IsTool(lg, es[k]) =>
         \E i \in DOMAIN es : Behind(lg, es, i, k) /\ lg[es[k].at].call \in es[i].calls
    /\ ~IsTool(lg, es[k]) =>
         \A c \in es[k].calls : \E m \in DOMAIN es :
           IsTool(lg, es[m]) /\ Behind(lg, es, k, m) /\ lg[es[m].at].call = c

\* Owner is the message a result follows, if there is one.
LEMMA OwnerIs ==
  ASSUME NEW es \in Seq(Entries), NEW k \in DOMAIN es
  PROVE  /\ Owner(es, k) # 0 => Owner(es, k) \in DOMAIN es /\ Behind(log, es, Owner(es, k), k)
         /\ \A i \in DOMAIN es : Behind(log, es, i, k) => Owner(es, k) = i
<1> DEFINE S == {0} \union {i \in 1..(k - 1) : ~Tool(es[i])}
<1>1. Len(es) \in Nat /\ DOMAIN es = 1..Len(es) /\ k \in Nat
  OBVIOUS
<1>2. S \subseteq Nat /\ S # {} /\ \A x \in S : x <= k
  BY <1>1
<1>3. Owner(es, k) = Highest(S)
  BY DEF Owner
<1>4. Highest(S) \in S /\ \A j \in S : j <= Highest(S)
  <2> HIDE DEF S
  <2> QED BY <1>1, <1>2, HighestIs
<1>5. ASSUME Highest(S) # 0
      PROVE  Highest(S) \in DOMAIN es /\ Behind(log, es, Highest(S), k)
  <2>1. PICK h : h = Highest(S)
    OBVIOUS
  <2>2. h \in 1..(k - 1) /\ ~Tool(es[h]) /\ \A j \in S : j <= h
    BY <1>4, <1>5, <2>1
  <2>3. ASSUME NEW j \in (h + 1)..(k - 1) PROVE Tool(es[j])
    <3>1. j \in 1..(k - 1) /\ ~(j <= h)
      BY <1>1, <2>2
    <3>2. j \notin S
      <4> HIDE DEF S
      <4> QED BY <2>2, <3>1
    <3> QED BY <3>1, <3>2
  <2>4. h \in DOMAIN es /\ h < k
    BY <1>1, <2>2
  <2>5. Behind(log, es, h, k)
    BY <2>2, <2>3, <2>4 DEF Behind, Tool, IsTool
  <2> QED BY <2>1, <2>4, <2>5
<1>6. ASSUME NEW i \in DOMAIN es, Behind(log, es, i, k) PROVE Highest(S) = i
  <2>1. i \in S
    BY <1>1, <1>6 DEF Behind, Tool, IsTool
  <2>2. PICK h : h = Highest(S)
    OBVIOUS
  <2>3. h \in S /\ i <= h
    BY <1>4, <2>1, <2>2
  <2>4. h \in 1..(k - 1) /\ ~Tool(es[h])
    BY <1>1, <2>3
  <2>5. h \notin (i + 1)..(k - 1)
    BY <1>6, <2>4 DEF Behind, Tool, IsTool
  <2> QED BY <1>1, <2>2, <2>3, <2>4, <2>5
<1> QED BY <1>3, <1>5, <1>6

LEMMA AnswersAre ==
  ASSUME NEW es \in Seq(Entries), NEW i \in DOMAIN es, NEW c
  PROVE  c \in Answers(es, i) <=>
           \E m \in DOMAIN es :
             IsTool(log, es[m]) /\ Behind(log, es, i, m) /\ log[es[m].at].call = c
<1>0. i # 0
  OBVIOUS
<1>1. ASSUME c \in Answers(es, i)
      PROVE  \E m \in DOMAIN es :
               IsTool(log, es[m]) /\ Behind(log, es, i, m) /\ log[es[m].at].call = c
  <2>1. PICK m \in DOMAIN es : Tool(es[m]) /\ Owner(es, m) = i /\ log[es[m].at].call = c
    BY <1>1 DEF Answers
  <2>2. Behind(log, es, i, m)
    BY <1>0, <2>1, OwnerIs
  <2> QED BY <2>1, <2>2 DEF Tool, IsTool
<1>2. ASSUME NEW m \in DOMAIN es,
             IsTool(log, es[m]), Behind(log, es, i, m), log[es[m].at].call = c
      PROVE  c \in Answers(es, i)
  <2>1. Owner(es, m) = i
    BY <1>2, OwnerIs
  <2> QED BY <1>2, <2>1 DEF Answers, Tool, IsTool
<1> QED BY <1>1, <1>2

LEMMA TrimmedIs ==
  ASSUME NEW es \in Seq(Entries), NEW k \in DOMAIN es
  PROVE  /\ Trimmed(es, k) \in Entries
         /\ Trimmed(es, k).at = es[k].at
         /\ Trimmed(es, k).calls = es[k].calls \intersect Answers(es, k)
<1>1. es[k] \in Entries
  OBVIOUS
<1> QED BY <1>1 DEF Trimmed, Entries

\* A result stays behind the message that asked for it.
LEMMA ToolStays ==
  ASSUME NEW es \in Seq(Entries), NEW k \in DOMAIN es, IsTool(log, es[k])
  PROVE  Stays(es, k) <=>
           \E i \in DOMAIN es : Behind(log, es, i, k) /\ log[es[k].at].call \in es[i].calls
<1>1. Tool(es[k])
  BY DEF Tool, IsTool
<1>2. Stays(es, k) <=> (Owner(es, k) # 0 /\ log[es[k].at].call \in es[Owner(es, k)].calls)
  BY <1>1 DEF Stays
<1>3. ASSUME Stays(es, k)
      PROVE  \E i \in DOMAIN es : Behind(log, es, i, k) /\ log[es[k].at].call \in es[i].calls
  BY <1>2, <1>3, OwnerIs
<1>4. ASSUME NEW i \in DOMAIN es, Behind(log, es, i, k), log[es[k].at].call \in es[i].calls
      PROVE  Stays(es, k)
  <2>1. Owner(es, k) = i /\ i # 0
    BY <1>4, OwnerIs
  <2> QED BY <1>2, <1>4, <2>1
<1> QED BY <1>3, <1>4

LEMMA OtherStays ==
  ASSUME NEW es \in Seq(Entries), NEW k \in DOMAIN es, ~IsTool(log, es[k])
  PROVE  Stays(es, k) <=>
           (es[k].calls = {} \/ Trimmed(es, k).calls # {} \/ log[es[k].at].text)
BY DEF Stays, Tool, IsTool

\* Where the messages of a sanitized context come from.
LEMMA SanitizedPicks ==
  ASSUME NEW es \in Seq(Entries)
  PROVE  /\ Sanitized(es) \in Seq(Entries)
         /\ \E f : Picks(Sanitized(es), [k \in DOMAIN es |-> Trimmed(es, k)],
                         {k \in DOMAIN es : Stays(es, k)}, f)
<1> DEFINE tr == [k \in DOMAIN es |-> Trimmed(es, k)]
           S == {k \in DOMAIN es : Stays(es, k)}
<1>1. Len(es) \in Nat /\ DOMAIN es = 1..Len(es)
  OBVIOUS
<1>2. \A k \in DOMAIN es : Trimmed(es, k) \in Entries
  BY TrimmedIs
<1>3. tr \in Seq(Entries) /\ DOMAIN tr = DOMAIN es
  BY <1>1, <1>2
<1>4. S \subseteq DOMAIN tr
  BY <1>3
<1>5. Sanitized(es) = Select(tr, S)
  BY DEF Sanitized
<1> HIDE DEF tr, S
<1>6. Select(tr, S) \in Seq(Entries) /\ \E f : Picks(Select(tr, S), tr, S, f)
  BY <1>3, <1>4, SelectPicks
<1> QED BY <1>5, <1>6 DEF tr, S

\* What a sanitized context is made of: f says where each message comes from.
SanitizedFrom(q, es, f) ==
  /\ f \in [DOMAIN q -> DOMAIN es]
  /\ \A i, j \in DOMAIN q : i < j <=> f[i] < f[j]
  /\ \A i \in DOMAIN q : Stays(es, f[i])
  /\ \A k \in DOMAIN es : Stays(es, k) => \E i \in DOMAIN q : f[i] = k
  /\ \A i \in DOMAIN q : /\ q[i].at = es[f[i]].at
                         /\ q[i].calls = es[f[i]].calls \intersect Answers(es, f[i])

LEMMA SanitizedIs ==
  ASSUME NEW es \in Seq(Entries)
  PROVE  /\ Sanitized(es) \in Seq(Entries)
         /\ \E f : SanitizedFrom(Sanitized(es), es, f)
<1> DEFINE tr == [k \in DOMAIN es |-> Trimmed(es, k)]
           S == {k \in DOMAIN es : Stays(es, k)}
<1>0. PICK q : q = Sanitized(es)
  OBVIOUS
<1>1. q \in Seq(Entries)
  BY <1>0, SanitizedPicks
<1>2. PICK f : Picks(q, tr, S, f)
  BY <1>0, SanitizedPicks
<1>3. /\ f \in [DOMAIN q -> S]
      /\ \A i, j \in DOMAIN q : i < j => f[i] < f[j]
      /\ \A s \in S : \E i \in DOMAIN q : f[i] = s
      /\ \A i \in DOMAIN q : q[i] = tr[f[i]]
  BY <1>2 DEF Picks
<1>4. \A i \in DOMAIN q : f[i] \in DOMAIN es /\ Stays(es, f[i])
  BY <1>3
<1>5. \A k \in DOMAIN es : Stays(es, k) => \E i \in DOMAIN q : f[i] = k
  BY <1>3
<1>6. \A i \in DOMAIN q : q[i] = Trimmed(es, f[i])
  BY <1>3, <1>4
<1>7. \A i, j \in DOMAIN q : i < j <=> f[i] < f[j]
  <2> SUFFICES ASSUME NEW i \in DOMAIN q, NEW j \in DOMAIN q PROVE i < j <=> f[i] < f[j]
    OBVIOUS
  <2>1. i \in Nat /\ j \in Nat
    BY <1>1
  <2>2. f[i] \in Nat /\ f[j] \in Nat
    BY <1>4
  <2>3. i < j => f[i] < f[j]
    BY <1>3
  <2>4. j < i => f[j] < f[i]
    BY <1>3
  <2>5. i < j \/ i = j \/ j < i
    BY <2>1
  <2> QED BY <2>1, <2>2, <2>3, <2>4, <2>5
<1>8. \A i \in DOMAIN q : /\ q[i].at = es[f[i]].at
                          /\ q[i].calls = es[f[i]].calls \intersect Answers(es, f[i])
  BY <1>4, <1>6, TrimmedIs
<1>9. f \in [DOMAIN q -> DOMAIN es]
  BY <1>3, <1>4
<1>10. SanitizedFrom(q, es, f)
  BY <1>4, <1>5, <1>7, <1>8, <1>9 DEF SanitizedFrom
<1> QED BY <1>0, <1>1, <1>10

\* What follows a message over results only still does when others are dropped.
LEMMA SanitizedBehind ==
  ASSUME NEW es \in Seq(Entries), NEW q \in Seq(Entries), NEW f, SanitizedFrom(q, es, f),
         NEW i \in DOMAIN q, NEW k \in DOMAIN q, Behind(log, es, f[i], f[k])
  PROVE  Behind(log, q, i, k)
<1>0. f[i] \in DOMAIN es /\ f[k] \in DOMAIN es /\ i \in Nat /\ k \in Nat
  BY DEF SanitizedFrom
<1>1. i < k
  BY DEF SanitizedFrom, Behind
<1>2. ~IsTool(log, q[i])
  BY DEF SanitizedFrom, Behind, IsTool
<1>3. ASSUME NEW j \in (i + 1)..(k - 1) PROVE IsTool(log, q[j])
  <2>1. j \in DOMAIN q /\ i < j /\ j < k
    BY <1>0
  <2>2. f[j] \in DOMAIN es /\ f[i] < f[j] /\ f[j] < f[k]
    BY <2>1 DEF SanitizedFrom
  <2>3. f[j] \in (f[i] + 1)..(f[k] - 1)
    BY <1>0, <2>2
  <2>4. IsTool(log, es[f[j]])
    BY <2>3 DEF Behind
  <2> QED BY <2>1, <2>4 DEF SanitizedFrom, IsTool
<1> QED BY <1>1, <1>2, <1>3 DEF Behind

\* _sanitize_conversation_tool_pairs: whatever it is given, calls and results of what it
\* returns belong together.
LEMMA SanitizedIsPaired ==
  ASSUME NEW es \in Seq(Entries)
  PROVE  Paired(log, Sanitized(es))
<1>0. PICK q : q = Sanitized(es)
  OBVIOUS
<1>1. q \in Seq(Entries)
  BY <1>0, SanitizedIs
<1>2. PICK f : SanitizedFrom(q, es, f)
  BY <1>0, SanitizedIs
<1>3. \A i \in DOMAIN q : f[i] \in DOMAIN es /\ Stays(es, f[i]) /\ q[i].at = es[f[i]].at
  BY <1>2 DEF SanitizedFrom
<1>4. ASSUME NEW k \in DOMAIN q, IsTool(log, q[k])
      PROVE  \E i \in DOMAIN q : Behind(log, q, i, k) /\ log[q[k].at].call \in q[i].calls
  <2>1. f[k] \in DOMAIN es /\ IsTool(log, es[f[k]]) /\ Stays(es, f[k])
    BY <1>3, <1>4 DEF IsTool
  <2>2. PICK o \in DOMAIN es : Behind(log, es, o, f[k]) /\ log[es[f[k]].at].call \in es[o].calls
    BY <2>1, ToolStays
  <2>3. log[es[f[k]].at].call \in Answers(es, o)
    BY <2>1, <2>2, AnswersAre
  <2>4. log[es[f[k]].at].call \in Trimmed(es, o).calls
    BY <2>2, <2>3, TrimmedIs
  <2>5. ~IsTool(log, es[o])
    BY <2>2 DEF Behind
  <2>6. Stays(es, o)
    BY <2>4, <2>5, OtherStays
  <2>7. PICK i \in DOMAIN q : f[i] = o
    BY <1>2, <2>6 DEF SanitizedFrom
  <2>8. Behind(log, q, i, k)
    BY <1>1, <1>2, <2>2, <2>7, SanitizedBehind
  <2>9. q[i].calls = es[o].calls \intersect Answers(es, o)
    BY <1>2, <2>7 DEF SanitizedFrom
  <2>10. log[q[k].at].call \in q[i].calls
    BY <1>3, <2>2, <2>3, <2>9
  <2> QED BY <2>8, <2>10
<1>5. ASSUME NEW k \in DOMAIN q, ~IsTool(log, q[k]), NEW c \in q[k].calls
      PROVE  \E m \in DOMAIN q :
               IsTool(log, q[m]) /\ Behind(log, q, k, m) /\ log[q[m].at].call = c
  <2>1. f[k] \in DOMAIN es /\ c \in es[f[k]].calls /\ c \in Answers(es, f[k])
    BY <1>2, <1>5 DEF SanitizedFrom
  <2>2. PICK o \in DOMAIN es :
          IsTool(log, es[o]) /\ Behind(log, es, f[k], o) /\ log[es[o].at].call = c
    BY <2>1, AnswersAre
  <2>3. Stays(es, o)
    BY <2>1, <2>2, ToolStays
  <2>4. PICK m \in DOMAIN q : f[m] = o
    BY <1>2, <2>3 DEF SanitizedFrom
  <2>5. Behind(log, q, k, m)
    BY <1>1, <1>2, <2>2, <2>4, SanitizedBehind
  <2>6. IsTool(log, q[m]) /\ log[q[m].at].call = c
    BY <1>3, <2>2, <2>4 DEF IsTool
  <2> QED BY <2>5, <2>6
<1>6. Paired(log, q)
  BY <1>4, <1>5 DEF Paired
<1> QED BY <1>0, <1>6

\* What Paired says, in the words of the property.
LEMMA PairedShows ==
  ASSUME NEW es \in Seq(Entries), Paired(log, es), NEW k \in DOMAIN es
  PROVE  IF Tool(es[k]) THEN Owner(es, k) # 0 /\ log[es[k].at].call \in es[Owner(es, k)].calls
         ELSE es[k].calls \subseteq Answers(es, k)
<1>1. CASE IsTool(log, es[k])
  <2>1. PICK i \in DOMAIN es : Behind(log, es, i, k) /\ log[es[k].at].call \in es[i].calls
    BY <1>1 DEF Paired
  <2>2. Owner(es, k) = i /\ i # 0
    BY <2>1, OwnerIs
  <2> QED BY <1>1, <2>1, <2>2 DEF Tool, IsTool
<1>2. CASE ~IsTool(log, es[k])
  <2>1. ASSUME NEW c \in es[k].calls PROVE c \in Answers(es, k)
    <3>1. \E m \in DOMAIN es :
            IsTool(log, es[m]) /\ Behind(log, es, k, m) /\ log[es[m].at].call = c
      BY <1>2 DEF Paired
    <3> QED BY <3>1, AnswersAre
  <2> QED BY <1>2, <2>1 DEF Tool, IsTool
<1> QED BY <1>1, <1>2

-----------------------------------------------------------------------------
(* The context of a session *)

Messages ==
  [role : {"user", "assistant", "tool"}, calls : SUBSET (Nat \X Nat), call : Nat \X Nat,
   text : BOOLEAN, summary : BOOLEAN, summarized : BOOLEAN, covers : SUBSET Nat,
   omits : SUBSET Nat]

LEMMA TwoParts ==
  ASSUME NEW X, NEW A \in Seq(X), NEW B \in Seq(X)
  PROVE  /\ A \o B \in Seq(X)
         /\ Len(A) \in Nat /\ Len(B) \in Nat
         /\ DOMAIN A = 1..Len(A) /\ DOMAIN B = 1..Len(B)
         /\ DOMAIN (A \o B) = 1..(Len(A) + Len(B))
         /\ \A k \in 1..Len(A) : (A \o B)[k] = A[k]
         /\ \A k \in 1..Len(B) : (A \o B)[Len(A) + k] = B[k]
         /\ \A k \in DOMAIN (A \o B) : k \notin 1..Len(A) => k - Len(A) \in 1..Len(B)
OBVIOUS

LEMMA ThreeParts ==
  ASSUME NEW X, NEW A \in Seq(X), NEW e \in X, NEW B \in Seq(X), NEW q,
         q = A \o <<e>> \o B
  PROVE  /\ q \in Seq(X)
         /\ Len(A) \in Nat /\ Len(B) \in Nat
         /\ DOMAIN A = 1..Len(A) /\ DOMAIN B = 1..Len(B)
         /\ DOMAIN q = 1..(Len(A) + 1 + Len(B))
         /\ \A k \in 1..Len(A) : q[k] = A[k]
         /\ q[Len(A) + 1] = e
         /\ \A k \in 1..Len(B) : q[Len(A) + 1 + k] = B[k]
         /\ \A k \in DOMAIN q : \/ k \in 1..Len(A)
                                \/ k = Len(A) + 1
                                \/ k - (Len(A) + 1) \in 1..Len(B)
<1>1. <<e>> \in Seq(X) /\ Len(<<e>>) = 1 /\ <<e>>[1] = e
  OBVIOUS
<1>2. PICK P : P = A \o <<e>>
  OBVIOUS
<1>3. P \in Seq(X) /\ Len(P) = Len(A) + 1 /\ P[Len(A) + 1] = e
      /\ \A k \in 1..Len(A) : P[k] = A[k]
  BY <1>1, <1>2
<1>4. q = P \o B
  BY <1>2
<1>5. Len(A) \in Nat /\ Len(B) \in Nat /\ DOMAIN A = 1..Len(A) /\ DOMAIN B = 1..Len(B)
  OBVIOUS
<1>6. q \in Seq(X) /\ DOMAIN q = 1..(Len(A) + 1 + Len(B))
  BY <1>3, <1>4, <1>5
<1>7. \A k \in 1..(Len(A) + 1) : q[k] = P[k]
  BY <1>3, <1>4, <1>5
<1>8. \A k \in 1..Len(B) : q[Len(A) + 1 + k] = B[k]
  BY <1>3, <1>4, <1>5
<1>9. \A k \in 1..Len(A) : q[k] = A[k]
  BY <1>3, <1>5, <1>7
<1>10. q[Len(A) + 1] = e
  BY <1>3, <1>5, <1>7
<1>11. \A k \in DOMAIN q : \/ k \in 1..Len(A)
                           \/ k = Len(A) + 1
                           \/ k - (Len(A) + 1) \in 1..Len(B)
  BY <1>5, <1>6
<1> QED BY <1>5, <1>6, <1>8, <1>9, <1>10, <1>11

LEMMA EntryIs ==
  ASSUME log \in Seq(Messages), NEW i \in DOMAIN log
  PROVE  Entry(i) \in Entries /\ Entry(i).at = i /\ Entry(i).calls = log[i].calls
<1>1. log[i] \in Messages /\ i \in Nat
  OBVIOUS
<1> QED BY <1>1 DEF Entry, Entries, Messages

\* The messages of a set of places, in order.
LEMMA InOrderIs ==
  ASSUME log \in Seq(Messages), NEW S, S \subseteq DOMAIN log
  PROVE  /\ InOrder(S) \in Seq(Entries)
         /\ \A i, j \in DOMAIN InOrder(S) : i < j => InOrder(S)[i].at < InOrder(S)[j].at
         /\ \A i \in DOMAIN InOrder(S) : /\ InOrder(S)[i].at \in S
                                         /\ InOrder(S)[i] = Entry(InOrder(S)[i].at)
         /\ \A s \in S : \E i \in DOMAIN InOrder(S) : InOrder(S)[i].at = s
<1> DEFINE en == [i \in DOMAIN log |-> Entry(i)]
<1>1. Len(log) \in Nat /\ DOMAIN log = 1..Len(log)
  OBVIOUS
<1>2. \A i \in DOMAIN log : Entry(i) \in Entries /\ Entry(i).at = i
  BY EntryIs
<1>3. en \in Seq(Entries) /\ DOMAIN en = DOMAIN log
  BY <1>1, <1>2
<1>4. PICK q : q = InOrder(S)
  OBVIOUS
<1>5. q = Select(en, S)
  BY <1>4 DEF InOrder
<1>6. q \in Seq(Entries) /\ \E f : Picks(q, en, S, f)
  <2> HIDE DEF en
  <2> QED BY <1>3, <1>5, SelectPicks
<1>7. PICK f : Picks(q, en, S, f)
  BY <1>6
<1>8. /\ f \in [DOMAIN q -> S]
      /\ \A i, j \in DOMAIN q : i < j => f[i] < f[j]
      /\ \A s \in S : \E i \in DOMAIN q : f[i] = s
      /\ \A i \in DOMAIN q : q[i] = en[f[i]]
  BY <1>7 DEF Picks
<1>9. \A i \in DOMAIN q : f[i] \in S /\ q[i] = Entry(f[i]) /\ q[i].at = f[i]
  BY <1>2, <1>8
<1> HIDE DEF en
<1>10. \A i, j \in DOMAIN q : i < j => q[i].at < q[j].at
  BY <1>8, <1>9
<1>11. \A s \in S : \E i \in DOMAIN q : q[i].at = s
  BY <1>8, <1>9
<1> QED BY <1>4, <1>6, <1>9, <1>10, <1>11

Folded(E) == {i \in E : log[i].summarized /\ ~log[i].summary}

\* How _build_latest_compressed_context arranges the messages of E: the others in order, at
\* most one summary, the latest; before it what is older than all it folded and itself.
Arranged(c, E) ==
  /\ \A k \in DOMAIN c : c[k].at \in E /\ c[k].calls = log[c[k].at].calls
  /\ \A j, k \in DOMAIN c : j < k /\ ~Summary(c[j]) /\ ~Summary(c[k]) => c[j].at < c[k].at
  /\ \A k \in DOMAIN c : Summary(c[k]) => \A i \in E : log[i].summary => i <= c[k].at
  /\ \A j, k \in DOMAIN c : Summary(c[j]) /\ Summary(c[k]) => j = k
  /\ \A i \in E : ~log[i].summary /\ ~log[i].summarized => \E k \in DOMAIN c : c[k].at = i
  /\ (\E i \in E : log[i].summary) => \E k \in DOMAIN c : Summary(c[k])
  /\ \A s, k \in DOMAIN c : Summary(c[s]) /\ k < s =>
       c[k].at < c[s].at /\ \A b \in Folded(E) : b < c[s].at => c[k].at < b
  /\ \A s, k \in DOMAIN c : Summary(c[s]) /\ s < k =>
       c[s].at < c[k].at \/ \E b \in Folded(E) : b < c[k].at
  /\ \A k \in DOMAIN c : log[c[k].at].summarized /\ ~Summary(c[k]) =>
       \E s \in DOMAIN c : Summary(c[s]) /\ c[s].at < c[k].at

LEMMA LatestContextIs ==
  ASSUME log \in Seq(Messages), NEW E, E \subseteq DOMAIN log
  PROVE  LatestContext(E) \in Seq(Entries) /\ Arranged(LatestContext(E), E)
<1> DEFINE summaries == {i \in E : log[i].summary}
           open == {i \in E : ~log[i].summary /\ ~log[i].summarized}
           latest == Highest(summaries)
           folded == {i \in E : i < latest /\ log[i].summarized /\ ~log[i].summary}
           head == {i \in open : i < Lowest(folded)}
<1>0. Len(log) \in Nat /\ DOMAIN log = 1..Len(log) /\ E \subseteq Nat
      /\ \A i \in DOMAIN log : log[i].summary \in BOOLEAN /\ log[i].summarized \in BOOLEAN
  <2>1. \A i \in DOMAIN log : log[i] \in Messages
    OBVIOUS
  <2> QED BY <2>1 DEF Messages
<1>1. LatestContext(E) =
        IF summaries = {} THEN InOrder(open)
        ELSE IF folded = {} THEN InOrder({i \in E : log[i].summary => i = latest})
        ELSE InOrder(head) \o <<Entry(latest)>> \o InOrder(open \ head)
  BY DEF LatestContext
<1>2. PICK c : c = LatestContext(E)
  OBVIOUS
<1>3. summaries # {} => /\ latest \in E /\ log[latest].summary /\ latest \in DOMAIN log
                        /\ latest \in Nat
                        /\ \A i \in E : log[i].summary => i <= latest
  <2> SUFFICES ASSUME summaries # {}
               PROVE latest \in summaries /\ \A i \in summaries : i <= latest
    BY <1>0
  <2>1. summaries \subseteq Nat /\ \A x \in summaries : x <= Len(log)
    BY <1>0
  <2> HIDE DEF summaries
  <2> QED BY <1>0, <2>1, HighestIs
<1>4. CASE summaries = {}
  <2>1. c = InOrder(open) /\ open \subseteq DOMAIN log
    BY <1>1, <1>2, <1>4
  <2> HIDE DEF open
  <2>2. /\ c \in Seq(Entries)
        /\ \A i, j \in DOMAIN c : i < j => c[i].at < c[j].at
        /\ \A i \in DOMAIN c : c[i].at \in open /\ c[i] = Entry(c[i].at)
        /\ \A s \in open : \E i \in DOMAIN c : c[i].at = s
    BY <2>1, InOrderIs
  <2>3. \A k \in DOMAIN c : c[k].at \in E /\ c[k].calls = log[c[k].at].calls /\ ~Summary(c[k])
                            /\ ~log[c[k].at].summarized
    BY <2>1, <2>2, EntryIs DEF open, Summary
  <2>4. Arranged(c, E)
    <3>1. \A i \in E : ~log[i].summary
      BY <1>4
    <3>2. \A i \in E : ~log[i].summarized => \E k \in DOMAIN c : c[k].at = i
      BY <2>2, <3>1 DEF open
    <3> QED BY <2>2, <2>3, <3>1, <3>2 DEF Arranged
  <2> QED BY <1>2, <2>2, <2>4
<1>5. CASE summaries # {} /\ folded = {}
  <2> DEFINE all == {i \in E : log[i].summary => i = latest}
  <2>1. c = InOrder(all) /\ all \subseteq DOMAIN log
    BY <1>1, <1>2, <1>5
  <2> HIDE DEF all
  <2>2. /\ c \in Seq(Entries)
        /\ \A i, j \in DOMAIN c : i < j => c[i].at < c[j].at
        /\ \A i \in DOMAIN c : c[i].at \in all /\ c[i] = Entry(c[i].at)
        /\ \A s \in all : \E i \in DOMAIN c : c[i].at = s
    BY <2>1, InOrderIs
  <2>3. \A k \in DOMAIN c : c[k].at \in E /\ c[k].calls = log[c[k].at].calls
                            /\ c[k].at \in Nat /\ k \in Nat
    <3>1. \A k \in DOMAIN c : c[k].at \in DOMAIN log /\ c[k].at \in E /\ c[k] = Entry(c[k].at)
      BY <2>2 DEF all
    <3>2. \A k \in DOMAIN c : k \in Nat
      BY <2>2
    <3> QED BY <1>0, <3>1, <3>2, EntryIs
  <2>4. \A k \in DOMAIN c : Summary(c[k]) <=> c[k].at = latest
    BY <1>3, <1>5, <2>2 DEF all, Summary
  <2>5. \A j, k \in DOMAIN c : c[j].at = c[k].at => j = k
    <3> SUFFICES ASSUME NEW j \in DOMAIN c, NEW k \in DOMAIN c, c[j].at = c[k].at, j # k
                 PROVE FALSE
      OBVIOUS
    <3>1. j < k \/ k < j
      BY <2>3
    <3> QED BY <2>2, <2>3, <3>1
  <2>6. \A i \in E : i < latest => ~(log[i].summarized /\ ~log[i].summary)
    BY <1>5
  <2>7. PICK n \in DOMAIN c : c[n].at = latest /\ Summary(c[n])
    BY <1>3, <1>5, <2>2, <2>4 DEF all
  <2>8. \A i \in E : ~log[i].summary => \E k \in DOMAIN c : c[k].at = i
    BY <2>2 DEF all
  <2>9. \A k \in DOMAIN c : log[c[k].at].summarized /\ ~Summary(c[k]) => latest < c[k].at
    <3> SUFFICES ASSUME NEW k \in DOMAIN c, log[c[k].at].summarized, ~Summary(c[k])
                 PROVE  latest < c[k].at
      OBVIOUS
    <3>1. c[k].at \in E /\ c[k].at \in Nat /\ latest \in Nat /\ c[k].at # latest
      BY <1>3, <1>5, <2>3, <2>4
    <3>2. ~(c[k].at < latest)
      BY <2>6, <3>1 DEF Summary
    <3> HIDE DEF latest
    <3> QED BY <3>1, <3>2
  <2>10. \A b \in Folded(E) : ~(b < latest)
    BY <2>6 DEF Folded
  <2>11. Arranged(c, E)
    <3> HIDE DEF summaries, open, latest, folded, head
    <3>1. \A j, k \in DOMAIN c : Summary(c[j]) /\ Summary(c[k]) => j = k
      BY <2>4, <2>5
    <3>2. \A s, k \in DOMAIN c : Summary(c[s]) /\ k < s =>
       c[k].at < c[s].at /\ \A b \in Folded(E) : b < c[s].at => c[k].at < b
      BY <2>2, <2>4, <2>10
    <3>3. \A k \in DOMAIN c : Summary(c[k]) => \A i \in E : log[i].summary => i <= c[k].at
      BY <1>3, <1>5, <2>4
    <3>4. \A k \in DOMAIN c : log[c[k].at].summarized /\ ~Summary(c[k]) =>
            \E s \in DOMAIN c : Summary(c[s]) /\ c[s].at < c[k].at
      BY <2>7, <2>9
    <3> QED BY <2>2, <2>3, <2>7, <2>8, <3>1, <3>2, <3>3, <3>4 DEF Arranged
  <2> QED BY <1>2, <2>2, <2>11
<1>6. CASE summaries # {} /\ folded # {}
  <2> DEFINE low == Lowest(folded)
             A == InOrder(head)
             B == InOrder(open \ head)
  <2>1. low \in folded /\ \A b \in folded : low <= b
    <3>1. folded \subseteq Nat
      BY <1>0
    <3> HIDE DEF folded
    <3> QED BY <1>6, <3>1, LowestIs
  <2>2. low \in Nat /\ low \in E /\ low < latest /\ log[low].summarized /\ ~log[low].summary
        /\ latest \in Nat /\ log[latest].summary /\ latest \in E /\ latest \in DOMAIN log
    BY <1>0, <1>3, <1>6, <2>1
  <2>3. c = A \o <<Entry(latest)>> \o B
    BY <1>1, <1>2, <1>6
  <2>4. head \subseteq DOMAIN log /\ open \ head \subseteq DOMAIN log
    OBVIOUS
  <2>5. /\ A \in Seq(Entries)
        /\ \A i, j \in DOMAIN A : i < j => A[i].at < A[j].at
        /\ \A i \in DOMAIN A : A[i].at \in head /\ A[i] = Entry(A[i].at)
        /\ \A s \in head : \E i \in DOMAIN A : A[i].at = s
    <3> HIDE DEF head, open
    <3> QED BY <2>4, InOrderIs
  <2>6. /\ B \in Seq(Entries)
        /\ \A i, j \in DOMAIN B : i < j => B[i].at < B[j].at
        /\ \A i \in DOMAIN B : B[i].at \in open \ head /\ B[i] = Entry(B[i].at)
        /\ \A s \in open \ head : \E i \in DOMAIN B : B[i].at = s
    <3> HIDE DEF head, open
    <3> QED BY <2>4, InOrderIs
  <2>7. Entry(latest) \in Entries /\ Entry(latest).at = latest
        /\ Entry(latest).calls = log[latest].calls
    <3> HIDE DEF latest
    <3> QED BY <2>2, EntryIs
  <2> HIDE DEF A, B
  <2>8. /\ c \in Seq(Entries)
        /\ Len(A) \in Nat /\ Len(B) \in Nat
        /\ DOMAIN A = 1..Len(A) /\ DOMAIN B = 1..Len(B)
        /\ DOMAIN c = 1..(Len(A) + 1 + Len(B))
        /\ \A k \in 1..Len(A) : c[k] = A[k]
        /\ c[Len(A) + 1] = Entry(latest)
        /\ \A k \in 1..Len(B) : c[Len(A) + 1 + k] = B[k]
        /\ \A k \in DOMAIN c : \/ k \in 1..Len(A)
                               \/ k = Len(A) + 1
                               \/ k - (Len(A) + 1) \in 1..Len(B)
    <3> HIDE DEF latest
    <3> QED BY <2>3, <2>5, <2>6, <2>7, ThreeParts
  <2>9. \A i \in head : i \in E /\ ~log[i].summary /\ ~log[i].summarized /\ i < low /\ i \in Nat
    BY <1>0
  <2>10. \A i \in open \ head : /\ i \in E /\ ~log[i].summary /\ ~log[i].summarized /\ low < i
                                /\ i \in Nat
    <3> SUFFICES ASSUME NEW i \in open \ head PROVE low < i
      BY <1>0
    <3>1. ~(i < low) /\ i \in Nat /\ i # low
      BY <1>0, <2>2
    <3> HIDE DEF low
    <3> QED BY <2>2, <3>1
  <2>11. \A i \in E : ~log[i].summary /\ ~log[i].summarized => i \in head \/ i \in open \ head
    OBVIOUS
  <2>12. \A b \in Folded(E) : b < latest => low <= b
    BY <2>1 DEF Folded
  <2>13. \A i \in E : log[i].summary => i <= latest
    BY <1>3, <1>6
  <2> HIDE DEF summaries, open, latest, folded, head, low
  <2>14. \A k \in DOMAIN c : k < Len(A) + 1 =>
           c[k].at \in head /\ c[k] = Entry(c[k].at) /\ k \in DOMAIN A /\ c[k] = A[k]
    BY <2>5, <2>8
  <2>15. \A k \in DOMAIN c : Len(A) + 1 < k =>
           /\ c[k].at \in open \ head /\ c[k] = Entry(c[k].at)
           /\ k - (Len(A) + 1) \in DOMAIN B /\ c[k] = B[k - (Len(A) + 1)]
    <3> SUFFICES ASSUME NEW k \in DOMAIN c, Len(A) + 1 < k
                 PROVE  /\ c[k].at \in open \ head /\ c[k] = Entry(c[k].at)
                        /\ k - (Len(A) + 1) \in DOMAIN B /\ c[k] = B[k - (Len(A) + 1)]
      OBVIOUS
    <3>1. k \in Nat /\ Len(A) \in Nat /\ Len(B) \in Nat /\ k <= Len(A) + 1 + Len(B)
      BY <2>8
    <3>2. k - (Len(A) + 1) \in 1..Len(B) /\ Len(A) + 1 + (k - (Len(A) + 1)) = k
      BY <3>1
    <3>3. c[k] = B[k - (Len(A) + 1)]
      BY <2>8, <3>2
    <3> QED BY <2>6, <2>8, <3>2, <3>3
  <2>16. \A k \in DOMAIN c : k < Len(A) + 1 \/ k = Len(A) + 1 \/ Len(A) + 1 < k
    BY <2>8
  <2>17. \A k \in DOMAIN c : Summary(c[k]) <=> k = Len(A) + 1
    BY <2>2, <2>7, <2>8, <2>9, <2>10, <2>14, <2>15, <2>16 DEF Summary
  <2>18. \A k \in DOMAIN c : c[k].at \in E /\ c[k].calls = log[c[k].at].calls
    <3> SUFFICES ASSUME NEW k \in DOMAIN c PROVE c[k].at \in E /\ c[k].calls = log[c[k].at].calls
      OBVIOUS
    <3>1. CASE k = Len(A) + 1
      BY <2>2, <2>7, <2>8, <3>1
    <3>2. CASE k < Len(A) + 1 \/ Len(A) + 1 < k
      <4>1. c[k].at \in E /\ c[k] = Entry(c[k].at)
        BY <3>2, <2>9, <2>10, <2>14, <2>15
      <4> QED BY <4>1, EntryIs
    <3> QED BY <2>16, <3>1, <3>2
  <2>19. \A j, k \in DOMAIN c : j < k /\ ~Summary(c[j]) /\ ~Summary(c[k]) => c[j].at < c[k].at
    <3> SUFFICES ASSUME NEW j \in DOMAIN c, NEW k \in DOMAIN c, j < k, j # Len(A) + 1,
                        k # Len(A) + 1
                 PROVE  c[j].at < c[k].at
      BY <2>17
    <3>1. CASE k < Len(A) + 1
      <4>1. j < Len(A) + 1
        BY <3>1, <2>8
      <4>2. j \in DOMAIN A /\ k \in DOMAIN A /\ c[j] = A[j] /\ c[k] = A[k]
        BY <3>1, <4>1, <2>14
      <4> QED BY <4>2, <2>5
    <3>2. CASE j < Len(A) + 1 /\ Len(A) + 1 < k
      <4>1. c[j].at \in Nat /\ c[j].at < low
        BY <3>2, <2>9, <2>14
      <4>2. c[k].at \in Nat /\ low < c[k].at
        BY <3>2, <2>10, <2>15
      <4> QED BY <2>2, <4>1, <4>2
    <3>3. CASE Len(A) + 1 < j
      <4>1. Len(A) + 1 < k /\ j - (Len(A) + 1) < k - (Len(A) + 1)
        BY <3>3, <2>8
      <4> QED BY <4>1, <3>3, <2>6, <2>15
    <3> QED BY <3>1, <3>2, <3>3, <2>8, <2>16
  <2>20. \A i \in E : ~log[i].summary /\ ~log[i].summarized => \E k \in DOMAIN c : c[k].at = i
    <3> SUFFICES ASSUME NEW i \in E, ~log[i].summary, ~log[i].summarized
                 PROVE  \E k \in DOMAIN c : c[k].at = i
      OBVIOUS
    <3>1. CASE i \in head
      <4>1. PICK k \in DOMAIN A : A[k].at = i
        BY <3>1, <2>5
      <4>2. k \in DOMAIN c /\ c[k] = A[k]
        BY <2>8
      <4> QED BY <4>1, <4>2
    <3>2. CASE i \in open \ head
      <4>1. PICK k \in DOMAIN B : B[k].at = i
        BY <3>2, <2>6
      <4>2. k \in 1..Len(B) /\ Len(A) \in Nat /\ Len(B) \in Nat
        BY <2>8
      <4>3. Len(A) + 1 + k \in 1..(Len(A) + 1 + Len(B))
        BY <4>2
      <4>4. Len(A) + 1 + k \in DOMAIN c /\ c[Len(A) + 1 + k] = B[k]
        BY <2>8, <4>2, <4>3
      <4> QED BY <4>1, <4>4
    <3> QED BY <2>11, <3>1, <3>2
  <2>21. Len(A) + 1 \in DOMAIN c /\ c[Len(A) + 1].at = latest
    BY <2>7, <2>8
  <2>22. \A s, k \in DOMAIN c : Summary(c[s]) /\ k < s =>
       c[k].at < c[s].at /\ \A b \in Folded(E) : b < c[s].at => c[k].at < b
    <3> SUFFICES ASSUME NEW k \in DOMAIN c, k < Len(A) + 1
                 PROVE  c[k].at < latest /\ \A b \in Folded(E) : b < latest => c[k].at < b
      BY <2>17, <2>21
    <3>1. c[k].at < low /\ c[k].at \in Nat
      BY <2>9, <2>14
    <3>2. \A b \in Folded(E) : b \in Nat
      BY <1>0 DEF Folded
    <3> QED BY <2>2, <2>12, <3>1, <3>2
  <2>23. \A s, k \in DOMAIN c : Summary(c[s]) /\ s < k =>
       c[s].at < c[k].at \/ \E b \in Folded(E) : b < c[k].at
    <3> SUFFICES ASSUME NEW k \in DOMAIN c, Len(A) + 1 < k
                 PROVE  \E b \in Folded(E) : b < c[k].at
      BY <2>17, <2>21
    <3>1. low < c[k].at
      BY <2>10, <2>15
    <3> QED BY <2>2, <3>1 DEF Folded
  <2>24. \A k \in DOMAIN c : log[c[k].at].summarized => Summary(c[k])
    BY <2>9, <2>10, <2>14, <2>15, <2>16, <2>17
  <2>25. \A k \in DOMAIN c : Summary(c[k]) => \A i \in E : log[i].summary => i <= c[k].at
    BY <2>13, <2>17, <2>21
  <2>26. \A j, k \in DOMAIN c : Summary(c[j]) /\ Summary(c[k]) => j = k
    BY <2>17
  <2>27. \E k \in DOMAIN c : Summary(c[k])
    BY <2>17, <2>21
  <2>28. Arranged(c, E)
    BY <2>18, <2>19, <2>20, <2>22, <2>23, <2>24, <2>25, <2>26, <2>27 DEF Arranged
  <2> QED BY <1>2, <2>8, <2>28
<1> QED BY <1>4, <1>5, <1>6

-----------------------------------------------------------------------------
(* Groups of a call and its results, and the boundaries of a compression *)

LEMMA GroupEndIs ==
  ASSUME NEW es \in Seq(Entries), NEW i \in DOMAIN es
  PROVE  /\ GroupEnd(es, i) \in i..Len(es)
         /\ \A k \in (i + 1)..GroupEnd(es, i) :
              IsTool(log, es[k]) /\ log[es[k].at].call \in es[i].calls
         /\ \A j \in i..Len(es) :
              (\A k \in (i + 1)..j : IsTool(log, es[k]) /\ log[es[k].at].call \in es[i].calls)
                => j <= GroupEnd(es, i)
<1> DEFINE S == {j \in i..Len(es) :
                   \A k \in (i + 1)..j : Tool(es[k]) /\ log[es[k].at].call \in es[i].calls}
<1>1. Len(es) \in Nat /\ DOMAIN es = 1..Len(es) /\ i \in 1..Len(es)
  OBVIOUS
<1>2. S \subseteq Nat /\ \A x \in S : x <= Len(es)
  BY <1>1
<1>3. i \in S
  BY <1>1
<1>4. GroupEnd(es, i) = Highest(S)
  BY DEF GroupEnd
<1>5. Highest(S) \in S /\ \A j \in S : j <= Highest(S)
  <2> HIDE DEF S
  <2> QED BY <1>1, <1>2, <1>3, HighestIs
<1>6. PICK g : g = GroupEnd(es, i)
  OBVIOUS
<1>7. g \in S /\ \A j \in S : j <= g
  BY <1>4, <1>5, <1>6
<1> QED BY <1>6, <1>7 DEF Tool, IsTool

\* The group of a message starts before it and ends behind it.
LEMMA SpanIs ==
  ASSUME NEW es \in Seq(Entries), NEW k \in DOMAIN es
  PROVE  Span(es, k)[1] \in 1..k /\ Span(es, k)[2] \in k..Len(es)
<1> DEFINE owners == {i \in 1..(k - 1) : /\ log[es[k].at].call \in es[i].calls
                                         /\ k <= GroupEnd(es, i)}
<1>1. Len(es) \in Nat /\ DOMAIN es = 1..Len(es) /\ k \in 1..Len(es)
  OBVIOUS
<1>2. GroupEnd(es, k) \in k..Len(es)
  BY GroupEndIs
<1>3. owners # {} => Highest(owners) \in owners
  <2>1. owners \subseteq Nat /\ \A x \in owners : x <= Len(es)
    BY <1>1
  <2> HIDE DEF owners
  <2> QED BY <1>1, <2>1, HighestIs
<1>4. ASSUME owners # {}
      PROVE  Highest(owners) \in 1..k /\ GroupEnd(es, Highest(owners)) \in k..Len(es)
  <2>1. PICK o : o = Highest(owners)
    OBVIOUS
  <2>2. o \in 1..(k - 1) /\ k <= GroupEnd(es, o) /\ o \in DOMAIN es
    BY <1>1, <1>3, <1>4, <2>1
  <2>3. GroupEnd(es, o) \in o..Len(es)
    BY <2>2, GroupEndIs
  <2>4. PICK g : g = GroupEnd(es, o)
    OBVIOUS
  <2>5. o \in 1..k /\ g \in k..Len(es)
    BY <1>1, <2>2, <2>3, <2>4
  <2> HIDE DEF owners
  <2> QED BY <2>1, <2>4, <2>5
<1>5. Span(es, k) = IF Tool(es[k])
                    THEN IF owners = {} THEN <<k, k>>
                         ELSE <<Highest(owners), GroupEnd(es, Highest(owners))>>
                    ELSE <<k, GroupEnd(es, k)>>
  BY DEF Span
<1> HIDE DEF owners
<1> QED BY <1>1, <1>2, <1>4, <1>5

\* No call is made twice in a context.
Exclusive(es) ==
  \A i, j \in DOMAIN es : es[i].calls \intersect es[j].calls # {} => i = j

LEMMA BehindUnique ==
  ASSUME NEW lg, NEW es \in Seq(Entries), NEW k \in DOMAIN es,
         NEW i \in DOMAIN es, NEW j \in DOMAIN es, Behind(lg, es, i, k), Behind(lg, es, j, k)
  PROVE  i = j
<1>1. i \in Nat /\ j \in Nat /\ k \in Nat
  OBVIOUS
<1>2. ~(i < j)
  <2> SUFFICES ASSUME i < j PROVE FALSE
    OBVIOUS
  <2>1. j \in (i + 1)..(k - 1)
    BY <1>1 DEF Behind
  <2> QED BY <2>1 DEF Behind
<1>3. ~(j < i)
  <2> SUFFICES ASSUME j < i PROVE FALSE
    OBVIOUS
  <2>1. i \in (j + 1)..(k - 1)
    BY <1>1 DEF Behind
  <2> QED BY <2>1 DEF Behind
<1> QED BY <1>1, <1>2, <1>3

\* The results behind a message are results of its calls.
LEMMA GroupReaches ==
  ASSUME NEW es \in Seq(Entries), Paired(log, es), NEW k \in DOMAIN es, NEW i \in DOMAIN es,
         Behind(log, es, i, k), IsTool(log, es[k])
  PROVE  log[es[k].at].call \in es[i].calls /\ k <= GroupEnd(es, i)
<1>1. Len(es) \in Nat /\ DOMAIN es = 1..Len(es) /\ i \in Nat /\ k \in Nat /\ i < k
  BY DEF Behind
<1>2. ASSUME NEW j \in (i + 1)..k
      PROVE  IsTool(log, es[j]) /\ log[es[j].at].call \in es[i].calls
  <2>1. j \in DOMAIN es /\ i < j /\ IsTool(log, es[j])
    BY <1>1 DEF Behind
  <2>2. Behind(log, es, i, j)
    BY <1>1, <2>1 DEF Behind
  <2>3. PICK o \in DOMAIN es : Behind(log, es, o, j) /\ log[es[j].at].call \in es[o].calls
    BY <2>1 DEF Paired
  <2>4. o = i
    BY <2>1, <2>2, <2>3, BehindUnique
  <2> QED BY <2>1, <2>3, <2>4
<1>3. k \in i..Len(es) /\ k \in (i + 1)..k
  BY <1>1
<1> QED BY <1>2, <1>3, GroupEndIs

\* In a context whose calls and results belong together the group of a message is the group
\* of the message it follows.
LEMMA PairedSpan ==
  ASSUME NEW es \in Seq(Entries), Paired(log, es), Exclusive(es), NEW k \in DOMAIN es
  PROVE  \E o \in DOMAIN es :
           /\ ~IsTool(log, es[o])
           /\ Span(es, k) = <<o, GroupEnd(es, o)>>
           /\ o <= k
           /\ IsTool(log, es[k]) => Behind(log, es, o, k)
           /\ ~IsTool(log, es[k]) => o = k
<1>0. Len(es) \in Nat /\ DOMAIN es = 1..Len(es) /\ k \in Nat
  OBVIOUS
<1>1. CASE ~IsTool(log, es[k])
  <2>1. Span(es, k) = <<k, GroupEnd(es, k)>>
    BY <1>1 DEF Span, Tool, IsTool
  <2> QED BY <1>0, <1>1, <2>1
<1>2. CASE IsTool(log, es[k])
  <2>1. PICK o \in DOMAIN es : Behind(log, es, o, k) /\ log[es[k].at].call \in es[o].calls
    BY <1>2 DEF Paired
  <2> DEFINE owners == {i \in 1..(k - 1) : /\ log[es[k].at].call \in es[i].calls
                                           /\ k <= GroupEnd(es, i)}
  <2>2. o \in owners
    <3>1. k <= GroupEnd(es, o)
      BY <1>2, <2>1, GroupReaches
    <3>2. o \in 1..(k - 1)
      BY <1>0, <2>1 DEF Behind
    <3> QED BY <2>1, <3>1, <3>2
  <2>3. \A i \in owners : i = o
    BY <1>0, <2>1 DEF Exclusive
  <2>4. owners = {o}
    BY <2>2, <2>3
  <2>5. Highest(owners) = o
    <3>1. o \in Nat
      BY <1>0
    <3> HIDE DEF owners
    <3> QED BY <2>4, <3>1 DEF Highest
  <2>6. Span(es, k) = <<o, GroupEnd(es, o)>>
    <3>1. Span(es, k) = IF owners = {} THEN <<k, k>>
                        ELSE <<Highest(owners), GroupEnd(es, Highest(owners))>>
      BY <1>2 DEF Span, Tool, IsTool
    <3> HIDE DEF owners
    <3> QED BY <2>4, <2>5, <3>1
  <2>7. ~IsTool(log, es[o]) /\ o <= k
    BY <1>0, <2>1 DEF Behind
  <2> QED BY <1>2, <2>1, <2>6, <2>7
<1> QED BY <1>1, <1>2

\* A boundary splits no group when no result comes right behind it.
Safe(lg, es, b) == b < Len(es) => ~IsTool(lg, es[b + 1])

LEMMA GroupEndSafe ==
  ASSUME NEW es \in Seq(Entries), Paired(log, es), NEW o \in DOMAIN es, ~IsTool(log, es[o])
  PROVE  Safe(log, es, GroupEnd(es, o))
<1> DEFINE g == GroupEnd(es, o)
<1> SUFFICES ASSUME g < Len(es), IsTool(log, es[g + 1]) PROVE FALSE
  BY DEF Safe
<1>1. Len(es) \in Nat /\ DOMAIN es = 1..Len(es) /\ o \in Nat
  OBVIOUS
<1>2. g \in o..Len(es) /\ \A k \in (o + 1)..g : IsTool(log, es[k])
  BY GroupEndIs
<1> HIDE DEF g
<1>3. g + 1 \in DOMAIN es /\ (g + 1) - 1 = g /\ o < g + 1
  BY <1>1, <1>2
<1>4. Behind(log, es, o, g + 1)
  BY <1>2, <1>3 DEF Behind
<1>5. g + 1 <= GroupEnd(es, o)
  BY <1>3, <1>4, GroupReaches
<1> QED BY <1>1, <1>2, <1>5 DEF g

LEMMA AlignForwardIs ==
  ASSUME NEW es \in Seq(Entries), NEW b \in Nat
  PROVE  /\ AlignForward(es, b) \in Nat /\ b <= AlignForward(es, b)
         /\ b <= Len(es) => AlignForward(es, b) <= Len(es)
         /\ Paired(log, es) /\ Exclusive(es) => Safe(log, es, AlignForward(es, b))
<1>1. Len(es) \in Nat /\ DOMAIN es = 1..Len(es)
  OBVIOUS
<1>2. CASE ~(b < Len(es))
  BY <1>1, <1>2 DEF AlignForward, Safe
<1>3. CASE b < Len(es)
  <2>1. b + 1 \in DOMAIN es
    BY <1>1, <1>3
  <2>2. PICK u, v : u = Span(es, b + 1)[1] /\ v = Span(es, b + 1)[2]
    OBVIOUS
  <2>3. u \in 1..(b + 1) /\ v \in (b + 1)..Len(es)
    BY <2>1, <2>2, SpanIs
  <2>4. AlignForward(es, b) = IF u < v THEN v ELSE b
    BY <1>3, <2>2 DEF AlignForward
  <2>5. ASSUME Paired(log, es), Exclusive(es) PROVE Safe(log, es, AlignForward(es, b))
    <3>1. PICK o \in DOMAIN es :
            /\ ~IsTool(log, es[o])
            /\ Span(es, b + 1) = <<o, GroupEnd(es, o)>>
            /\ o <= b + 1
            /\ IsTool(log, es[b + 1]) => Behind(log, es, o, b + 1)
      BY <2>1, <2>5, PairedSpan
    <3>2. u = o /\ v = GroupEnd(es, o)
      BY <2>2, <3>1
    <3>3. CASE u < v
      BY <2>4, <2>5, <3>1, <3>2, <3>3, GroupEndSafe
    <3>4. CASE ~(u < v)
      <4>1. o = b + 1
        BY <1>1, <2>3, <3>1, <3>2, <3>4
      <4> QED BY <2>4, <3>1, <3>4, <4>1 DEF Safe
    <3> QED BY <3>3, <3>4
  <2> QED BY <1>1, <1>3, <2>3, <2>4, <2>5
<1> QED BY <1>2, <1>3

LEMMA AlignBackwardIs ==
  ASSUME NEW es \in Seq(Entries), NEW b \in Nat
  PROVE  /\ AlignBackward(es, b) \in Nat /\ AlignBackward(es, b) <= b
         /\ Paired(log, es) /\ Exclusive(es) => Safe(log, es, AlignBackward(es, b))
<1> DEFINE split == {k \in {b, b + 1} : Span(es, k)[1] <= b /\ b < Span(es, k)[2]}
<1>1. Len(es) \in Nat /\ DOMAIN es = 1..Len(es)
  OBVIOUS
<1>2. AlignBackward(es, b) = IF b = 0 \/ b >= Len(es) \/ split = {} THEN b
                             ELSE Span(es, Lowest(split))[1] - 1
  BY DEF AlignBackward
<1>3. CASE b >= Len(es)
  <2>1. AlignBackward(es, b) = b
    BY <1>2, <1>3
  <2> QED BY <1>1, <1>3, <2>1 DEF Safe
<1>4. CASE b = 0 /\ b < Len(es)
  <2>1. AlignBackward(es, b) = 0
    BY <1>2, <1>4
  <2>2. 1 \in DOMAIN es
    BY <1>1, <1>4
  <2>3. Paired(log, es) => ~IsTool(log, es[1])
    <3> SUFFICES ASSUME Paired(log, es), IsTool(log, es[1]) PROVE FALSE
      OBVIOUS
    <3>1. PICK i \in DOMAIN es : Behind(log, es, i, 1)
      BY <2>2 DEF Paired
    <3> QED BY <1>1, <3>1 DEF Behind
  <2> QED BY <1>4, <2>1, <2>3 DEF Safe
<1>5. CASE b # 0 /\ b < Len(es)
  <2>1. b \in DOMAIN es /\ b + 1 \in DOMAIN es
    BY <1>1, <1>5
  <2>2. CASE split = {}
    <3>1. AlignBackward(es, b) = b
      BY <1>2, <2>2
    <3>2. ASSUME Paired(log, es), Exclusive(es), IsTool(log, es[b + 1]) PROVE FALSE
      <4>1. PICK o \in DOMAIN es :
              Span(es, b + 1) = <<o, GroupEnd(es, o)>> /\ Behind(log, es, o, b + 1)
        BY <2>1, <3>2, PairedSpan
      <4>2. o <= b
        BY <1>1, <4>1 DEF Behind
      <4>3. b + 1 <= GroupEnd(es, o) /\ GroupEnd(es, o) \in Nat
        BY <1>1, <2>1, <3>2, <4>1, GroupReaches, GroupEndIs
      <4>4. b < GroupEnd(es, o)
        BY <4>3
      <4>5. b + 1 \in split
        BY <4>1, <4>2, <4>4
      <4> QED BY <2>2, <4>5
    <3> QED BY <3>1, <3>2 DEF Safe
  <2>3. CASE split # {}
    <3>1. Lowest(split) \in split
      <4>1. split \subseteq Nat
        OBVIOUS
      <4> HIDE DEF split
      <4> QED BY <2>3, <4>1, LowestIs
    <3>2. PICK k : k = Lowest(split)
      OBVIOUS
    <3>3. k \in DOMAIN es /\ Span(es, k)[1] <= b
      BY <2>1, <3>1, <3>2
    <3>4. PICK u : u = Span(es, k)[1]
      OBVIOUS
    <3>5. u \in 1..k /\ u <= b
      BY <3>3, <3>4, SpanIs
    <3>6. AlignBackward(es, b) = u - 1
      <4> HIDE DEF split
      <4> QED BY <1>1, <1>2, <1>5, <2>3, <3>2, <3>4
    <3>7. u \in Nat /\ u - 1 \in Nat /\ (u - 1) + 1 = u /\ u - 1 <= b
      BY <1>1, <3>3, <3>5
    <3>8. ASSUME Paired(log, es), Exclusive(es) PROVE ~IsTool(log, es[u])
      BY <3>3, <3>4, <3>8, PairedSpan
    <3> QED BY <3>6, <3>7, <3>8 DEF Safe
  <2> QED BY <2>2, <2>3
<1> QED BY <1>1, <1>3, <1>4, <1>5

LEMMA HighestOfTwo ==
  ASSUME NEW x \in Nat, NEW y \in Nat
  PROVE  /\ Highest({x, y}) \in Nat
         /\ Highest({x, y}) = x \/ Highest({x, y}) = y
         /\ x <= Highest({x, y}) /\ y <= Highest({x, y})
<1>1. \E i \in {x, y} : \A j \in {x, y} : j <= i
  <2>1. CASE x <= y
    BY <2>1
  <2>2. CASE y <= x
    BY <2>2
  <2> QED BY <2>1, <2>2
<1>2. Highest({x, y}) \in {x, y} /\ \A j \in {x, y} : j <= Highest({x, y})
  BY <1>1 DEF Highest
<1> QED BY <1>2

\* The tail starts within the context, and splits no group.
LEMMA TailCutsAre ==
  ASSUME NEW es \in Seq(Entries), NEW h \in Nat, h < Len(es), NEW t \in TailCuts(es, h)
  PROVE  /\ t \in 0..Len(es)
         /\ Paired(log, es) /\ Exclusive(es) => Safe(log, es, t)
<1> DEFINE protected == Highest({h + 1, Len(es) - ProtectLast})
           fixed(b) == IF b <= h THEN AlignForward(es, h + 1) ELSE b
<1>1. Len(es) \in Nat /\ ProtectLast \in Nat /\ h + 1 \in Nat /\ h + 1 <= Len(es)
  BY ContextConstants
<1>2. PICK b \in (h + 1)..protected :
        t = AlignBackward(es, Highest({h + 1, fixed(AlignBackward(es, b))}))
  BY DEF TailCuts
<1>3. b \in Nat /\ b <= Len(es)
  <2>1. CASE Len(es) - ProtectLast \in Nat
    <3>1. protected = h + 1 \/ protected = Len(es) - ProtectLast
      BY <1>1, <2>1, HighestOfTwo
    <3> HIDE DEF protected
    <3> QED BY <1>1, <1>2, <2>1, <3>1
  <2>2. CASE Len(es) - ProtectLast \notin Nat
    <3>1. Len(es) - ProtectLast <= h + 1 /\ Len(es) - ProtectLast \in Int
      BY <1>1, <2>2
    <3>2. h + 1 \in {h + 1, Len(es) - ProtectLast}
          /\ \A j \in {h + 1, Len(es) - ProtectLast} : j <= h + 1
      BY <1>1, <3>1
    <3>3. protected \in {h + 1, Len(es) - ProtectLast}
      BY <3>2 DEF Highest
    <3> HIDE DEF protected
    <3> QED BY <1>1, <1>2, <3>1, <3>3
  <2> QED BY <2>1, <2>2
<1>4. PICK x : x = AlignBackward(es, b)
  OBVIOUS
<1>5. x \in Nat /\ x <= Len(es)
  BY <1>1, <1>3, <1>4, AlignBackwardIs
<1>6. fixed(x) \in Nat /\ fixed(x) <= Len(es)
  BY <1>1, <1>5, AlignForwardIs
<1>7. PICK y : y = Highest({h + 1, fixed(x)})
  OBVIOUS
<1>8. y \in Nat /\ y <= Len(es)
  <2> HIDE DEF fixed
  <2> QED BY <1>1, <1>6, <1>7, HighestOfTwo
<1>9. t = AlignBackward(es, y)
  BY <1>2, <1>4, <1>7
<1>10. /\ t \in Nat /\ t <= y
       /\ Paired(log, es) /\ Exclusive(es) => Safe(log, es, t)
  BY <1>8, <1>9, AlignBackwardIs
<1> QED BY <1>1, <1>8, <1>10

\* The place of the latest summary in a context, 0 when there is none.
Found(es) == Highest({0} \union {k \in DOMAIN es : Summary(es[k])})

LEMMA FoundIs ==
  ASSUME NEW es \in Seq(Entries)
  PROVE  /\ Found(es) \in 0..Len(es)
         /\ Found(es) # 0 => Found(es) \in DOMAIN es /\ Summary(es[Found(es)])
         /\ \A k \in DOMAIN es : Summary(es[k]) => k <= Found(es)
<1> DEFINE S == {0} \union {k \in DOMAIN es : Summary(es[k])}
<1>1. Len(es) \in Nat /\ DOMAIN es = 1..Len(es)
  OBVIOUS
<1>2. S \subseteq Nat /\ S # {} /\ \A x \in S : x <= Len(es)
  BY <1>1
<1>3. Highest(S) \in S /\ \A j \in S : j <= Highest(S)
  <2> HIDE DEF S
  <2> QED BY <1>1, <1>2, HighestIs
<1>4. PICK n : n = Found(es)
  OBVIOUS
<1>5. n \in S /\ \A j \in S : j <= n
  BY <1>3, <1>4 DEF Found
<1> QED BY <1>1, <1>4, <1>5

\* A compression of es: the head ends at h, the tail starts behind t, the turns it folds
\* start at first, and from is the summary it continues, if any.
Compresses(p, es, ids, h, t, from) ==
  /\ h = AlignForward(es, ProtectFirst)
  /\ h \in Nat /\ t \in Nat /\ h < t /\ t <= Len(es)
  /\ from = (IF Found(es) <= h THEN 0 ELSE Found(es))
  /\ FirstFolded(from, h) <= t
  /\ p = [head |-> Kept(es, 1, h),
          tail |-> Kept(es, t + 1, Len(es)),
          marks |-> {es[k].at : k \in (h + 1)..t} \intersect ids,
          covers |-> {es[k].at : k \in FirstFolded(from, h)..t} \union Previous(es, from),
          omits |-> p.omits]
  /\ p.omits \subseteq p.covers

LEMMA CompressionIs ==
  ASSUME NEW es \in Seq(Entries), NEW ids, NEW p \in Compressions(es, ids)
  PROVE  \E h, t, from :
           /\ Compresses(p, es, ids, h, t, from)
           /\ Paired(log, es) /\ Exclusive(es) => Safe(log, es, h) /\ Safe(log, es, t)
<1> DEFINE h == AlignForward(es, ProtectFirst)
           found == Found(es)
           from == IF found <= h THEN 0 ELSE found
           first == FirstFolded(from, h)
           before == IF from = 0 THEN {} ELSE log[es[from].at].covers \ log[es[from].at].omits
           C(t) == {es[k].at : k \in first..t} \union Previous(es, from)
           P(t, o) == [head |-> Kept(es, 1, h),
                       tail |-> Kept(es, t + 1, Len(es)),
                       marks |-> {es[k].at : k \in (h + 1)..t} \intersect ids,
                       covers |-> C(t),
                       omits |-> o]
<1>1. Compressions(es, ids) =
        IF Len(es) <= ProtectFirst + ProtectLast \/ h >= Len(es) THEN {}
        ELSE {q \in UNION {{P(t, Omits(C(t), told)) : told \in Tells(es, first..t, before)}
                           : t \in {b \in TailCuts(es, h) : h < b /\ first <= b}}
              : q.head \o q.tail # <<>>}
  BY DEF Compressions, Found
<1>2. Len(es) \in Nat /\ ProtectFirst \in Nat
  BY ContextConstants
<1>3. h \in Nat /\ (Paired(log, es) /\ Exclusive(es) => Safe(log, es, h))
  BY <1>2, AlignForwardIs
<1> HIDE DEF h, found, from, first, before, C, P
<1>4. h < Len(es)
  BY <1>1, <1>2, <1>3
<1>5. p \in UNION {{P(t, Omits(C(t), told)) : told \in Tells(es, first..t, before)}
                   : t \in {b \in TailCuts(es, h) : h < b /\ first <= b}}
  BY <1>1
<1>6. PICK t, told :
        t \in TailCuts(es, h) /\ h < t /\ first <= t /\ p = P(t, Omits(C(t), told))
  BY <1>5
<1>7. Omits(C(t), told) \subseteq C(t)
  BY DEF Omits
<1>8. PICK o : o = Omits(C(t), told) /\ o \subseteq C(t)
  BY <1>7
<1>9. p = P(t, o)
  BY <1>6, <1>8
<1>10. t \in 0..Len(es) /\ (Paired(log, es) /\ Exclusive(es) => Safe(log, es, t))
  BY <1>3, <1>4, <1>6, TailCutsAre
<1>11. t \in Nat /\ t <= Len(es)
  BY <1>2, <1>10
<1>12. Compresses(p, es, ids, h, t, from)
  BY <1>3, <1>6, <1>11, <1>8, <1>9 DEF Compresses, h, found, from, first, C, P
<1> QED BY <1>3, <1>10, <1>12

\* What a compression leaves in the head and the tail.
LEMMA KeptIs ==
  ASSUME NEW es \in Seq(Entries), NEW first \in Nat, NEW last \in Nat, 1 <= first,
         last <= Len(es)
  PROVE  /\ Kept(es, first, last) \in Seq(Entries)
         /\ \A i \in DOMAIN Kept(es, first, last) :
              \E k \in DOMAIN es : k \in first..last /\ Kept(es, first, last)[i] = es[k]
         /\ \A k \in first..last : ~Summary(es[k]) =>
              \E i \in DOMAIN Kept(es, first, last) : Kept(es, first, last)[i] = es[k]
<1> DEFINE S == {k \in first..last : ~Summary(es[k])}
<1>1. Len(es) \in Nat /\ DOMAIN es = 1..Len(es)
  OBVIOUS
<1>2. S \subseteq DOMAIN es
  BY <1>1
<1>3. PICK q : q = Kept(es, first, last)
  OBVIOUS
<1>4. q = Select(es, S)
  BY <1>3 DEF Kept
<1> HIDE DEF S
<1>5. q \in Seq(Entries) /\ \E f : Picks(q, es, S, f)
  BY <1>2, <1>4, SelectPicks
<1>6. PICK f : Picks(q, es, S, f)
  BY <1>5
<1>7. /\ \A i \in DOMAIN q : f[i] \in S /\ q[i] = es[f[i]]
      /\ \A s \in S : \E i \in DOMAIN q : f[i] = s
  BY <1>6 DEF Picks
<1>8. \A i \in DOMAIN q : \E k \in DOMAIN es : k \in first..last /\ q[i] = es[k]
  BY <1>2, <1>7 DEF S
<1>9. \A k \in first..last : ~Summary(es[k]) => \E i \in DOMAIN q : q[i] = es[k]
  <2> SUFFICES ASSUME NEW k \in first..last, ~Summary(es[k])
               PROVE  \E i \in DOMAIN q : q[i] = es[k]
    OBVIOUS
  <2>1. k \in S
    BY DEF S
  <2>2. PICK i \in DOMAIN q : f[i] = k
    BY <1>7, <2>1
  <2> QED BY <1>7, <2>2
<1> QED BY <1>3, <1>5, <1>8, <1>9

-----------------------------------------------------------------------------
(* Types *)

\* A message of the log: only assistants make calls, under ids of their own; only results
\* answer one; a summary stands for older messages that are no summaries.
MessageOK(lg, i) ==
  /\ lg[i].calls \subseteq {i} \X (1..MaxCalls)
  /\ lg[i].role = "tool" => lg[i].calls = {}
  /\ lg[i].role = "tool" <=> lg[i].call # NoCall
  /\ lg[i].summary => lg[i].role = "user" /\ lg[i].calls = {}
  /\ \A j \in lg[i].covers : j \in DOMAIN lg /\ j < i /\ ~lg[j].summary
  /\ lg[i].omits \subseteq lg[i].covers

LogOK(lg) == lg \in Seq(Messages) /\ \A i \in DOMAIN lg : MessageOK(lg, i)

Within(lg, es) == es \in Seq(Entries) /\ \A k \in DOMAIN es : es[k].at \in DOMAIN lg

\* What is planned refers to messages that exist.
PlanOK(lg, p) ==
  /\ p = [head |-> p.head, tail |-> p.tail, marks |-> p.marks, covers |-> p.covers,
          omits |-> p.omits]
  /\ Within(lg, p.head) /\ Within(lg, p.tail)
  /\ p.marks \subseteq DOMAIN lg
  /\ p.covers \subseteq DOMAIN lg /\ \A j \in p.covers : ~lg[j].summary
  /\ p.omits \subseteq p.covers

\* The message a run was started with.
InputOK(lg, i) ==
  i \in DOMAIN lg /\ lg[i].role = "user" /\ lg[i].calls = {} /\ ~lg[i].summary

States == {"idle", "build", "decide", "store", "mark", "calling", "writing"}

Types ==
  /\ LogOK(log) /\ Len(log) <= MaxLog
  /\ pc \in [Actors -> States]
  /\ input \in Nat /\ input <= Len(log) /\ (pc["run"] # "idle" => InputOK(log, input))
  /\ DOMAIN context = Actors /\ \A a \in Actors : Within(log, context[a])
  /\ DOMAIN plan = Actors /\ \A a \in Actors : PlanOK(log, plan[a])
  /\ commands \in 0..MaxCommands
  /\ clean \in BOOLEAN

\* The log grows, and of the messages it has only flags change.
Grows(lg, lg2) ==
  /\ DOMAIN lg \subseteq DOMAIN lg2
  /\ \A i \in DOMAIN lg :
       /\ lg2[i].role = lg[i].role /\ lg2[i].calls = lg[i].calls /\ lg2[i].call = lg[i].call
       /\ lg2[i].text = lg[i].text /\ lg2[i].summary = lg[i].summary
       /\ lg2[i].covers = lg[i].covers /\ lg2[i].omits = lg[i].omits

\* A message that may be stored next.
NextOK(lg, m) ==
  /\ m \in Messages
  /\ m.calls \subseteq {Len(lg) + 1} \X (1..MaxCalls)
  /\ m.role = "tool" => m.calls = {}
  /\ m.role = "tool" <=> m.call # NoCall
  /\ m.summary => m.role = "user" /\ m.calls = {}
  /\ \A j \in m.covers : j \in DOMAIN lg /\ ~lg[j].summary
  /\ m.omits \subseteq m.covers

\* lg2 is lg with m behind it.
Appended(lg, m, lg2) ==
  /\ lg2 \in Seq(Messages) /\ Len(lg2) = Len(lg) + 1 /\ lg2[Len(lg) + 1] = m
  /\ \A i \in DOMAIN lg : lg2[i] = lg[i]

LEMMA GrowsByOne ==
  ASSUME NEW lg, LogOK(lg), NEW m, NextOK(lg, m), NEW lg2, Appended(lg, m, lg2)
  PROVE  /\ LogOK(lg2) /\ Grows(lg, lg2)
         /\ DOMAIN lg2 = DOMAIN lg \union {Len(lg) + 1}
<1>1. lg \in Seq(Messages) /\ Len(lg) \in Nat /\ DOMAIN lg = 1..Len(lg) /\ m \in Messages
  BY DEF LogOK, NextOK
<1>2. /\ lg2 \in Seq(Messages) /\ Len(lg2) = Len(lg) + 1 /\ lg2[Len(lg) + 1] = m
      /\ \A i \in DOMAIN lg : lg2[i] = lg[i]
  BY DEF Appended
<1>3. DOMAIN lg2 = DOMAIN lg \union {Len(lg) + 1}
  BY <1>1, <1>2
<1>4. ASSUME NEW i \in DOMAIN lg2 PROVE MessageOK(lg2, i)
  <2>1. CASE i \in DOMAIN lg
    <3>1. MessageOK(lg, i) /\ lg2[i] = lg[i]
      BY <1>2, <2>1 DEF LogOK
    <3> QED BY <1>2, <1>3, <3>1 DEF MessageOK
  <2>2. CASE i = Len(lg) + 1
    <3>1. lg2[i] = m
      BY <1>2, <2>2
    <3>2. \A j \in m.covers : j \in DOMAIN lg2 /\ j < i /\ ~lg2[j].summary
      BY <1>1, <1>2, <1>3, <2>2 DEF NextOK
    <3> QED BY <2>2, <3>1, <3>2 DEF MessageOK, NextOK
  <2> QED BY <1>3, <2>1, <2>2
<1>5. Grows(lg, lg2)
  BY <1>2, <1>3 DEF Grows
<1> QED BY <1>2, <1>3, <1>4, <1>5 DEF LogOK

\* What was said about the messages stays true when the log grows.
LEMMA GrowsKeeps ==
  ASSUME NEW lg, NEW lg2, Grows(lg, lg2)
  PROVE  /\ \A es : Within(lg, es) => Within(lg2, es)
         /\ \A p : PlanOK(lg, p) => PlanOK(lg2, p)
         /\ \A i : InputOK(lg, i) => InputOK(lg2, i)
BY DEF Grows, Within, PlanOK, InputOK

LEMMA GrowsKeepsPaired ==
  ASSUME NEW lg, NEW lg2, Grows(lg, lg2), NEW es, Within(lg, es), Paired(lg, es)
  PROVE  Paired(lg2, es)
<1>1. Len(es) \in Nat /\ DOMAIN es = 1..Len(es)
  BY DEF Within
<1>2. \A k \in DOMAIN es : /\ IsTool(lg2, es[k]) <=> IsTool(lg, es[k])
                           /\ lg2[es[k].at].call = lg[es[k].at].call
  BY DEF Within, Grows, IsTool
<1>3. \A i, k \in DOMAIN es : Behind(lg, es, i, k) => Behind(lg2, es, i, k)
  <2> SUFFICES ASSUME NEW i \in DOMAIN es, NEW k \in DOMAIN es, Behind(lg, es, i, k)
               PROVE  Behind(lg2, es, i, k)
    OBVIOUS
  <2>1. \A j \in (i + 1)..(k - 1) : j \in DOMAIN es
    BY <1>1
  <2> QED BY <1>2, <2>1 DEF Behind
<1>4. ASSUME NEW k \in DOMAIN es, IsTool(lg2, es[k])
      PROVE  \E i \in DOMAIN es : Behind(lg2, es, i, k) /\ lg2[es[k].at].call \in es[i].calls
  <2>1. PICK i \in DOMAIN es : Behind(lg, es, i, k) /\ lg[es[k].at].call \in es[i].calls
    BY <1>2, <1>4 DEF Paired
  <2> QED BY <1>2, <1>3, <2>1
<1>5. ASSUME NEW k \in DOMAIN es, ~IsTool(lg2, es[k]), NEW c \in es[k].calls
      PROVE  \E m \in DOMAIN es :
               IsTool(lg2, es[m]) /\ Behind(lg2, es, k, m) /\ lg2[es[m].at].call = c
  <2>1. PICK m \in DOMAIN es :
          IsTool(lg, es[m]) /\ Behind(lg, es, k, m) /\ lg[es[m].at].call = c
    BY <1>2, <1>5 DEF Paired
  <2> QED BY <1>2, <1>3, <2>1
<1> QED BY <1>4, <1>5 DEF Paired

-----------------------------------------------------------------------------
(* The context that is built *)

\* Every message of a context is there once, with no more calls than it made.
Single(lg, es) ==
  /\ \A k \in DOMAIN es : es[k].calls \subseteq lg[es[k].at].calls
  /\ \A i, j \in DOMAIN es : es[i].at = es[j].at => i = j

LEMMA SingleIsExclusive ==
  ASSUME NEW lg, LogOK(lg), NEW es, Within(lg, es), Single(lg, es)
  PROVE  Exclusive(es)
<1> SUFFICES ASSUME NEW i \in DOMAIN es, NEW j \in DOMAIN es, NEW c \in es[i].calls,
                    c \in es[j].calls
             PROVE  i = j
  BY DEF Exclusive
<1>1. es[i].at \in DOMAIN lg /\ es[j].at \in DOMAIN lg
  BY DEF Within
<1>2. c \in {es[i].at} \X (1..MaxCalls) /\ c \in {es[j].at} \X (1..MaxCalls)
  BY <1>1 DEF Single, LogOK, MessageOK
<1>3. c[1] = es[i].at /\ c[1] = es[j].at
  BY <1>2
<1> QED BY <1>3 DEF Single

LEMMA GrowsKeepsSingle ==
  ASSUME NEW lg, NEW lg2, Grows(lg, lg2), NEW es, Within(lg, es), Single(lg, es)
  PROVE  Single(lg2, es)
BY DEF Grows, Within, Single

LEMMA ArrangedOnce ==
  ASSUME NEW E, NEW c \in Seq(Entries), Arranged(c, E), NEW i \in DOMAIN c, NEW j \in DOMAIN c,
         c[i].at = c[j].at
  PROVE  i = j
<1> SUFFICES ASSUME i # j PROVE FALSE
  OBVIOUS
<1>1. i \in Nat /\ j \in Nat /\ c[i] \in Entries
  OBVIOUS
<1>2. Summary(c[i]) <=> Summary(c[j])
  BY DEF Summary
<1>3. i < j \/ j < i
  BY <1>1
<1>4. c[i].at \in Nat
  BY <1>1 DEF Entries
<1>5. ~Summary(c[i])
  BY <1>2 DEF Arranged
<1> QED BY <1>2, <1>3, <1>4, <1>5 DEF Arranged

\* The parts of the context of an actor: the arranged messages c, what the sanitizer leaves
\* of them, and the input of a run behind.
Parts(es, own, c, q, f, r) ==
  /\ c = LatestContext(DOMAIN log \ own) /\ c \in Seq(Entries)
  /\ Arranged(c, DOMAIN log \ own)
  /\ q = Sanitized(c) /\ q \in Seq(Entries) /\ SanitizedFrom(q, c, f)
  /\ r = InOrder(own) /\ r \in Seq(Entries)
  /\ \A i \in DOMAIN r : r[i].at \in own /\ r[i].calls = log[r[i].at].calls
  /\ \A i \in own : \E k \in DOMAIN r : r[k].at = i
  /\ \A i, j \in DOMAIN r : i < j => r[i].at < r[j].at
  /\ es = q \o r

LEMMA BuildHasParts ==
  ASSUME LogOK(log), NEW own, own \subseteq DOMAIN log, NEW es,
         es = Sanitized(LatestContext(DOMAIN log \ own)) \o InOrder(own)
  PROVE  \E c, q, f, r : Parts(es, own, c, q, f, r)
<1>0. log \in Seq(Messages)
  BY DEF LogOK
<1>1. PICK c : c = LatestContext(DOMAIN log \ own)
  OBVIOUS
<1>2. c \in Seq(Entries) /\ Arranged(c, DOMAIN log \ own)
  <2>1. DOMAIN log \ own \subseteq DOMAIN log
    OBVIOUS
  <2> QED BY <1>0, <1>1, <2>1, LatestContextIs
<1>3. PICK q : q = Sanitized(c)
  OBVIOUS
<1>4. q \in Seq(Entries) /\ \E f : SanitizedFrom(q, c, f)
  BY <1>2, <1>3, SanitizedIs
<1>5. PICK f : SanitizedFrom(q, c, f)
  BY <1>4
<1>6. PICK r : r = InOrder(own)
  OBVIOUS
<1>7. /\ r \in Seq(Entries)
      /\ \A i, j \in DOMAIN r : i < j => r[i].at < r[j].at
      /\ \A i \in DOMAIN r : r[i].at \in own /\ r[i] = Entry(r[i].at)
      /\ \A s \in own : \E i \in DOMAIN r : r[i].at = s
  BY <1>0, <1>6, InOrderIs
<1>8. \A i \in DOMAIN r : r[i].calls = log[r[i].at].calls
  BY <1>0, <1>7, EntryIs
<1>9. es = q \o r
  BY <1>1, <1>3, <1>6
<1> QED BY <1>1, <1>2, <1>3, <1>4, <1>5, <1>6, <1>7, <1>8, <1>9 DEF Parts

\* The messages of the two parts.
LEMMA PartsAre ==
  ASSUME NEW es, NEW own, NEW c, NEW q, NEW f, NEW r, Parts(es, own, c, q, f, r)
  PROVE  /\ es \in Seq(Entries)
         /\ Len(q) \in Nat /\ Len(r) \in Nat
         /\ DOMAIN q = 1..Len(q) /\ DOMAIN r = 1..Len(r)
         /\ DOMAIN es = 1..(Len(q) + Len(r))
         /\ \A k \in 1..Len(q) : es[k] = q[k]
         /\ \A k \in 1..Len(r) : es[Len(q) + k] = r[k]
         /\ \A k \in DOMAIN es : k \notin 1..Len(q) =>
              k - Len(q) \in DOMAIN r /\ es[k] = r[k - Len(q)]
<1>1. q \in Seq(Entries) /\ r \in Seq(Entries) /\ es = q \o r
  BY DEF Parts
<1>2. /\ es \in Seq(Entries)
      /\ Len(q) \in Nat /\ Len(r) \in Nat
      /\ DOMAIN q = 1..Len(q) /\ DOMAIN r = 1..Len(r)
      /\ DOMAIN es = 1..(Len(q) + Len(r))
      /\ \A k \in 1..Len(q) : es[k] = q[k]
      /\ \A k \in 1..Len(r) : es[Len(q) + k] = r[k]
      /\ \A k \in DOMAIN es : k \notin 1..Len(q) => k - Len(q) \in 1..Len(r)
  BY <1>1, TwoParts
<1>3. ASSUME NEW k \in DOMAIN es, k \notin 1..Len(q)
      PROVE  k - Len(q) \in DOMAIN r /\ es[k] = r[k - Len(q)]
  <2>1. k - Len(q) \in 1..Len(r)
    BY <1>2, <1>3
  <2>2. k \in Nat /\ Len(q) + (k - Len(q)) = k
    BY <1>2
  <2> QED BY <1>2, <2>1, <2>2
<1> QED BY <1>2, <1>3

\* What is built pairs its calls and results, and has no message twice.
LEMMA BuiltIs ==
  ASSUME LogOK(log), NEW own, own \subseteq DOMAIN log,
         \A i \in own : log[i].role # "tool" /\ log[i].calls = {},
         NEW es, NEW c, NEW q, NEW f, NEW r, Parts(es, own, c, q, f, r)
  PROVE  Within(log, es) /\ Paired(log, es) /\ Single(log, es)
<1>1. /\ c \in Seq(Entries) /\ Arranged(c, DOMAIN log \ own)
      /\ q \in Seq(Entries) /\ SanitizedFrom(q, c, f)
      /\ r \in Seq(Entries)
      /\ \A i \in DOMAIN r : r[i].at \in own /\ r[i].calls = log[r[i].at].calls
      /\ \A i, j \in DOMAIN r : i < j => r[i].at < r[j].at
  BY DEF Parts
<1>2. /\ es \in Seq(Entries)
      /\ Len(q) \in Nat /\ Len(r) \in Nat
      /\ DOMAIN q = 1..Len(q) /\ DOMAIN r = 1..Len(r)
      /\ DOMAIN es = 1..(Len(q) + Len(r))
      /\ \A k \in 1..Len(q) : es[k] = q[k]
      /\ \A k \in DOMAIN es : k \notin 1..Len(q) =>
           k - Len(q) \in DOMAIN r /\ es[k] = r[k - Len(q)]
  BY PartsAre
<1>3. \A k \in DOMAIN es : k \in 1..Len(q) =>
        /\ f[k] \in DOMAIN c /\ es[k].at = c[f[k]].at
        /\ es[k].at \in DOMAIN log \ own
        /\ es[k].calls \subseteq log[es[k].at].calls
  <2> SUFFICES ASSUME NEW k \in 1..Len(q)
               PROVE  /\ f[k] \in DOMAIN c /\ q[k].at = c[f[k]].at
                      /\ q[k].at \in DOMAIN log \ own
                      /\ q[k].calls \subseteq log[q[k].at].calls
    BY <1>2
  <2>0. SanitizedFrom(q, c, f) /\ k \in DOMAIN q
    BY <1>1, <1>2
  <2>1. f[k] \in DOMAIN c /\ q[k].at = c[f[k]].at /\ q[k].calls \subseteq c[f[k]].calls
    BY <2>0 DEF SanitizedFrom
  <2>2. c[f[k]].at \in DOMAIN log \ own /\ c[f[k]].calls = log[c[f[k]].at].calls
    BY <1>1, <2>1 DEF Arranged
  <2> QED BY <2>1, <2>2
<1>4. \A k \in DOMAIN es : k \notin 1..Len(q) =>
        /\ es[k].at \in own /\ es[k].calls = {} /\ ~IsTool(log, es[k])
        /\ es[k].at = r[k - Len(q)].at /\ k - Len(q) \in DOMAIN r
  <2> SUFFICES ASSUME NEW k \in DOMAIN es, k \notin 1..Len(q)
               PROVE  /\ es[k].at \in own /\ es[k].calls = {} /\ ~IsTool(log, es[k])
                      /\ es[k].at = r[k - Len(q)].at /\ k - Len(q) \in DOMAIN r
    OBVIOUS
  <2>1. k - Len(q) \in DOMAIN r /\ es[k] = r[k - Len(q)]
    BY <1>2
  <2>2. es[k].at \in own /\ es[k].calls = log[es[k].at].calls
    BY <1>1, <2>1
  <2> QED BY <2>1, <2>2 DEF IsTool
<1>5. Within(log, es)
  BY <1>2, <1>3, <1>4 DEF Within
<1>6. Single(log, es)
  <2>1. \A k \in DOMAIN es : es[k].calls \subseteq log[es[k].at].calls
    BY <1>3, <1>4
  <2>2. ASSUME NEW i \in DOMAIN es, NEW j \in DOMAIN es, es[i].at = es[j].at, i # j
        PROVE  FALSE
    <3>1. i \in 1..Len(q) <=> j \in 1..Len(q)
      BY <1>3, <1>4, <2>2
    <3>2. CASE i \in 1..Len(q)
      <4>1. f[i] = f[j]
        BY <1>1, <1>3, <2>2, <3>1, <3>2, ArrangedOnce
      <4>2. i \in DOMAIN q /\ j \in DOMAIN q /\ i \in Nat /\ j \in Nat
        BY <1>2, <3>1, <3>2
      <4>3. i < j \/ j < i
        BY <2>2, <4>2
      <4>4. f[i] < f[j] \/ f[j] < f[i]
        BY <1>1, <4>2, <4>3 DEF SanitizedFrom
      <4>5. f[i] \in Nat /\ f[j] \in Nat
        BY <1>1, <1>3, <3>1, <3>2
      <4> QED BY <4>1, <4>4, <4>5
    <3>3. CASE i \notin 1..Len(q)
      <4>1. PICK x, y : x = i - Len(q) /\ y = j - Len(q)
        OBVIOUS
      <4>2. x \in DOMAIN r /\ y \in DOMAIN r /\ r[x].at = r[y].at
        BY <1>4, <2>2, <3>1, <3>3, <4>1
      <4>3. x # y /\ x \in Nat /\ y \in Nat
        BY <1>2, <2>2, <4>1, <4>2
      <4>4. r[x].at < r[y].at \/ r[y].at < r[x].at
        BY <1>1, <4>2, <4>3
      <4>5. r[x].at \in Nat
        <5>1. r[x] \in Entries
          BY <1>1, <4>2
        <5> QED BY <5>1 DEF Entries
      <4> QED BY <4>2, <4>4, <4>5
    <3> QED BY <3>2, <3>3
  <2> QED BY <2>1, <2>2 DEF Single
<1>7. Paired(log, es)
  <2>1. Paired(log, q)
    BY <1>1, SanitizedIsPaired DEF Parts
  <2>2. \A i, k \in DOMAIN q : Behind(log, q, i, k) => Behind(log, es, i, k)
    <3> SUFFICES ASSUME NEW i \in DOMAIN q, NEW k \in DOMAIN q, Behind(log, q, i, k)
                 PROVE  Behind(log, es, i, k)
      OBVIOUS
    <3>1. i \in DOMAIN es /\ es[i] = q[i] /\ i \in Nat /\ k \in Nat
      BY <1>2
    <3>2. \A j \in (i + 1)..(k - 1) : j \in 1..Len(q) /\ es[j] = q[j]
      BY <1>2
    <3> QED BY <3>1, <3>2 DEF Behind
  <2>3. ASSUME NEW k \in DOMAIN es, IsTool(log, es[k])
        PROVE  \E i \in DOMAIN es : Behind(log, es, i, k) /\ log[es[k].at].call \in es[i].calls
    <3>1. k \in DOMAIN q /\ es[k] = q[k]
      BY <1>2, <1>4, <2>3
    <3>2. PICK i \in DOMAIN q : Behind(log, q, i, k) /\ log[q[k].at].call \in q[i].calls
      BY <2>1, <2>3, <3>1 DEF Paired
    <3>3. i \in DOMAIN es /\ es[i] = q[i]
      BY <1>2
    <3> QED BY <2>2, <3>1, <3>2, <3>3
  <2>4. ASSUME NEW k \in DOMAIN es, ~IsTool(log, es[k]), NEW x \in es[k].calls
        PROVE  \E m \in DOMAIN es :
                 IsTool(log, es[m]) /\ Behind(log, es, k, m) /\ log[es[m].at].call = x
    <3>1. k \in DOMAIN q /\ es[k] = q[k]
      BY <1>2, <1>4, <2>4
    <3>2. PICK m \in DOMAIN q :
            IsTool(log, q[m]) /\ Behind(log, q, k, m) /\ log[q[m].at].call = x
      BY <2>1, <2>4, <3>1 DEF Paired
    <3>3. m \in DOMAIN es /\ es[m] = q[m]
      BY <1>2
    <3> QED BY <2>2, <3>1, <3>2, <3>3
  <2> QED BY <2>3, <2>4 DEF Paired
<1> QED BY <1>5, <1>6, <1>7

-----------------------------------------------------------------------------
(* The steps *)

LEMMA TypesFacts ==
  ASSUME Types
  PROVE  /\ log \in Seq(Messages) /\ Len(log) \in Nat /\ DOMAIN log = 1..Len(log)
         /\ LogOK(log) /\ \A i \in DOMAIN log : log[i] \in Messages /\ MessageOK(log, i)
         /\ pc \in [Actors -> States]
         /\ \A a \in Actors : context[a] \in Seq(Entries) /\ Within(log, context[a])
         /\ \A a \in Actors : PlanOK(log, plan[a])
<1>1. log \in Seq(Messages)
  BY DEF Types, LogOK
<1>2. \A i \in DOMAIN log : log[i] \in Messages
  BY <1>1
<1>3. \A a \in Actors : context[a] \in Seq(Entries)
  BY DEF Types, Within
<1>4. Len(log) \in Nat /\ DOMAIN log = 1..Len(log)
  BY <1>1
<1> QED BY <1>1, <1>2, <1>3, <1>4 DEF Types, LogOK

LEMMA MessageTyped ==
  ASSUME NEW role \in {"user", "assistant", "tool"}, NEW calls \in SUBSET (Nat \X Nat),
         NEW call \in Nat \X Nat, NEW text \in BOOLEAN
  PROVE  /\ Message(role, calls, call, text) \in Messages
         /\ Message(role, calls, call, text).role = role
         /\ Message(role, calls, call, text).calls = calls
         /\ Message(role, calls, call, text).call = call
         /\ Message(role, calls, call, text).text = text
         /\ Message(role, calls, call, text).summary = FALSE
         /\ Message(role, calls, call, text).summarized = FALSE
         /\ Message(role, calls, call, text).covers = {}
         /\ Message(role, calls, call, text).omits = {}
BY DEF Message, Messages

\* A message of the turn: no summary, with calls and results as they belong.
LEMMA StoresMessage ==
  ASSUME Types, NEW role \in {"user", "assistant", "tool"}, NEW calls, NEW call \in Nat \X Nat,
         NEW text \in BOOLEAN,
         calls \subseteq {Len(log) + 1} \X (1..MaxCalls),
         role = "tool" => calls = {},
         role = "tool" <=> call # NoCall,
         NEW lg2, lg2 = Append(log, Message(role, calls, call, text))
  PROVE  /\ LogOK(lg2) /\ Grows(log, lg2)
         /\ DOMAIN lg2 = DOMAIN log \union {Len(log) + 1}
         /\ Appended(log, Message(role, calls, call, text), lg2)
<1>1. Len(log) + 1 \in Nat /\ MaxCalls \in Nat /\ LogOK(log)
  BY TypesFacts, ContextConstants
<1>2. calls \in SUBSET (Nat \X Nat)
  BY <1>1
<1>3. PICK m : m = Message(role, calls, call, text)
  OBVIOUS
<1>4. m \in Messages /\ m.role = role /\ m.calls = calls /\ m.call = call
      /\ m.summary = FALSE /\ m.covers = {} /\ m.omits = {}
  BY <1>2, <1>3 DEF Message, Messages
<1>5. lg2 = Append(log, m)
  BY <1>3
<1>6. NextOK(log, m) /\ Appended(log, m, lg2)
  <2>1. log \in Seq(Messages)
    BY TypesFacts
  <2> QED BY <1>4, <1>5, <2>1 DEF NextOK, Appended
<1>7. /\ LogOK(lg2) /\ Grows(log, lg2)
      /\ DOMAIN lg2 = DOMAIN log \union {Len(log) + 1}
  BY <1>1, <1>6, GrowsByOne
<1> QED BY <1>3, <1>6, <1>7

\* The result that is stored answers a call of the latest message with calls.
LEMMA ResultAnswers ==
  ASSUME Types, WriteResult
  PROVE  \E i \in DOMAIN log, c \in Nat \X Nat :
           /\ input < i /\ c \in log[i].calls /\ c # NoCall
           /\ \A j \in DOMAIN log : i < j => log[j].calls = {}
           /\ log' = Append(log, Message("tool", {}, c, TRUE))
<1> DEFINE asking == {i \in DOMAIN log : i > input /\ log[i].calls # {}}
<1>0. Len(log) \in Nat /\ DOMAIN log = 1..Len(log) /\ input \in Nat /\ MaxCalls \in Nat
  BY TypesFacts, ContextConstants DEF Types
<1>1. PICK i : i = Highest(asking)
  OBVIOUS
<1>2. /\ asking # {} /\ Asked(i) # {}
      /\ log' = Append(log, Message("tool", {}, CHOOSE c \in Asked(i) :
                                     \A d \in Asked(i) : c[2] <= d[2], TRUE))
  BY <1>1 DEF WriteResult
<1>3. Highest(asking) \in asking /\ \A j \in asking : j <= Highest(asking)
  <2>1. asking \subseteq Nat /\ \A x \in asking : x <= Len(log)
    BY <1>0
  <2> HIDE DEF asking
  <2> QED BY <1>0, <1>2, <2>1, HighestIs
<1>4. i \in DOMAIN log /\ input < i /\ \A j \in DOMAIN log : i < j => log[j].calls = {}
  <2>1. i \in asking /\ \A j \in asking : j <= i
    BY <1>1, <1>3
  <2>2. ASSUME NEW j \in DOMAIN log, i < j PROVE log[j].calls = {}
    BY <1>0, <2>1, <2>2
  <2> QED BY <1>0, <2>1, <2>2
<1>5. Asked(i) \subseteq {i} \X (1..MaxCalls) /\ Asked(i) \subseteq log[i].calls
  BY <1>4, TypesFacts DEF Asked, MessageOK
<1>6. \E c \in Asked(i) : \A d \in Asked(i) : c[2] <= d[2]
  <2> DEFINE T == {c[2] : c \in Asked(i)}
  <2>1. T \subseteq Nat /\ T # {}
    BY <1>0, <1>2, <1>5
  <2>2. PICK x \in T : \A y \in T : x <= y
    <3> HIDE DEF T
    <3> QED BY <2>1, Least
  <2>3. PICK c \in Asked(i) : x = c[2]
    OBVIOUS
  <2> QED BY <2>2, <2>3
<1>7. PICK c : c = CHOOSE e \in Asked(i) : \A d \in Asked(i) : e[2] <= d[2]
  OBVIOUS
<1>8. c \in Asked(i)
  BY <1>6, <1>7
<1>9. c \in log[i].calls /\ c \in {i} \X (1..MaxCalls)
  BY <1>5, <1>8
<1>10. c \in Nat \X Nat /\ c # NoCall
  BY <1>0, <1>4, <1>9 DEF NoCall
<1>11. log' = Append(log, Message("tool", {}, c, TRUE))
  BY <1>2, <1>7
<1> QED BY <1>4, <1>9, <1>10, <1>11

\* The messages a turn stores.
LEMMA AskStores ==
  ASSUME Types, Ask
  PROVE  /\ LogOK(log') /\ Grows(log, log') /\ DOMAIN log' = DOMAIN log \union {Len(log) + 1}
         /\ Appended(log, Message("user", {}, NoCall, TRUE), log')
<1>1. log' = Append(log, Message("user", {}, NoCall, TRUE)) /\ NoCall \in Nat \X Nat
  BY DEF Ask, NoCall
<1> QED BY <1>1, StoresMessage

LEMMA CallsStores ==
  ASSUME Types, WriteCalls
  PROVE  \E n \in 1..MaxCalls, text \in BOOLEAN :
           /\ LogOK(log') /\ Grows(log, log') /\ DOMAIN log' = DOMAIN log \union {Len(log) + 1}
           /\ Appended(log, Message("assistant", {Len(log) + 1} \X (1..n), NoCall, text), log')
<1>1. PICK n \in 1..MaxCalls, text \in BOOLEAN :
        log' = Append(log, Message("assistant", {Len(log) + 1} \X (1..n), NoCall, text))
  BY DEF WriteCalls
<1>2. NoCall \in Nat \X Nat
  BY DEF NoCall
<1>3. {Len(log) + 1} \X (1..n) \subseteq {Len(log) + 1} \X (1..MaxCalls)
  BY ContextConstants
<1>4. /\ LogOK(log') /\ Grows(log, log') /\ DOMAIN log' = DOMAIN log \union {Len(log) + 1}
      /\ Appended(log, Message("assistant", {Len(log) + 1} \X (1..n), NoCall, text), log')
  <2>1. PICK cs : cs = {Len(log) + 1} \X (1..n)
    OBVIOUS
  <2>2. log' = Append(log, Message("assistant", cs, NoCall, text))
    BY <1>1, <2>1
  <2>3. cs \subseteq {Len(log) + 1} \X (1..MaxCalls)
    BY <1>3, <2>1
  <2>4. /\ LogOK(log') /\ Grows(log, log') /\ DOMAIN log' = DOMAIN log \union {Len(log) + 1}
        /\ Appended(log, Message("assistant", cs, NoCall, text), log')
    BY <1>2, <2>2, <2>3, StoresMessage
  <2> QED BY <2>1, <2>4
<1> QED BY <1>4

LEMMA ResultStores ==
  ASSUME Types, WriteResult
  PROVE  \E i \in DOMAIN log, c \in Nat \X Nat :
           /\ LogOK(log') /\ Grows(log, log') /\ DOMAIN log' = DOMAIN log \union {Len(log) + 1}
           /\ Appended(log, Message("tool", {}, c, TRUE), log')
           /\ input < i /\ c \in log[i].calls
           /\ \A j \in DOMAIN log : i < j => log[j].calls = {}
<1>1. PICK i \in DOMAIN log, c \in Nat \X Nat :
           /\ input < i /\ c \in log[i].calls /\ c # NoCall
           /\ \A j \in DOMAIN log : i < j => log[j].calls = {}
           /\ log' = Append(log, Message("tool", {}, c, TRUE))
  BY ResultAnswers
<1>2. /\ LogOK(log') /\ Grows(log, log') /\ DOMAIN log' = DOMAIN log \union {Len(log) + 1}
      /\ Appended(log, Message("tool", {}, c, TRUE), log')
  BY <1>1, StoresMessage
<1> QED BY <1>1, <1>2

LEMMA FinalStores ==
  ASSUME Types, WriteFinal
  PROVE  /\ LogOK(log') /\ Grows(log, log') /\ DOMAIN log' = DOMAIN log \union {Len(log) + 1}
         /\ Appended(log, Message("assistant", {}, NoCall, TRUE), log')
<1>1. log' = Append(log, Message("assistant", {}, NoCall, TRUE)) /\ NoCall \in Nat \X Nat
  BY DEF WriteFinal, NoCall
<1> QED BY <1>1, StoresMessage

LEMMA SummaryStores ==
  ASSUME Types, NEW a \in Actors, StoreSummary(a)
  PROVE  /\ LogOK(log') /\ Grows(log, log') /\ DOMAIN log' = DOMAIN log \union {Len(log) + 1}
         /\ Appended(log, SummaryOf(plan[a]), log')
         /\ SummaryOf(plan[a]) \in Messages
         /\ SummaryOf(plan[a]).role = "user" /\ SummaryOf(plan[a]).calls = {}
         /\ SummaryOf(plan[a]).call = NoCall /\ SummaryOf(plan[a]).text
         /\ SummaryOf(plan[a]).summary /\ ~SummaryOf(plan[a]).summarized
         /\ SummaryOf(plan[a]).covers = plan[a].covers
<1>1. log \in Seq(Messages) /\ LogOK(log) /\ PlanOK(log, plan[a]) /\ DOMAIN log = 1..Len(log)
  BY TypesFacts
<1>2. plan[a].covers \subseteq DOMAIN log /\ (\A j \in plan[a].covers : ~log[j].summary)
      /\ plan[a].omits \subseteq plan[a].covers
  BY <1>1 DEF PlanOK
<1>3. PICK cov, om : cov = plan[a].covers /\ om = plan[a].omits
  OBVIOUS
<1>4. cov \in SUBSET Nat /\ om \in SUBSET Nat
  BY <1>1, <1>2, <1>3
<1>5. PICK m : m = SummaryOf(plan[a])
  OBVIOUS
<1>6. m = [role |-> "user", calls |-> {}, call |-> <<0, 0>>, text |-> TRUE,
           summary |-> TRUE, summarized |-> FALSE, covers |-> cov, omits |-> om]
  BY <1>3, <1>5 DEF SummaryOf, Message, NoCall
<1>7. /\ m \in Messages /\ m.role = "user" /\ m.calls = {} /\ m.call = <<0, 0>>
      /\ m.text = TRUE /\ m.summary = TRUE /\ m.summarized = FALSE /\ m.covers = cov
      /\ m.omits = om
  BY <1>4, <1>6 DEF Messages
<1>8. log' = Append(log, m)
  BY <1>5 DEF StoreSummary
<1>9. NextOK(log, m) /\ Appended(log, m, log')
  BY <1>1, <1>2, <1>3, <1>7, <1>8 DEF NextOK, Appended, NoCall
<1>10. LogOK(log') /\ Grows(log, log') /\ DOMAIN log' = DOMAIN log \union {Len(log) + 1}
  BY <1>1, <1>9, GrowsByOne
<1> QED BY <1>3, <1>5, <1>7, <1>9, <1>10 DEF NoCall

\* What setting the flags does to the log.
Flagged(lg, S, lg2) ==
  /\ lg2 \in Seq(Messages) /\ Len(lg2) = Len(lg) /\ DOMAIN lg2 = DOMAIN lg
  /\ \A i \in DOMAIN lg : lg2[i].summarized = (lg[i].summarized \/ i \in S)

LEMMA MarkStores ==
  ASSUME Types, NEW a \in Actors,
         log' = [i \in DOMAIN log |->
                  IF i \in plan[a].marks THEN [log[i] EXCEPT !.summarized = TRUE] ELSE log[i]]
  PROVE  LogOK(log') /\ Grows(log, log') /\ Flagged(log, plan[a].marks, log')
<1>1. log \in Seq(Messages) /\ Len(log) \in Nat /\ DOMAIN log = 1..Len(log)
      /\ \A i \in DOMAIN log : log[i] \in Messages /\ MessageOK(log, i)
  BY TypesFacts
<1>2. DOMAIN log' = DOMAIN log
  OBVIOUS
<1>3. ASSUME NEW i \in DOMAIN log
      PROVE  /\ log'[i] \in Messages
             /\ log'[i].summarized = (log[i].summarized \/ i \in plan[a].marks)
             /\ log'[i].role = log[i].role /\ log'[i].calls = log[i].calls
             /\ log'[i].call = log[i].call
             /\ log'[i].text = log[i].text /\ log'[i].summary = log[i].summary
             /\ log'[i].covers = log[i].covers /\ log'[i].omits = log[i].omits
  <2>1. log[i] \in Messages
    BY <1>1
  <2>2. CASE i \in plan[a].marks
    <3>1. log'[i] = [log[i] EXCEPT !.summarized = TRUE]
      BY <2>2
    <3>2. log'[i] = [role |-> log[i].role, calls |-> log[i].calls, call |-> log[i].call,
                     text |-> log[i].text, summary |-> log[i].summary, summarized |-> TRUE,
                     covers |-> log[i].covers, omits |-> log[i].omits]
      BY <2>1, <3>1 DEF Messages
    <3> QED BY <2>1, <2>2, <3>2 DEF Messages
  <2>3. CASE i \notin plan[a].marks
    <3>1. log'[i] = log[i]
      BY <2>3
    <3> QED BY <2>1, <2>3, <3>1 DEF Messages
  <2> QED BY <2>2, <2>3
<1>4. PICK lg2 : lg2 = log'
  OBVIOUS
<1>5. lg2 \in [1..Len(log) -> Messages]
  BY <1>1, <1>3, <1>4
<1>6. lg2 \in Seq(Messages) /\ Len(lg2) = Len(log)
  BY <1>1, <1>5
<1>7. Grows(log, log')
  BY <1>2, <1>3 DEF Grows
<1>8. Flagged(log, plan[a].marks, log')
  BY <1>2, <1>3, <1>4, <1>6 DEF Flagged
<1>9. \A i \in DOMAIN log : MessageOK(log', i)
  BY <1>1, <1>2, <1>3 DEF MessageOK
<1>10. LogOK(log')
  BY <1>2, <1>4, <1>6, <1>9 DEF LogOK
<1> QED BY <1>7, <1>8, <1>10

\* The turns a compression folds lie in the context, behind every summary.
LEMMA FoldedTurns ==
  ASSUME NEW es \in Seq(Entries), NEW p, NEW ids, NEW h, NEW t, NEW from,
         Compresses(p, es, ids, h, t, from), NEW k \in FirstFolded(from, h)..t
  PROVE  k \in DOMAIN es /\ h < k /\ ~Summary(es[k]) /\ from < k
<1>1. Len(es) \in Nat /\ DOMAIN es = 1..Len(es) /\ h \in Nat /\ t \in Nat /\ t <= Len(es)
      /\ from = (IF Found(es) <= h THEN 0 ELSE Found(es))
  BY DEF Compresses
<1>2. Found(es) \in Nat /\ \A j \in DOMAIN es : Summary(es[j]) => j <= Found(es)
  BY <1>1, FoundIs
<1>3. FirstFolded(from, h) = IF from = 0 THEN h + 1 ELSE from + 1
  BY DEF FirstFolded
<1>4. k \in Nat /\ h < k /\ Found(es) < k /\ from < k /\ k <= Len(es)
  BY <1>1, <1>2, <1>3
<1>5. k \in DOMAIN es /\ ~(k <= Found(es))
  BY <1>1, <1>2, <1>4
<1> QED BY <1>2, <1>4, <1>5

LEMMA PlanIsOK ==
  ASSUME LogOK(log), NEW es, Within(log, es), NEW ids, NEW p, NEW h, NEW t, NEW from,
         Compresses(p, es, ids, h, t, from)
  PROVE  PlanOK(log, p)
<1>0. es \in Seq(Entries) /\ Len(es) \in Nat /\ DOMAIN es = 1..Len(es)
      /\ \A k \in DOMAIN es : es[k].at \in DOMAIN log
  BY DEF Within
<1>1. h \in Nat /\ t \in Nat /\ h < t /\ t <= Len(es)
  BY DEF Compresses
<1>2. p = [head |-> Kept(es, 1, h),
           tail |-> Kept(es, t + 1, Len(es)),
           marks |-> {es[k].at : k \in (h + 1)..t} \intersect ids,
           covers |-> {es[k].at : k \in FirstFolded(from, h)..t} \union Previous(es, from),
           omits |-> p.omits]
      /\ p.omits \subseteq p.covers
  BY DEF Compresses
<1>3. ASSUME NEW u \in Nat, NEW v \in Nat, 1 <= u, v <= Len(es)
      PROVE  Within(log, Kept(es, u, v))
  <2>1. PICK q : q = Kept(es, u, v)
    OBVIOUS
  <2>2. /\ q \in Seq(Entries)
        /\ \A i \in DOMAIN q : \E k \in DOMAIN es : k \in u..v /\ q[i] = es[k]
    BY <1>0, <1>3, <2>1, KeptIs
  <2>3. Within(log, q)
    BY <1>0, <2>2 DEF Within
  <2> QED BY <2>1, <2>3
<1>4. Within(log, p.head) /\ Within(log, p.tail)
  <2>1. Within(log, Kept(es, 1, h))
    BY <1>0, <1>1, <1>3
  <2>2. Within(log, Kept(es, t + 1, Len(es)))
    BY <1>0, <1>1, <1>3
  <2> QED BY <1>2, <2>1, <2>2
<1>5. p.marks \subseteq DOMAIN log
  <2>1. \A k \in (h + 1)..t : es[k].at \in DOMAIN log
    BY <1>0, <1>1
  <2> QED BY <1>2, <2>1
<1>6. \A k \in FirstFolded(from, h)..t : es[k].at \in DOMAIN log /\ ~log[es[k].at].summary
  BY <1>0, FoldedTurns DEF Summary
<1>7. \A j \in Previous(es, from) : j \in DOMAIN log /\ ~log[j].summary
  <2>1. CASE from = 0
    BY <2>1 DEF Previous
  <2>2. CASE from # 0
    <3>1. from = Found(es) /\ Found(es) # 0
      BY <2>2 DEF Compresses
    <3>2. from \in DOMAIN es
      BY <1>0, <3>1, FoundIs
    <3>3. MessageOK(log, es[from].at)
      BY <1>0, <3>2 DEF LogOK
    <3> QED BY <2>2, <3>3 DEF Previous, MessageOK
  <2> QED BY <2>1, <2>2
<1>8. p.covers \subseteq DOMAIN log /\ \A j \in p.covers : ~log[j].summary
  BY <1>2, <1>6, <1>7
<1>9. p = [head |-> p.head, tail |-> p.tail, marks |-> p.marks, covers |-> p.covers,
           omits |-> p.omits]
  BY <1>2
<1> QED BY <1>2, <1>4, <1>5, <1>8, <1>9 DEF PlanOK

LEMMA NothingPlanned ==
  ASSUME NEW lg
  PROVE  Within(lg, <<>>) /\ PlanOK(lg, NoPlan)
<1>1. <<>> \in Seq(Entries) /\ DOMAIN <<>> = {}
  OBVIOUS
<1>2. Within(lg, <<>>)
  BY <1>1 DEF Within
<1> QED BY <1>2 DEF PlanOK, NoPlan

\* The input of a run, and what an actor has built, for the step that builds.
LEMMA BuildBuilds ==
  ASSUME Types, NEW a \in Actors, Build(a)
  PROVE  \E own, es, c, q, f, r :
           /\ own = IF a = "run" THEN {input} ELSE {}
           /\ own \subseteq DOMAIN log
           /\ \A i \in own : log[i].role # "tool" /\ log[i].calls = {} /\ ~log[i].summary
           /\ Parts(es, own, c, q, f, r)
           /\ context' = [context EXCEPT ![a] = es]
<1> DEFINE own == IF a = "run" THEN {input} ELSE {}
<1>1. a = "run" => InputOK(log, input)
  BY DEF Build, Types
<1>2. own \subseteq DOMAIN log
      /\ \A i \in own : log[i].role # "tool" /\ log[i].calls = {} /\ ~log[i].summary
  BY <1>1 DEF InputOK
<1>3. PICK es : es = Sanitized(LatestContext(DOMAIN log \ own)) \o InOrder(own)
  OBVIOUS
<1>4. context' = [context EXCEPT ![a] = es]
  BY <1>3 DEF Build
<1> HIDE DEF own
<1>5. \E c, q, f, r : Parts(es, own, c, q, f, r)
  BY <1>2, <1>3, BuildHasParts, TypesFacts
<1>6. PICK c, q, f, r : Parts(es, own, c, q, f, r)
  BY <1>5
<1>7. own = IF a = "run" THEN {input} ELSE {}
  BY DEF own
<1> QED BY <1>2, <1>4, <1>6, <1>7

LEMMA SummarizePlans ==
  ASSUME Types, NEW a \in Actors, Summarize(a)
  PROVE  \E es, ids, p, h, t, from :
           /\ es = context[a]
           /\ ids = Places(es) \ (IF a = "run" THEN {input} ELSE {})
           /\ plan' = [plan EXCEPT ![a] = p]
           /\ Compresses(p, es, ids, h, t, from)
           /\ Paired(log, es) /\ Exclusive(es) => Safe(log, es, h) /\ Safe(log, es, t)
<1>1. PICK es : es = context[a]
  OBVIOUS
<1>2. PICK ids : ids = Places(es) \ (IF a = "run" THEN {input} ELSE {})
  OBVIOUS
<1>3. PICK p \in Compressions(es, ids) : plan' = [plan EXCEPT ![a] = p]
  BY <1>1, <1>2 DEF Summarize
<1>4. es \in Seq(Entries)
  BY <1>1, TypesFacts
<1>5. \E h, t, from :
        /\ Compresses(p, es, ids, h, t, from)
        /\ Paired(log, es) /\ Exclusive(es) => Safe(log, es, h) /\ Safe(log, es, t)
  BY <1>4, CompressionIs
<1> QED BY <1>1, <1>2, <1>3, <1>5

LEMMA TypesFrom ==
  ASSUME Types, LogOK(log'), Grows(log, log'), Len(log') <= MaxLog,
         pc' \in [Actors -> States],
         input' \in Nat, input' <= Len(log'), pc'["run"] # "idle" => InputOK(log', input'),
         DOMAIN context' = Actors,
         \A a \in Actors : context'[a] = context[a] \/ Within(log', context'[a]),
         DOMAIN plan' = Actors,
         \A a \in Actors : plan'[a] = plan[a] \/ PlanOK(log', plan'[a]),
         commands' \in 0..MaxCommands, clean' \in BOOLEAN
  PROVE  Types'
<1>1. \A a \in Actors : Within(log', context'[a])
  <2> SUFFICES ASSUME NEW a \in Actors, context'[a] = context[a] PROVE Within(log', context'[a])
    OBVIOUS
  <2>1. Within(log, context[a])
    BY TypesFacts
  <2> QED BY <2>1, GrowsKeeps
<1>2. \A a \in Actors : PlanOK(log', plan'[a])
  <2> SUFFICES ASSUME NEW a \in Actors, plan'[a] = plan[a] PROVE PlanOK(log', plan'[a])
    OBVIOUS
  <2>1. PlanOK(log, plan[a])
    BY TypesFacts
  <2> QED BY <2>1, GrowsKeeps
<1> QED BY <1>1, <1>2 DEF Types

\* The input of a run stays a question of the log.
LEMMA InputKept ==
  ASSUME Types, LogOK(log'), Grows(log, log'), input' = input
  PROVE  /\ input' \in Nat /\ input' <= Len(log')
         /\ pc["run"] # "idle" => InputOK(log', input')
<1>1. log' \in Seq(Messages)
  BY DEF LogOK
<1>2. Len(log') \in Nat /\ DOMAIN log' = 1..Len(log')
  BY <1>1
<1>3. Len(log) \in Nat /\ DOMAIN log = 1..Len(log) /\ input \in Nat /\ input <= Len(log)
  BY TypesFacts DEF Types
<1>4. Len(log) <= Len(log')
  <2>1. CASE Len(log) = 0
    BY <1>2, <2>1
  <2>2. CASE Len(log) # 0
    <3>1. Len(log) \in DOMAIN log'
      BY <1>3, <2>2 DEF Grows
    <3> QED BY <1>2, <1>3, <3>1
  <2> QED BY <2>1, <2>2
<1>5. pc["run"] # "idle" => InputOK(log, input)
  BY DEF Types
<1> QED BY <1>2, <1>3, <1>4, <1>5, GrowsKeeps

LEMMA GrowsItself ==
  ASSUME NEW lg, NEW lg2, lg2 = lg
  PROVE  Grows(lg, lg2)
BY DEF Grows

LEMMA TypesInit == Init => Types
<1> SUFFICES ASSUME Init PROVE Types
  OBVIOUS
<1>1. log = <<>> /\ log \in Seq(Messages) /\ Len(log) = 0 /\ DOMAIN log = {}
  BY DEF Init
<1>2. LogOK(log) /\ Len(log) <= MaxLog
  BY <1>1, ContextConstants DEF LogOK
<1>3. \A a \in Actors : context[a] = <<>> /\ plan[a] = NoPlan
  BY DEF Init
<1>4. \A a \in Actors : Within(log, context[a]) /\ PlanOK(log, plan[a])
  BY <1>3, NothingPlanned
<1>5. pc \in [Actors -> States] /\ pc["run"] = "idle" /\ input = 0
  BY DEF Init, States, Actors
<1>6. commands \in 0..MaxCommands /\ clean \in BOOLEAN
  BY ContextConstants DEF Init
<1>7. DOMAIN context = Actors /\ DOMAIN plan = Actors
  BY DEF Init
<1> QED BY <1>1, <1>2, <1>4, <1>5, <1>6, <1>7 DEF Types

\* The steps that only store a message of the turn, or only move on.
LEMMA TypesTurn ==
  ASSUME Types, Ask \/ Command \/ WriteCalls \/ WriteResult \/ WriteFinal \/ Stop \/ Restart
  PROVE  Types'
<1>0. /\ Len(log) \in Nat /\ DOMAIN log = 1..Len(log) /\ LogOK(log) /\ Len(log) <= MaxLog
      /\ MaxLog \in Nat /\ pc \in [Actors -> States] /\ DOMAIN context = Actors
      /\ DOMAIN plan = Actors /\ input \in Nat /\ commands \in 0..MaxCommands /\ clean \in BOOLEAN
      /\ MaxCommands \in Nat
  BY TypesFacts, ContextConstants DEF Types
<1>1. ASSUME NEW m, Appended(log, m, log'), Room(1) PROVE Len(log') <= MaxLog
  BY <1>0, <1>1 DEF Appended, Room
<1>2. CASE Ask
  <2>1. /\ LogOK(log') /\ Grows(log, log')
        /\ Appended(log, Message("user", {}, NoCall, TRUE), log')
    BY <1>2, AskStores
  <2>2. Len(log') <= MaxLog
    BY <1>1, <1>2, <2>1 DEF Ask
  <2>3. input' = Len(log) + 1 /\ Len(log') = Len(log) + 1 /\ log' \in Seq(Messages)
    BY <1>2, <2>1 DEF Ask, Appended
  <2>4. input' \in DOMAIN log' /\ log'[input'] = Message("user", {}, NoCall, TRUE)
    <3>1. DOMAIN log' = DOMAIN log \union {Len(log) + 1}
      BY <1>2, AskStores
    <3> QED BY <2>1, <2>3, <3>1 DEF Appended
  <2>5. InputOK(log', input')
    BY <2>4 DEF InputOK, Message
  <2>6. input' \in Nat /\ input' <= Len(log')
    BY <1>0, <2>3
  <2>7. pc' \in [Actors -> States]
    BY <1>0, <1>2 DEF Ask, States
  <2>8. context' = context /\ plan' = plan /\ commands' = commands /\ clean' = clean
    BY <1>2 DEF Ask
  <2> QED BY <1>0, <2>1, <2>2, <2>5, <2>6, <2>7, <2>8, TypesFrom
<1>3. CASE Command
  <2>1. log' = log /\ input' = input /\ context' = context /\ plan' = plan /\ clean' = clean
    BY <1>3 DEF Command
  <2>2. LogOK(log') /\ Grows(log, log') /\ Len(log') <= MaxLog
    BY <1>0, <2>1, GrowsItself
  <2>3. pc' \in [Actors -> States] /\ pc'["run"] = pc["run"]
    BY <1>0, <1>3 DEF Command, States, Actors
  <2>4. commands' \in 0..MaxCommands
    BY <1>0, <1>3 DEF Command
  <2>5. /\ input' \in Nat /\ input' <= Len(log')
        /\ pc'["run"] # "idle" => InputOK(log', input')
    BY <2>1, <2>2, <2>3, InputKept
  <2> QED BY <1>0, <2>1, <2>2, <2>3, <2>4, <2>5, TypesFrom
<1>4. CASE WriteCalls
  <2>1. PICK m : LogOK(log') /\ Grows(log, log') /\ Appended(log, m, log')
    BY <1>4, CallsStores
  <2>2. Len(log') <= MaxLog
    BY <1>1, <1>4, <2>1 DEF WriteCalls
  <2>3. pc["run"] # "idle" /\ pc' \in [Actors -> States]
    BY <1>0, <1>4 DEF WriteCalls, States
  <2>4. input' = input /\ plan' = plan /\ commands' = commands /\ clean' = clean
    BY <1>4 DEF WriteCalls
  <2>5. DOMAIN context' = Actors
        /\ \A a \in Actors : context'[a] = context[a] \/ context'[a] = <<>>
    BY <1>0, <1>4 DEF WriteCalls
  <2>6. \A a \in Actors : context'[a] = context[a] \/ Within(log', context'[a])
    BY <2>5, NothingPlanned
  <2>7. /\ input' \in Nat /\ input' <= Len(log')
        /\ pc'["run"] # "idle" => InputOK(log', input')
    BY <2>1, <2>3, <2>4, InputKept
  <2> QED BY <1>0, <2>1, <2>2, <2>3, <2>4, <2>5, <2>6, <2>7, TypesFrom
<1>5. CASE WriteResult
  <2>1. PICK m : LogOK(log') /\ Grows(log, log') /\ Appended(log, m, log')
    BY <1>5, ResultStores
  <2>2. Len(log') <= MaxLog
    BY <1>1, <1>5, <2>1 DEF WriteResult
  <2>3. /\ input' = input /\ plan' = plan /\ commands' = commands /\ clean' = clean
        /\ pc' = pc /\ context' = context
    BY <1>5 DEF WriteResult
  <2>4. /\ input' \in Nat /\ input' <= Len(log')
        /\ pc'["run"] # "idle" => InputOK(log', input')
    BY <2>1, <2>3, InputKept
  <2> QED BY <1>0, <2>1, <2>2, <2>3, <2>4, TypesFrom
<1>6. CASE WriteFinal \/ Stop
  <2>1. LogOK(log') /\ Grows(log, log') /\ Len(log') <= MaxLog
    <3>1. CASE WriteFinal
      <4>1. /\ LogOK(log') /\ Grows(log, log')
            /\ Appended(log, Message("assistant", {}, NoCall, TRUE), log')
        BY <3>1, FinalStores
      <4> QED BY <1>1, <3>1, <4>1 DEF WriteFinal
    <3>2. CASE Stop
      BY <1>0, <3>2, GrowsItself DEF Stop
    <3> QED BY <1>6, <3>1, <3>2
  <2>2. EndRun /\ commands' = commands
    BY <1>6 DEF WriteFinal, Stop
  <2>3. pc' \in [Actors -> States] /\ pc'["run"] = "idle" /\ input' = 0
    BY <1>0, <2>2 DEF EndRun, States, Actors
  <2>4. /\ DOMAIN context' = Actors /\ DOMAIN plan' = Actors
        /\ \A a \in Actors : context'[a] = context[a] \/ context'[a] = <<>>
        /\ \A a \in Actors : plan'[a] = plan[a] \/ plan'[a] = NoPlan
    BY <1>0, <2>2 DEF EndRun
  <2>5. /\ \A a \in Actors : context'[a] = context[a] \/ Within(log', context'[a])
        /\ \A a \in Actors : plan'[a] = plan[a] \/ PlanOK(log', plan'[a])
    BY <2>4, NothingPlanned
  <2>6. clean' \in BOOLEAN
    BY <1>0, <1>6 DEF WriteFinal, Stop
  <2>7. Len(log') \in Nat
    <3>1. log' \in Seq(Messages)
      BY <2>1 DEF LogOK
    <3> QED BY <3>1
  <2>8. input' \in Nat /\ input' <= Len(log')
    BY <2>3, <2>7
  <2> QED BY <1>0, <2>1, <2>2, <2>3, <2>4, <2>5, <2>6, <2>8, TypesFrom
<1>7. CASE Restart
  <2>1. log' = log /\ commands' = commands
    BY <1>7 DEF Restart
  <2>2. LogOK(log') /\ Grows(log, log') /\ Len(log') <= MaxLog
    BY <1>0, <2>1, GrowsItself
  <2>3. pc' \in [Actors -> States] /\ pc'["run"] = "idle" /\ input' = 0
    BY <1>7 DEF Restart, States, Actors
  <2>4. /\ DOMAIN context' = Actors /\ DOMAIN plan' = Actors
        /\ \A a \in Actors : context'[a] = <<>>
        /\ \A a \in Actors : plan'[a] = NoPlan
    BY <1>7 DEF Restart
  <2>5. /\ \A a \in Actors : Within(log', context'[a])
        /\ \A a \in Actors : PlanOK(log', plan'[a])
    BY <2>4, NothingPlanned
  <2>6. clean' \in BOOLEAN
    BY <1>0, <1>7 DEF Restart
  <2>7. input' \in Nat /\ input' <= Len(log')
    BY <1>0, <2>1, <2>3
  <2> QED BY <1>0, <2>1, <2>2, <2>3, <2>4, <2>5, <2>6, <2>7, TypesFrom
<1> QED BY <1>2, <1>3, <1>4, <1>5, <1>6, <1>7

\* What a compressed context is made of.
Joined(es, A, e, B) ==
  /\ es \in Seq(Entries)
  /\ \A k \in DOMAIN es : \/ \E i \in DOMAIN A : es[k] = A[i]
                          \/ es[k] = e
                          \/ \E i \in DOMAIN B : es[k] = B[i]
  /\ \A i \in DOMAIN A : \E k \in DOMAIN es : es[k] = A[i]
  /\ \A i \in DOMAIN B : \E k \in DOMAIN es : es[k] = B[i]
  /\ \E k \in DOMAIN es : es[k] = e

LEMMA JoinedIs ==
  ASSUME NEW A \in Seq(Entries), NEW e \in Entries, NEW B \in Seq(Entries), NEW es,
         es = A \o <<e>> \o B
  PROVE  Joined(es, A, e, B)
<1>1. /\ es \in Seq(Entries)
      /\ Len(A) \in Nat /\ Len(B) \in Nat
      /\ DOMAIN A = 1..Len(A) /\ DOMAIN B = 1..Len(B)
      /\ DOMAIN es = 1..(Len(A) + 1 + Len(B))
      /\ \A k \in 1..Len(A) : es[k] = A[k]
      /\ es[Len(A) + 1] = e
      /\ \A k \in 1..Len(B) : es[Len(A) + 1 + k] = B[k]
      /\ \A k \in DOMAIN es : \/ k \in 1..Len(A)
                              \/ k = Len(A) + 1
                              \/ k - (Len(A) + 1) \in 1..Len(B)
  BY ThreeParts
<1>2. \A k \in DOMAIN es : \/ \E i \in DOMAIN A : es[k] = A[i]
                           \/ es[k] = e
                           \/ \E i \in DOMAIN B : es[k] = B[i]
  <2> SUFFICES ASSUME NEW k \in DOMAIN es, k \notin 1..Len(A), k # Len(A) + 1
               PROVE  \E i \in DOMAIN B : es[k] = B[i]
    BY <1>1
  <2>1. k - (Len(A) + 1) \in 1..Len(B) /\ k \in Nat /\ Len(A) \in Nat
    BY <1>1
  <2>2. Len(A) + 1 + (k - (Len(A) + 1)) = k
    BY <2>1
  <2>3. es[k] = B[k - (Len(A) + 1)]
    BY <1>1, <2>1, <2>2
  <2> QED BY <1>1, <2>1, <2>3
<1>3. \A i \in DOMAIN A : \E k \in DOMAIN es : es[k] = A[i]
  <2> SUFFICES ASSUME NEW i \in DOMAIN A PROVE i \in DOMAIN es /\ es[i] = A[i]
    OBVIOUS
  <2>1. i \in 1..Len(A) /\ Len(A) \in Nat /\ Len(B) \in Nat
    BY <1>1
  <2>2. i \in 1..(Len(A) + 1 + Len(B))
    BY <2>1
  <2> QED BY <1>1, <2>1, <2>2
<1>4. \A i \in DOMAIN B : \E k \in DOMAIN es : es[k] = B[i]
  <2> SUFFICES ASSUME NEW i \in DOMAIN B
               PROVE  Len(A) + 1 + i \in DOMAIN es /\ es[Len(A) + 1 + i] = B[i]
    OBVIOUS
  <2>1. i \in 1..Len(B) /\ Len(A) \in Nat /\ Len(B) \in Nat
    BY <1>1
  <2>2. Len(A) + 1 + i \in 1..(Len(A) + 1 + Len(B))
    BY <2>1
  <2> QED BY <1>1, <2>1, <2>2
<1>5. \E k \in DOMAIN es : es[k] = e
  <2>1. Len(A) + 1 \in 1..(Len(A) + 1 + Len(B))
    BY <1>1
  <2> QED BY <1>1, <2>1
<1>6. es \in Seq(Entries)
  BY <1>1
<1> QED BY <1>2, <1>3, <1>4, <1>5, <1>6 DEF Joined

LEMMA SummaryContext ==
  ASSUME Types, NEW a \in Actors, StoreSummary(a)
  PROVE  \E es, e :
           /\ context' = [context EXCEPT ![a] = es]
           /\ e.at = Len(log) + 1 /\ e.calls = {}
           /\ Joined(es, plan[a].head, e, plan[a].tail)
<1>1. PICK e : e = [at |-> Len(log) + 1, calls |-> {}]
  OBVIOUS
<1>2. PICK es : es = plan[a].head \o <<e>> \o plan[a].tail
  OBVIOUS
<1>3. context' = [context EXCEPT ![a] = es]
  BY <1>1, <1>2 DEF StoreSummary
<1>4. Len(log) \in Nat /\ plan[a].head \in Seq(Entries) /\ plan[a].tail \in Seq(Entries)
  BY TypesFacts DEF PlanOK, Within
<1>5. e \in Entries /\ e.at = Len(log) + 1 /\ e.calls = {}
  BY <1>1, <1>4 DEF Entries
<1>6. Joined(es, plan[a].head, e, plan[a].tail)
  BY <1>2, <1>4, <1>5, JoinedIs
<1> QED BY <1>3, <1>5, <1>6

\* The steps of an actor that compresses.
LEMMA TypesCompression ==
  ASSUME Types, NEW a \in Actors,
         Build(a) \/ Skip(a) \/ Summarize(a) \/ StoreSummary(a) \/ StoreFails(a) \/ Mark(a)
  PROVE  Types'
<1>0. /\ Len(log) \in Nat /\ DOMAIN log = 1..Len(log) /\ LogOK(log) /\ Len(log) <= MaxLog
      /\ MaxLog \in Nat /\ pc \in [Actors -> States] /\ DOMAIN context = Actors
      /\ DOMAIN plan = Actors /\ input \in Nat /\ commands \in 0..MaxCommands /\ clean \in BOOLEAN
  BY TypesFacts, ContextConstants DEF Types
<1>1. pc[a] # "idle" /\ input' = input /\ commands' = commands
  BY DEF Build, Skip, Summarize, StoreSummary, StoreFails, Mark
<1>2. pc' \in [Actors -> States] /\ (a # "run" => pc'["run"] = pc["run"])
  <2>1. PICK s \in States : pc' = [pc EXCEPT ![a] = s]
    <3>1. \E s \in {"decide", "calling", "idle", "store", "mark"} : pc' = [pc EXCEPT ![a] = s]
      BY DEF Build, Skip, Summarize, StoreSummary, StoreFails, Mark, Done
    <3> QED BY <3>1 DEF States
  <2> QED BY <1>0, <2>1 DEF Actors
<1>3. pc'["run"] # "idle" => pc["run"] # "idle"
  BY <1>1, <1>2
<1>4. clean' \in BOOLEAN
  BY <1>0 DEF Build, Skip, Summarize, StoreSummary, StoreFails, Mark
<1>5. ASSUME LogOK(log'), Grows(log, log'), Len(log') <= MaxLog,
             DOMAIN context' = Actors, DOMAIN plan' = Actors,
             \A b \in Actors : context'[b] = context[b] \/ Within(log', context'[b]),
             \A b \in Actors : plan'[b] = plan[b] \/ PlanOK(log', plan'[b])
      PROVE  Types'
  <2>1. /\ input' \in Nat /\ input' <= Len(log')
        /\ pc'["run"] # "idle" => InputOK(log', input')
    BY <1>1, <1>3, <1>5, InputKept
  <2> QED BY <1>0, <1>1, <1>2, <1>4, <1>5, <2>1, TypesFrom
<1>6. log' = log => LogOK(log') /\ Grows(log, log') /\ Len(log') <= MaxLog
  BY <1>0, GrowsItself
<1>7. Done(a) => DOMAIN plan' = Actors /\ \A b \in Actors : plan'[b] = plan[b] \/ PlanOK(log', plan'[b])
  <2> SUFFICES ASSUME Done(a)
               PROVE  DOMAIN plan' = Actors /\ \A b \in Actors : plan'[b] = plan[b] \/ plan'[b] = NoPlan
    BY NothingPlanned
  <2> QED BY <1>0 DEF Done
<1>8. CASE Build(a)
  <2>1. PICK own, es, c, q, f, r :
           /\ own \subseteq DOMAIN log
           /\ \A i \in own : log[i].role # "tool" /\ log[i].calls = {} /\ ~log[i].summary
           /\ Parts(es, own, c, q, f, r)
           /\ context' = [context EXCEPT ![a] = es]
    BY <1>8, BuildBuilds
  <2>2. Within(log, es)
    BY <1>0, <2>1, BuiltIs
  <2>3. log' = log /\ plan' = plan
    BY <1>8 DEF Build
  <2>4. DOMAIN context' = Actors /\ \A b \in Actors : context'[b] = context[b] \/ context'[b] = es
    BY <1>0, <2>1
  <2>5. \A b \in Actors : context'[b] = context[b] \/ Within(log', context'[b])
    BY <2>2, <2>3, <2>4
  <2> QED BY <1>0, <1>5, <1>6, <2>3, <2>4, <2>5
<1>9. CASE Skip(a) \/ StoreFails(a)
  <2>1. log' = log /\ Done(a) /\ DOMAIN context' = Actors
        /\ \A b \in Actors : context'[b] = context[b] \/ context'[b] = <<>>
    BY <1>0, <1>9 DEF Skip, StoreFails
  <2>2. \A b \in Actors : context'[b] = context[b] \/ Within(log', context'[b])
    BY <2>1, NothingPlanned
  <2> QED BY <1>5, <1>6, <1>7, <2>1, <2>2
<1>10. CASE Summarize(a)
  <2>1. PICK es, ids, p, h, t, from :
           /\ es = context[a] /\ plan' = [plan EXCEPT ![a] = p]
           /\ Compresses(p, es, ids, h, t, from)
    BY <1>10, SummarizePlans
  <2>2. PlanOK(log, p)
    BY <1>0, <2>1, PlanIsOK, TypesFacts
  <2>3. log' = log /\ context' = context
    BY <1>10 DEF Summarize
  <2>4. DOMAIN plan' = Actors /\ \A b \in Actors : plan'[b] = plan[b] \/ plan'[b] = p
    BY <1>0, <2>1
  <2>5. \A b \in Actors : plan'[b] = plan[b] \/ PlanOK(log', plan'[b])
    BY <2>2, <2>3, <2>4
  <2> QED BY <1>0, <1>5, <1>6, <2>3, <2>4, <2>5
<1>11. CASE StoreSummary(a)
  <2>1. /\ LogOK(log') /\ Grows(log, log') /\ DOMAIN log' = DOMAIN log \union {Len(log) + 1}
        /\ Len(log') = Len(log) + 1
    BY <1>11, SummaryStores DEF Appended
  <2>2. Len(log') <= MaxLog
    BY <1>0, <1>11, <2>1 DEF StoreSummary, Room
  <2>3. PICK es, e :
           /\ context' = [context EXCEPT ![a] = es]
           /\ e.at = Len(log) + 1
           /\ Joined(es, plan[a].head, e, plan[a].tail)
    BY <1>11, SummaryContext
  <2>4. Within(log, plan[a].head) /\ Within(log, plan[a].tail)
    BY TypesFacts DEF PlanOK
  <2>5. Within(log', es)
    <3>1. \A k \in DOMAIN es : es[k].at \in DOMAIN log \/ es[k].at = Len(log) + 1
      BY <2>3, <2>4 DEF Within, Joined
    <3> QED BY <2>1, <2>3, <3>1 DEF Within, Joined
  <2>6. plan' = plan
    BY <1>11 DEF StoreSummary
  <2>7. DOMAIN context' = Actors /\ \A b \in Actors : context'[b] = context[b] \/ context'[b] = es
    BY <1>0, <2>3
  <2>8. \A b \in Actors : context'[b] = context[b] \/ Within(log', context'[b])
    BY <2>5, <2>7
  <2> QED BY <1>0, <1>5, <2>1, <2>2, <2>6, <2>7, <2>8
<1>12. CASE Mark(a)
  <2>1. LogOK(log') /\ Grows(log, log') /\ Len(log') <= MaxLog
    <3>1. CASE log' = log
      BY <1>6, <3>1
    <3>2. CASE log' = [i \in DOMAIN log |->
                  IF i \in plan[a].marks THEN [log[i] EXCEPT !.summarized = TRUE] ELSE log[i]]
      <4>1. LogOK(log') /\ Grows(log, log') /\ Flagged(log, plan[a].marks, log')
        BY <3>2, MarkStores
      <4> QED BY <1>0, <4>1 DEF Flagged
    <3> QED BY <1>12, <3>1, <3>2 DEF Mark
  <2>2. PICK es : es = IF a = "run" THEN Sanitized(context[a]) ELSE <<>>
    OBVIOUS
  <2>3. Within(log', es)
    <3>1. CASE a # "run"
      BY <2>2, <3>1, NothingPlanned
    <3>2. CASE a = "run"
      <4>1. PICK q : q = context[a]
        OBVIOUS
      <4>2. q \in Seq(Entries) /\ Within(log, q) /\ es = Sanitized(q)
        BY <2>2, <3>2, <4>1, TypesFacts
      <4>3. es \in Seq(Entries) /\ \E f : SanitizedFrom(es, q, f)
        BY <4>2, SanitizedIs
      <4>4. PICK f : SanitizedFrom(es, q, f)
        BY <4>3
      <4>5. Within(log, es)
        BY <4>2, <4>3, <4>4 DEF SanitizedFrom, Within
      <4> QED BY <2>1, <4>5, GrowsKeeps
    <3> QED BY <3>1, <3>2
  <2>4. Done(a) /\ context' = [context EXCEPT ![a] = es]
    BY <1>0, <1>12, <2>2 DEF Mark
  <2>5. DOMAIN context' = Actors /\ \A b \in Actors : context'[b] = context[b] \/ context'[b] = es
    BY <1>0, <2>4
  <2>6. \A b \in Actors : context'[b] = context[b] \/ Within(log', context'[b])
    BY <2>3, <2>5
  <2> QED BY <1>5, <1>7, <2>1, <2>4, <2>5, <2>6
<1> QED BY <1>8, <1>9, <1>10, <1>11, <1>12

LEMMA TypesStep == Types /\ [Next]_vars => Types'
<1> SUFFICES ASSUME Types, [Next]_vars PROVE Types'
  OBVIOUS
<1>1. CASE Next
  BY <1>1, TypesTurn, TypesCompression DEF Next
<1>2. CASE UNCHANGED vars
  <2>1. /\ log' = log /\ pc' = pc /\ input' = input /\ context' = context /\ plan' = plan
        /\ commands' = commands /\ clean' = clean
    BY <1>2 DEF vars
  <2> QED BY <2>1 DEF Types
<1> QED BY <1>1, <1>2

LEMMA TypesHold == Spec => []Types
BY TypesInit, TypesStep, PTL DEF Spec

\* The messages, the contexts and the plans keep their types, and a summary stands for
\* older messages that are no summaries, whatever the constants are.
THEOREM ContextTypes == Spec => []TypeOK
<1>1. ASSUME Types PROVE TypeOK
  <2>1. /\ Len(log) \in Nat /\ DOMAIN log = 1..Len(log)
        /\ \A i \in DOMAIN log : log[i] \in Messages /\ MessageOK(log, i)
        /\ \A a \in Actors : Within(log, context[a])
        /\ \A a \in Actors : PlanOK(log, plan[a])
    BY <1>1, TypesFacts
  <2>2. ASSUME NEW i \in DOMAIN log
        PROVE  /\ log[i].role \in {"user", "assistant", "tool"}
               /\ log[i].calls \subseteq {i} \X (1..MaxCalls)
               /\ (log[i].call # NoCall) = (log[i].role = "tool")
               /\ {log[i].text, log[i].summary, log[i].summarized} \subseteq BOOLEAN
               /\ \A j \in log[i].covers : j < i /\ ~log[j].summary
               /\ log[i].omits \subseteq log[i].covers
    <3>1. log[i] \in Messages /\ MessageOK(log, i)
      BY <2>1
    <3>2. log[i].role \in {"user", "assistant", "tool"}
          /\ {log[i].text, log[i].summary, log[i].summarized} \subseteq BOOLEAN
      BY <3>1 DEF Messages
    <3> QED BY <3>1, <3>2 DEF MessageOK
  <2>3. \A a \in Actors : Places(context[a]) \subseteq DOMAIN log
    BY <2>1 DEF Within, Places
  <2>4. \A a \in Actors : plan[a].marks \union plan[a].covers \subseteq DOMAIN log
    BY <2>1 DEF PlanOK
  <2>5. /\ Len(log) <= MaxLog /\ pc \in [Actors -> States] /\ input \in Nat /\ input <= Len(log)
        /\ commands \in 0..MaxCommands /\ clean \in BOOLEAN
    BY <1>1 DEF Types
  <2>6. input \in 0..Len(log)
    BY <2>1, <2>5
  <2> QED BY <2>2, <2>3, <2>4, <2>5, <2>6 DEF TypeOK, States
<1> QED BY <1>1, TypesHold, PTL

-----------------------------------------------------------------------------
(* Calls and results in what the model is shown *)

LEMMA LogGrows ==
  ASSUME Types, [Next]_vars
  PROVE  Grows(log, log')
<1>1. CASE log' = log
  BY <1>1, GrowsItself
<1>2. CASE Ask \/ WriteCalls \/ WriteResult \/ WriteFinal
  BY <1>2, AskStores, CallsStores, ResultStores, FinalStores
<1>3. ASSUME NEW a \in Actors, StoreSummary(a) PROVE Grows(log, log')
  BY <1>3, SummaryStores
<1>4. ASSUME NEW a \in Actors, Mark(a) PROVE Grows(log, log')
  BY <1>1, <1>4, MarkStores DEF Mark
<1>5. Command \/ Stop \/ Restart \/ UNCHANGED vars => log' = log
  BY DEF Command, Stop, Restart, vars
<1>6. ASSUME NEW a \in Actors, Build(a) \/ Skip(a) \/ Summarize(a) \/ StoreFails(a)
      PROVE  log' = log
  BY <1>6 DEF Build, Skip, Summarize, StoreFails
<1> QED BY <1>1, <1>2, <1>3, <1>4, <1>5, <1>6 DEF Next

\* How an actor comes to decide, to store and to call the model.
LEMMA ActorMoves ==
  ASSUME Types, [Next]_vars, NEW b \in Actors
  PROVE  /\ pc'[b] \in {"decide", "store"} =>
              \/ pc[b] \in {"decide", "store"} /\ context'[b] = context[b]
              \/ Build(b)
         /\ pc'[b] = "store" =>
              \/ pc[b] = "store" /\ context'[b] = context[b] /\ plan'[b] = plan[b]
              \/ Summarize(b)
         /\ pc'[b] = "calling" =>
              \/ pc[b] \in {"decide", "store", "calling"} /\ context'[b] = context[b]
              \/ b = "run" /\ Mark(b)
<1> DEFINE Goal == /\ pc'[b] \in {"decide", "store"} =>
                        \/ pc[b] \in {"decide", "store"} /\ context'[b] = context[b]
                        \/ Build(b)
                   /\ pc'[b] = "store" =>
                        \/ pc[b] = "store" /\ context'[b] = context[b] /\ plan'[b] = plan[b]
                        \/ Summarize(b)
                   /\ pc'[b] = "calling" =>
                        \/ pc[b] \in {"decide", "store", "calling"} /\ context'[b] = context[b]
                        \/ b = "run" /\ Mark(b)
<1>0. pc \in [Actors -> States] /\ DOMAIN context = Actors /\ DOMAIN plan = Actors
      /\ b \in {"run", "command"}
  BY DEF Types, Actors
<1>1. CASE UNCHANGED vars
  BY <1>1 DEF vars
<1>2. CASE Ask \/ Command \/ WriteCalls \/ WriteResult
  BY <1>0, <1>2 DEF Ask, Command, WriteCalls, WriteResult
<1>3. CASE WriteFinal \/ Stop \/ Restart
  <2>1. CASE Restart
    BY <1>0, <2>1 DEF Restart
  <2>2. CASE EndRun
    BY <1>0, <2>2 DEF EndRun
  <2> QED BY <1>3, <2>1, <2>2 DEF WriteFinal, Stop
<1>4. ASSUME NEW a \in Actors,
             Build(a) \/ Skip(a) \/ Summarize(a) \/ StoreSummary(a) \/ StoreFails(a) \/ Mark(a)
      PROVE  Goal
  <2>1. CASE a = b
    <3>1. CASE Build(b)
      BY <1>0, <3>1 DEF Build
    <3>2. CASE Skip(b)
      BY <1>0, <3>2 DEF Skip, Done
    <3>3. CASE Summarize(b)
      BY <1>0, <3>3 DEF Summarize
    <3>4. CASE StoreSummary(b)
      BY <1>0, <3>4 DEF StoreSummary
    <3>5. CASE StoreFails(b)
      BY <1>0, <3>5 DEF StoreFails, Done
    <3>6. CASE Mark(b)
      BY <1>0, <3>6 DEF Mark, Done
    <3> QED BY <1>4, <2>1, <3>1, <3>2, <3>3, <3>4, <3>5, <3>6
  <2>2. CASE a # b
    <3>1. pc'[b] = pc[b] /\ context'[b] = context[b] /\ plan'[b] = plan[b]
      BY <1>0, <1>4, <2>2 DEF Build, Skip, Summarize, StoreSummary, StoreFails, Mark, Done
    <3> QED BY <3>1
  <2> QED BY <2>1, <2>2
<1> QED BY <1>1, <1>2, <1>3, <1>4 DEF Next

\* Until it is replaced by a compression, what an actor has built pairs calls and results
\* and has no message twice; what the run sends pairs calls and results.
Pairs ==
  /\ \A a \in Actors : pc[a] \in {"decide", "store"} =>
       Paired(log, context[a]) /\ Single(log, context[a])
  /\ pc["run"] = "calling" => Paired(log, context["run"])

LEMMA PairsInit == Init => Pairs
BY DEF Init, Pairs, Actors

LEMMA PairsStep == Types /\ Pairs /\ [Next]_vars => Pairs'
<1> SUFFICES ASSUME Types, Pairs, [Next]_vars PROVE Pairs'
  OBVIOUS
<1>0. Grows(log, log') /\ LogOK(log)
  BY LogGrows, TypesFacts
<1>1. ASSUME NEW b \in Actors, NEW es, Within(log, es), Paired(log, es)
      PROVE  Paired(log', es)
  BY <1>0, <1>1, GrowsKeepsPaired
<1>2. ASSUME NEW b \in Actors, Build(b)
      PROVE  Paired(log', context'[b]) /\ Single(log', context'[b])
  <2>1. PICK own, es, c, q, f, r :
           /\ own \subseteq DOMAIN log
           /\ \A i \in own : log[i].role # "tool" /\ log[i].calls = {} /\ ~log[i].summary
           /\ Parts(es, own, c, q, f, r)
           /\ context' = [context EXCEPT ![b] = es]
    BY <1>2, BuildBuilds
  <2>2. Paired(log, es) /\ Single(log, es)
    BY <1>0, <2>1, BuiltIs
  <2>3. context'[b] = es /\ log' = log
    BY <1>2, <2>1 DEF Build, Types
  <2> QED BY <2>2, <2>3
<1>3. ASSUME NEW b \in Actors, pc'[b] \in {"decide", "store"}
      PROVE  Paired(log', context'[b]) /\ Single(log', context'[b])
  <2>1. CASE Build(b)
    BY <1>2, <2>1
  <2>2. CASE pc[b] \in {"decide", "store"} /\ context'[b] = context[b]
    <3>1. Paired(log, context[b]) /\ Single(log, context[b]) /\ Within(log, context[b])
      BY <2>2, TypesFacts DEF Pairs
    <3> QED BY <1>0, <2>2, <3>1, GrowsKeepsPaired, GrowsKeepsSingle
  <2> QED BY <1>3, <2>1, <2>2, ActorMoves
<1>4. ASSUME pc'["run"] = "calling" PROVE Paired(log', context'["run"])
  <2>0. "run" \in Actors
    BY DEF Actors
  <2>1. CASE Mark("run")
    <3>1. PICK es : es = Sanitized(context["run"])
      OBVIOUS
    <3>2. context["run"] \in Seq(Entries) /\ Within(log, context["run"])
      BY <2>0, TypesFacts
    <3>3. Paired(log, es)
      BY <3>1, <3>2, SanitizedIsPaired
    <3>4. context'["run"] = es
      BY <2>0, <2>1, <3>1 DEF Mark, Types
    <3>5. Within(log, es)
      <4>1. es \in Seq(Entries) /\ \E f : SanitizedFrom(es, context["run"], f)
        BY <3>1, <3>2, SanitizedIs
      <4>2. PICK f : SanitizedFrom(es, context["run"], f)
        BY <4>1
      <4> QED BY <3>2, <4>1, <4>2 DEF SanitizedFrom, Within
    <3> QED BY <1>0, <3>3, <3>4, <3>5, GrowsKeepsPaired
  <2>2. CASE pc["run"] \in {"decide", "store", "calling"} /\ context'["run"] = context["run"]
    <3>1. Paired(log, context["run"]) /\ Within(log, context["run"])
      BY <2>0, <2>2, TypesFacts DEF Pairs
    <3> QED BY <1>0, <2>2, <3>1, GrowsKeepsPaired
  <2> QED BY <1>4, <2>0, <2>1, <2>2, ActorMoves
<1> QED BY <1>3, <1>4 DEF Pairs

\* Every context a provider is sent pairs its calls and its results, whatever was cut,
\* folded, lost or left unfinished before, for conversations of any length.
THEOREM ContextsArePaired == Spec => []ContextIsPaired
<1>1. ASSUME Types, Pairs PROVE ContextIsPaired
  <2> SUFFICES ASSUME pc["run"] = "calling", NEW k \in DOMAIN context["run"]
               PROVE  IF Tool(context["run"][k])
                      THEN /\ Owner(context["run"], k) # 0
                           /\ log[context["run"][k].at].call
                                \in context["run"][Owner(context["run"], k)].calls
                      ELSE context["run"][k].calls \subseteq Answers(context["run"], k)
    BY DEF ContextIsPaired
  <2>1. context["run"] \in Seq(Entries) /\ Paired(log, context["run"])
    BY <1>1, TypesFacts DEF Pairs, Actors
  <2>2. PICK es : es = context["run"]
    OBVIOUS
  <2>3. IF Tool(es[k]) THEN Owner(es, k) # 0 /\ log[es[k].at].call \in es[Owner(es, k)].calls
        ELSE es[k].calls \subseteq Answers(es, k)
    BY <2>1, <2>2, PairedShows
  <2> QED BY <2>2, <2>3
<1> QED BY <1>1, TypesHold, TypesInit, TypesStep, PairsInit, PairsStep, PTL DEF Spec

-----------------------------------------------------------------------------
(* What a compression folds *)

\* A call and its result are folded together or not at all.
FoldsGroups(lg, es, marks) ==
  \A k, m \in DOMAIN es : lg[es[m].at].call \in es[k].calls =>
    (es[k].at \in marks <=> es[m].at \in marks)

\* A result in a context follows the message that made the call.
LEMMA ResultFollows ==
  ASSUME LogOK(log), NEW es, Within(log, es), Paired(log, es), Single(log, es),
         NEW k \in DOMAIN es, NEW m \in DOMAIN es, log[es[m].at].call \in es[k].calls
  PROVE  IsTool(log, es[m]) /\ Behind(log, es, k, m) /\ log[es[k].at].calls # {}
<1>0. es \in Seq(Entries) /\ Exclusive(es)
  BY SingleIsExclusive DEF Within
<1>1. es[k].at \in DOMAIN log /\ es[m].at \in DOMAIN log
      /\ MessageOK(log, es[k].at) /\ MessageOK(log, es[m].at)
  BY DEF Within, LogOK
<1>2. log[es[m].at].call \in {es[k].at} \X (1..MaxCalls)
  BY <1>1 DEF MessageOK, Single
<1>3. log[es[m].at].call # NoCall
  <2>1. es[k].at # 0
    <3>1. log \in Seq(Messages)
      BY DEF LogOK
    <3> QED BY <1>1, <3>1
  <2> QED BY <1>2, <2>1 DEF NoCall
<1>4. IsTool(log, es[m])
  BY <1>1, <1>3 DEF MessageOK, IsTool
<1>5. PICK i \in DOMAIN es : Behind(log, es, i, m) /\ log[es[m].at].call \in es[i].calls
  BY <1>4 DEF Paired
<1>6. i = k
  BY <1>0, <1>5 DEF Exclusive
<1> QED BY <1>4, <1>5, <1>6 DEF Single

\* A boundary that splits no group has a call and its result on the same side.
LEMMA SameSide ==
  ASSUME NEW lg, NEW es \in Seq(Entries), NEW k \in DOMAIN es, NEW m \in DOMAIN es,
         Behind(lg, es, k, m), IsTool(lg, es[m]), NEW b \in Nat, Safe(lg, es, b)
  PROVE  b < k <=> b < m
<1>1. Len(es) \in Nat /\ DOMAIN es = 1..Len(es) /\ k \in Nat /\ m \in Nat /\ k < m
  BY DEF Behind
<1> SUFFICES ASSUME b < m, k <= b PROVE FALSE
  BY <1>1
<1>2. b + 1 \in (k + 1)..m /\ b < Len(es)
  BY <1>1
<1>3. \A j \in (k + 1)..m : IsTool(lg, es[j])
  BY <1>1 DEF Behind
<1> QED BY <1>2, <1>3 DEF Safe

LEMMA CompressionFolds ==
  ASSUME LogOK(log), NEW es, Within(log, es), Paired(log, es), Single(log, es),
         NEW own, \A i \in own : log[i].role # "tool" /\ log[i].calls = {},
         NEW ids, ids = Places(es) \ own,
         NEW p, NEW h, NEW t, NEW from, Compresses(p, es, ids, h, t, from),
         Safe(log, es, h), Safe(log, es, t)
  PROVE  FoldsGroups(log, es, p.marks)
<1>0. es \in Seq(Entries) /\ Len(es) \in Nat /\ DOMAIN es = 1..Len(es)
  BY DEF Within
<1>1. h \in Nat /\ t \in Nat /\ t <= Len(es)
      /\ p.marks = {es[k].at : k \in (h + 1)..t} \intersect ids
  BY DEF Compresses
<1>2. ASSUME NEW k \in DOMAIN es, es[k].at \notin own
      PROVE  es[k].at \in p.marks <=> (h < k /\ ~(t < k))
  <2>1. es[k].at \in ids
    BY <1>2 DEF Places
  <2>2. ASSUME es[k].at \in p.marks PROVE h < k /\ ~(t < k)
    <3>1. PICK j \in (h + 1)..t : es[j].at = es[k].at
      BY <1>1, <2>2
    <3>2. j \in DOMAIN es
      BY <1>0, <1>1
    <3>3. j = k
      BY <3>1, <3>2 DEF Single
    <3> QED BY <1>1, <3>1, <3>3
  <2>3. ASSUME h < k, ~(t < k) PROVE es[k].at \in p.marks
    <3>1. k \in (h + 1)..t
      BY <1>0, <1>1, <2>3
    <3> QED BY <1>1, <2>1, <3>1
  <2> QED BY <2>2, <2>3
<1>3. ASSUME NEW k \in DOMAIN es, NEW m \in DOMAIN es, log[es[m].at].call \in es[k].calls
      PROVE  es[k].at \in p.marks <=> es[m].at \in p.marks
  <2>1. IsTool(log, es[m]) /\ Behind(log, es, k, m) /\ log[es[k].at].calls # {}
    BY <1>3, ResultFollows
  <2>2. es[k].at \notin own /\ es[m].at \notin own
    BY <2>1 DEF IsTool
  <2>3. (h < k <=> h < m) /\ (t < k <=> t < m)
    BY <1>0, <1>1, <2>1, SameSide
  <2> QED BY <1>2, <2>2, <2>3
<1> QED BY <1>3 DEF FoldsGroups

Folds == \A a \in Actors : pc[a] = "store" => FoldsGroups(log, context[a], plan[a].marks)

LEMMA FoldsInit == Init => Folds
BY DEF Init, Folds

LEMMA FoldsStep == Types /\ Pairs /\ Folds /\ [Next]_vars => Folds'
<1> SUFFICES ASSUME Types, Pairs, Folds, [Next]_vars, NEW a \in Actors, pc'[a] = "store"
             PROVE  FoldsGroups(log', context'[a], plan'[a].marks)
  BY DEF Folds
<1>0. Grows(log, log') /\ LogOK(log) /\ Within(log, context[a])
  BY LogGrows, TypesFacts
<1>1. CASE pc[a] = "store" /\ context'[a] = context[a] /\ plan'[a] = plan[a]
  <2>1. FoldsGroups(log, context[a], plan[a].marks)
    BY <1>1 DEF Folds
  <2>2. \A m \in DOMAIN context[a] : log'[context[a][m].at].call = log[context[a][m].at].call
    BY <1>0 DEF Grows, Within
  <2>3. FoldsGroups(log', context[a], plan[a].marks)
    BY <2>1, <2>2 DEF FoldsGroups
  <2> QED BY <1>1, <2>3
<1>2. CASE Summarize(a)
  <2> DEFINE own == IF a = "run" THEN {input} ELSE {}
  <2>1. PICK es, ids, p, h, t, from :
           /\ es = context[a]
           /\ ids = Places(es) \ own
           /\ plan' = [plan EXCEPT ![a] = p]
           /\ Compresses(p, es, ids, h, t, from)
           /\ Paired(log, es) /\ Exclusive(es) => Safe(log, es, h) /\ Safe(log, es, t)
    BY <1>2, SummarizePlans
  <2>2. Paired(log, es) /\ Single(log, es) /\ Within(log, es)
    BY <1>0, <1>2, <2>1 DEF Pairs, Summarize
  <2>3. Exclusive(es)
    BY <1>0, <2>2, SingleIsExclusive
  <2>4. \A i \in own : log[i].role # "tool" /\ log[i].calls = {}
    <3>1. a = "run" => InputOK(log, input)
      BY <1>2 DEF Types, Summarize
    <3> QED BY <3>1 DEF InputOK
  <2> HIDE DEF own
  <2>5. FoldsGroups(log, es, p.marks)
    BY <1>0, <2>1, <2>2, <2>3, <2>4, CompressionFolds
  <2>6. context'[a] = es /\ plan'[a] = p /\ log' = log
    BY <1>2, <2>1 DEF Summarize, Types
  <2> QED BY <2>5, <2>6
<1> QED BY <1>1, <1>2, ActorMoves

\* A compression folds a call and its result together or not at all, however the groups of
\* the conversation lie around the protected head and tail.
THEOREM GroupsAreFoldedTogether == Spec => []GroupsFoldTogether
<1>1. ASSUME Folds PROVE GroupsFoldTogether
  BY <1>1 DEF Folds, FoldsGroups, GroupsFoldTogether
<1> QED BY <1>1, TypesInit, TypesStep, PairsInit, PairsStep, FoldsInit, FoldsStep, PTL DEF Spec

-----------------------------------------------------------------------------
(* What the model is shown: how the log is ordered *)

\* A question or an answer.
Line(lg, i) == ~lg[i].summary /\ lg[i].role # "tool" /\ lg[i].calls = {}

\* A result answers an earlier message, over results and summaries only.
Ordered(lg) ==
  /\ \A m \in DOMAIN lg : lg[m].role = "tool" =>
       \E i \in DOMAIN lg : lg[m].call \in lg[i].calls
  /\ \A i, m \in DOMAIN lg : lg[m].call \in lg[i].calls =>
       i < m /\ \A j \in DOMAIN lg : i < j /\ j < m => lg[j].role = "tool" \/ lg[j].summary

\* Calls without text that nobody answered, with something said since: no context shows it.
Dead(lg, d) ==
  /\ lg[d].calls # {} /\ ~lg[d].text
  /\ \A m \in DOMAIN lg : lg[m].call \notin lg[d].calls
  /\ \E y \in DOMAIN lg : d < y /\ lg[y].role # "tool" /\ ~lg[y].summary

\* Since the input of a run there are summaries, and once it has called the model its calls
\* and their results.
Turn ==
  pc["run"] # "idle" => \A j \in DOMAIN log : input < j =>
    \/ log[j].summary
    \/ pc["run"] = "writing" /\ (log[j].calls # {} \/ log[j].role = "tool")

\* lg2 continues lg, and does not bring back what is dead.
Steady(lg, lg2) ==
  /\ DOMAIN lg \subseteq DOMAIN lg2
  /\ \A i \in DOMAIN lg : lg2[i] = lg[i]
  /\ \A i \in DOMAIN lg2 \ DOMAIN lg : ~lg2[i].summarized /\ \A j \in DOMAIN lg : j < i
  /\ \A d \in DOMAIN lg : Dead(lg, d) => Dead(lg2, d)

LEMMA CallIds ==
  ASSUME NEW lg, LogOK(lg), NEW i \in DOMAIN lg, NEW c \in lg[i].calls
  PROVE  c # NoCall /\ c[1] = i /\ \A j \in DOMAIN lg : c \in lg[j].calls => j = i
<1>1. DOMAIN lg = 1..Len(lg) /\ Len(lg) \in Nat
  BY DEF LogOK
<1>2. \A j \in DOMAIN lg : lg[j].calls \subseteq {j} \X (1..MaxCalls)
  BY DEF LogOK, MessageOK
<1>3. \A j \in DOMAIN lg : c \in lg[j].calls => c[1] = j
  BY <1>2
<1>4. c[1] = i /\ i # 0
  BY <1>1, <1>3
<1>5. NoCall[1] = 0
  BY DEF NoCall
<1> QED BY <1>3, <1>4, <1>5

LEMMA AppendedIs ==
  ASSUME NEW lg, LogOK(lg), NEW m, NextOK(lg, m), NEW lg2, Appended(lg, m, lg2)
  PROVE  /\ Len(lg) \in Nat /\ DOMAIN lg = 1..Len(lg)
         /\ LogOK(lg2) /\ DOMAIN lg2 = DOMAIN lg \union {Len(lg) + 1}
         /\ Len(lg) + 1 \notin DOMAIN lg /\ Len(lg2) = Len(lg) + 1
         /\ \A i \in DOMAIN lg2 : i \in DOMAIN lg \/ i = Len(lg) + 1
         /\ \A i \in DOMAIN lg : i < Len(lg) + 1
         /\ lg2[Len(lg) + 1] = m
<1>1. LogOK(lg2) /\ DOMAIN lg2 = DOMAIN lg \union {Len(lg) + 1}
  BY GrowsByOne
<1>2. Len(lg) \in Nat /\ DOMAIN lg = 1..Len(lg)
  BY DEF LogOK
<1>3. lg2[Len(lg) + 1] = m /\ Len(lg2) = Len(lg) + 1
  BY DEF Appended
<1> QED BY <1>1, <1>2, <1>3

LEMMA OrderedAppend ==
  ASSUME NEW lg, LogOK(lg), Ordered(lg), NEW m, NextOK(lg, m), NEW lg2, Appended(lg, m, lg2),
         m.role = "tool" => \E i \in DOMAIN lg :
           /\ m.call \in lg[i].calls
           /\ \A j \in DOMAIN lg : i < j => lg[j].role = "tool" \/ lg[j].summary
  PROVE  Ordered(lg2)
<1> DEFINE n == Len(lg) + 1
<1>1. /\ Len(lg) \in Nat /\ DOMAIN lg = 1..Len(lg)
      /\ LogOK(lg2) /\ DOMAIN lg2 = DOMAIN lg \union {n} /\ n \notin DOMAIN lg
      /\ \A i \in DOMAIN lg : i < n
      /\ lg2[n] = m
  BY AppendedIs
<1>2. \A i \in DOMAIN lg : lg2[i] = lg[i]
  BY DEF Appended
<1>3. m.role = "tool" => m.calls = {}
  BY DEF NextOK
<1>4. m.role # "tool" => m.call = NoCall
  BY DEF NextOK
<1>5. \A i \in DOMAIN lg : lg[i].role # "tool" => lg[i].call = NoCall
  BY DEF LogOK, MessageOK
<1> HIDE DEF n
<1>6. ASSUME NEW k \in DOMAIN lg2, lg2[k].role = "tool"
      PROVE  \E i \in DOMAIN lg2 : lg2[k].call \in lg2[i].calls
  <2>1. CASE k = n
    <3>1. PICK i \in DOMAIN lg : m.call \in lg[i].calls
      BY <1>1, <1>6, <2>1
    <3>2. i \in DOMAIN lg2 /\ lg2[i] = lg[i]
      BY <1>1, <1>2
    <3> QED BY <1>1, <2>1, <3>1, <3>2
  <2>2. CASE k \in DOMAIN lg
    <3>1. PICK i \in DOMAIN lg : lg[k].call \in lg[i].calls
      BY <1>2, <1>6, <2>2 DEF Ordered
    <3>2. i \in DOMAIN lg2 /\ lg2[i] = lg[i] /\ lg2[k] = lg[k]
      BY <1>1, <1>2, <2>2
    <3> QED BY <3>1, <3>2
  <2> QED BY <1>1, <2>1, <2>2
<1>7. ASSUME NEW i \in DOMAIN lg2, NEW k \in DOMAIN lg2, lg2[k].call \in lg2[i].calls
      PROVE  i < k /\ \A j \in DOMAIN lg2 : i < j /\ j < k => lg2[j].role = "tool" \/ lg2[j].summary
  <2>1. lg2[k].call # NoCall /\ \A j \in DOMAIN lg2 : lg2[k].call \in lg2[j].calls => j = i
    BY <1>1, <1>7, CallIds
  <2>2. CASE k = n
    <3>1. PICK o \in DOMAIN lg : /\ m.call \in lg[o].calls
                                 /\ \A j \in DOMAIN lg : o < j => lg[j].role = "tool" \/ lg[j].summary
      BY <1>1, <1>4, <2>1, <2>2
    <3>2. o \in DOMAIN lg2 /\ lg2[o] = lg[o]
      BY <1>1, <1>2
    <3>3. o = i
      BY <1>1, <2>1, <2>2, <3>1, <3>2
    <3>4. \A j \in DOMAIN lg2 : j # n => j \in DOMAIN lg /\ lg2[j] = lg[j]
      BY <1>1, <1>2
    <3>5. ~(n < n) /\ i < n
      BY <1>1, <3>3 DEF n
    <3> QED BY <2>2, <3>1, <3>3, <3>4, <3>5
  <2>3. CASE k \in DOMAIN lg
    <3>1. lg2[k] = lg[k] /\ lg[k].role = "tool"
      BY <1>2, <1>5, <2>1, <2>3
    <3>2. PICK o \in DOMAIN lg : lg[k].call \in lg[o].calls
      BY <3>1, <2>3 DEF Ordered
    <3>3. o \in DOMAIN lg2 /\ lg2[o] = lg[o]
      BY <1>1, <1>2
    <3>4. o = i
      BY <2>1, <3>1, <3>2, <3>3
    <3>5. i < k /\ \A j \in DOMAIN lg : i < j /\ j < k => lg[j].role = "tool" \/ lg[j].summary
      BY <2>3, <3>2, <3>4 DEF Ordered
    <3>6. \A j \in DOMAIN lg2 : j < k => j \in DOMAIN lg /\ lg2[j] = lg[j]
      <4>1. ~(n < k)
        BY <1>1, <2>3 DEF n
      <4> QED BY <1>1, <1>2, <4>1
    <3> QED BY <3>5, <3>6
  <2> QED BY <1>1, <2>2, <2>3
<1> QED BY <1>6, <1>7 DEF Ordered

LEMMA OrderedSame ==
  ASSUME NEW lg, NEW lg2, Ordered(lg), Grows(lg, lg2), DOMAIN lg2 = DOMAIN lg
  PROVE  Ordered(lg2)
BY DEF Ordered, Grows

LEMMA SteadySame ==
  ASSUME NEW lg, NEW lg2, lg2 = lg
  PROVE  Steady(lg, lg2)
BY DEF Steady

LEMMA SteadyAppend ==
  ASSUME NEW lg, LogOK(lg), NEW m, NextOK(lg, m), NEW lg2, Appended(lg, m, lg2),
         ~m.summarized, \A d \in DOMAIN lg : Dead(lg, d) => m.call \notin lg[d].calls
  PROVE  Steady(lg, lg2)
<1> DEFINE n == Len(lg) + 1
<1>1. /\ DOMAIN lg2 = DOMAIN lg \union {n} /\ n \notin DOMAIN lg
      /\ \A i \in DOMAIN lg : i < n
      /\ lg2[n] = m
  BY AppendedIs
<1>2. \A i \in DOMAIN lg : lg2[i] = lg[i]
  BY DEF Appended
<1> HIDE DEF n
<1>3. ASSUME NEW d \in DOMAIN lg, Dead(lg, d) PROVE Dead(lg2, d)
  <2>1. lg2[d] = lg[d]
    BY <1>2
  <2>2. \A k \in DOMAIN lg2 : lg2[k].call \notin lg2[d].calls
    BY <1>1, <1>2, <1>3, <2>1 DEF Dead
  <2>3. PICK y \in DOMAIN lg : d < y /\ lg[y].role # "tool" /\ ~lg[y].summary
    BY <1>3 DEF Dead
  <2>4. y \in DOMAIN lg2 /\ lg2[y] = lg[y]
    BY <1>1, <1>2
  <2>5. lg[d].calls # {} /\ ~lg[d].text
    BY <1>3 DEF Dead
  <2> QED BY <2>1, <2>2, <2>3, <2>4, <2>5 DEF Dead
<1>4. \A i \in DOMAIN lg2 \ DOMAIN lg : ~lg2[i].summarized /\ \A j \in DOMAIN lg : j < i
  BY <1>1
<1> QED BY <1>1, <1>2, <1>3, <1>4 DEF Steady

LEMMA AppendedNext ==
  ASSUME NEW lg, LogOK(lg), NEW m, NEW lg2, Appended(lg, m, lg2), LogOK(lg2)
  PROVE  NextOK(lg, m)
<1>1. Len(lg) \in Nat /\ DOMAIN lg = 1..Len(lg)
  BY DEF LogOK
<1>2. /\ lg2 \in Seq(Messages) /\ Len(lg2) = Len(lg) + 1 /\ lg2[Len(lg) + 1] = m
      /\ \A i \in DOMAIN lg : lg2[i] = lg[i]
  BY DEF Appended
<1>3. PICK n : n = Len(lg) + 1
  OBVIOUS
<1>4. DOMAIN lg2 = 1..n /\ n \in DOMAIN lg2 /\ lg2[n] = m
  BY <1>1, <1>2, <1>3
<1>5. m \in Messages /\ MessageOK(lg2, n)
  BY <1>2, <1>4 DEF LogOK
<1>6. ASSUME NEW j \in m.covers PROVE j \in DOMAIN lg /\ ~lg[j].summary
  <2>1. j \in 1..n /\ j < n /\ ~lg2[j].summary
    BY <1>4, <1>5 DEF MessageOK
  <2>2. j \in DOMAIN lg
    BY <1>1, <1>3, <2>1
  <2> QED BY <1>2, <2>1, <2>2
<1> QED BY <1>3, <1>4, <1>5, <1>6 DEF MessageOK, NextOK

\* What the steps of a turn store, and what stays true of the log.
Stores(m) ==
  /\ Appended(log, m, log') /\ LogOK(log') /\ NextOK(log, m)
  /\ Ordered(log') /\ Steady(log, log')

LEMMA PlainStores ==
  ASSUME LogOK(log), Ordered(log), NEW m, Appended(log, m, log'), LogOK(log'), m.role # "tool",
         ~m.summarized
  PROVE  Stores(m)
<1>1. NextOK(log, m)
  BY AppendedNext
<1>2. m.call = NoCall
  BY <1>1 DEF NextOK
<1>3. \A d \in DOMAIN log : NoCall \notin log[d].calls
  BY CallIds
<1>4. Steady(log, log')
  BY <1>1, <1>2, <1>3, SteadyAppend
<1>5. Ordered(log')
  BY <1>1, OrderedAppend
<1> QED BY <1>1, <1>4, <1>5 DEF Stores

LEMMA ResultIsSteady ==
  ASSUME Types, Ordered(log), Turn, WriteResult
  PROVE  \E m : Stores(m) /\ m.role = "tool" /\ ~m.summary
<1>1. LogOK(log) /\ pc["run"] = "writing"
  BY DEF Types, WriteResult
<1>2. PICK i \in DOMAIN log, c \in Nat \X Nat :
        /\ LogOK(log')
        /\ Appended(log, Message("tool", {}, c, TRUE), log')
        /\ input < i /\ c \in log[i].calls
        /\ \A j \in DOMAIN log : i < j => log[j].calls = {}
  BY ResultStores
<1>3. PICK m : m = Message("tool", {}, c, TRUE)
  OBVIOUS
<1>4. m.role = "tool" /\ m.call = c /\ ~m.summary /\ ~m.summarized
  BY <1>3 DEF Message
<1>5. NextOK(log, m) /\ Appended(log, m, log')
  BY <1>1, <1>2, <1>3, AppendedNext
<1>6. input \in Nat /\ DOMAIN log \subseteq Nat
  BY <1>1 DEF Types, LogOK
<1>7. \A j \in DOMAIN log : i < j => log[j].role = "tool" \/ log[j].summary
  <2> SUFFICES ASSUME NEW j \in DOMAIN log, i < j PROVE log[j].role = "tool" \/ log[j].summary
    OBVIOUS
  <2>1. input < j /\ log[j].calls = {}
    BY <1>2, <1>6
  <2> QED BY <1>1, <2>1 DEF Turn
<1>8. \A d \in DOMAIN log : Dead(log, d) => c \notin log[d].calls
  <2> SUFFICES ASSUME NEW d \in DOMAIN log, Dead(log, d), c \in log[d].calls PROVE FALSE
    OBVIOUS
  <2>1. d = i
    BY <1>1, <1>2, CallIds
  <2> QED BY <1>7, <2>1 DEF Dead
<1>9. Ordered(log')
  BY <1>1, <1>2, <1>4, <1>5, <1>7, OrderedAppend
<1>10. Steady(log, log')
  BY <1>1, <1>4, <1>5, <1>8, SteadyAppend
<1> QED BY <1>2, <1>4, <1>5, <1>9, <1>10 DEF Stores

LEMMA TurnStores ==
  ASSUME Types, Ordered(log)
  PROVE  /\ Ask => \E m : Stores(m) /\ ~m.summary /\ m.role # "tool"
         /\ WriteFinal => \E m : Stores(m) /\ ~m.summary /\ m.role # "tool"
         /\ WriteCalls => \E m : Stores(m) /\ ~m.summary /\ m.role # "tool" /\ m.calls # {}
<1>1. LogOK(log) /\ Len(log) \in Nat /\ NoCall \in Nat \X Nat
  BY DEF Types, LogOK, NoCall
<1>2. ASSUME Ask PROVE \E m : Stores(m) /\ ~m.summary /\ m.role # "tool"
  <2>1. PICK m : m = Message("user", {}, NoCall, TRUE)
    OBVIOUS
  <2>2. m.role = "user" /\ ~m.summary /\ ~m.summarized
    BY <2>1 DEF Message
  <2>3. LogOK(log') /\ Appended(log, m, log')
    BY <1>2, <2>1, AskStores
  <2> QED BY <1>1, <2>2, <2>3, PlainStores
<1>3. ASSUME WriteFinal PROVE \E m : Stores(m) /\ ~m.summary /\ m.role # "tool"
  <2>1. PICK m : m = Message("assistant", {}, NoCall, TRUE)
    OBVIOUS
  <2>2. m.role = "assistant" /\ ~m.summary /\ ~m.summarized
    BY <2>1 DEF Message
  <2>3. LogOK(log') /\ Appended(log, m, log')
    BY <1>3, <2>1, FinalStores
  <2> QED BY <1>1, <2>2, <2>3, PlainStores
<1>4. ASSUME WriteCalls PROVE \E m : Stores(m) /\ ~m.summary /\ m.role # "tool" /\ m.calls # {}
  <2>1. PICK n \in 1..MaxCalls, text \in BOOLEAN :
          /\ LogOK(log')
          /\ Appended(log, Message("assistant", {Len(log) + 1} \X (1..n), NoCall, text), log')
    BY <1>4, CallsStores
  <2>2. PICK m : m = Message("assistant", {Len(log) + 1} \X (1..n), NoCall, text)
    OBVIOUS
  <2>3. n \in Nat /\ 1 \in 1..n
    BY ContextConstants
  <2>4. <<Len(log) + 1, 1>> \in {Len(log) + 1} \X (1..n)
    BY <2>3
  <2>5. m.role = "assistant" /\ ~m.summary /\ ~m.summarized /\ m.calls # {}
    BY <2>2, <2>4 DEF Message
  <2>6. Appended(log, m, log')
    BY <2>1, <2>2
  <2> QED BY <1>1, <2>1, <2>5, <2>6, PlainStores
<1> QED BY <1>2, <1>3, <1>4

LEMMA SummaryIsSteady ==
  ASSUME Types, Ordered(log), NEW a \in Actors, StoreSummary(a)
  PROVE  \E m : Stores(m) /\ m.summary /\ m.covers = plan[a].covers /\ m.role # "tool"
<1>1. LogOK(log)
  BY DEF Types
<1>2. PICK m : m = SummaryOf(plan[a])
  OBVIOUS
<1>3. /\ Appended(log, m, log') /\ LogOK(log')
      /\ m.role = "user" /\ m.summary /\ ~m.summarized /\ m.covers = plan[a].covers
  BY <1>2, SummaryStores
<1> QED BY <1>1, <1>3, PlainStores

Logs == Ordered(log) /\ Turn

\* Steps that leave the log alone.
Waits ==
  \/ Command \/ Stop \/ Restart \/ UNCHANGED vars
  \/ \E a \in Actors : Build(a) \/ Skip(a) \/ Summarize(a) \/ StoreFails(a)

LEMMA StoresIs ==
  ASSUME LogOK(log), NEW m, Stores(m)
  PROVE  /\ Len(log) \in Nat /\ DOMAIN log = 1..Len(log)
         /\ DOMAIN log' = DOMAIN log \union {Len(log) + 1} /\ Len(log') = Len(log) + 1
         /\ Len(log) + 1 \notin DOMAIN log
         /\ \A i \in DOMAIN log : i < Len(log) + 1
         /\ log'[Len(log) + 1] = m
         /\ Steady(log, log') /\ LogOK(log') /\ Ordered(log')
<1>1. PICK lg2 : lg2 = log'
  OBVIOUS
<1>2. Appended(log, m, lg2) /\ NextOK(log, m)
  BY <1>1 DEF Stores
<1>3. /\ Len(log) \in Nat /\ DOMAIN log = 1..Len(log)
      /\ DOMAIN lg2 = DOMAIN log \union {Len(log) + 1} /\ Len(lg2) = Len(log) + 1
      /\ Len(log) + 1 \notin DOMAIN log
      /\ \A i \in DOMAIN log : i < Len(log) + 1
      /\ lg2[Len(log) + 1] = m
  BY <1>2, AppendedIs
<1> QED BY <1>1, <1>3 DEF Stores

LEMMA WaitsKeepsLog ==
  ASSUME Waits
  PROVE  log' = log
BY DEF Waits, Command, Stop, Restart, Build, Skip, Summarize, StoreFails, vars

LEMMA NextIs ==
  ASSUME [Next]_vars
  PROVE  \/ Waits \/ Ask \/ WriteCalls \/ WriteResult \/ WriteFinal
         \/ \E a \in Actors : StoreSummary(a) \/ Mark(a)
BY DEF Next, Waits

LEMMA LogsInit == Init => Logs
BY DEF Init, Logs, Ordered, Turn, Actors

LEMMA MarkIs ==
  ASSUME Types, NEW a \in Actors, Mark(a)
  PROVE  /\ LogOK(log') /\ Grows(log, log') /\ DOMAIN log' = DOMAIN log
         /\ clean' => Flagged(log, plan[a].marks, log') /\ clean
<1>1. CASE log' = [i \in DOMAIN log |->
                  IF i \in plan[a].marks THEN [log[i] EXCEPT !.summarized = TRUE] ELSE log[i]]
           /\ UNCHANGED clean
  <2>1. LogOK(log') /\ Grows(log, log') /\ Flagged(log, plan[a].marks, log')
    BY <1>1, MarkStores
  <2>2. DOMAIN log' = DOMAIN log
    BY <1>1
  <2> QED BY <1>1, <2>1, <2>2
<1>2. CASE UNCHANGED log /\ clean' = FALSE
  <2>1. LogOK(log') /\ Grows(log, log')
    BY <1>2, GrowsItself DEF Types
  <2> QED BY <1>2, <2>1
<1> QED BY <1>1, <1>2 DEF Mark

LEMMA OrderedStep ==
  ASSUME Types, Logs, [Next]_vars
  PROVE  Ordered(log')
<1>0. Ordered(log) /\ Turn /\ LogOK(log)
  BY DEF Logs, Types
<1>1. CASE Waits
  BY <1>0, <1>1, WaitsKeepsLog
<1>2. CASE Ask \/ WriteCalls \/ WriteFinal
  BY <1>0, <1>2, TurnStores DEF Stores
<1>3. CASE WriteResult
  BY <1>0, <1>3, ResultIsSteady DEF Stores
<1>4. ASSUME NEW a \in Actors, StoreSummary(a) PROVE Ordered(log')
  BY <1>0, <1>4, SummaryIsSteady DEF Stores
<1>5. ASSUME NEW a \in Actors, Mark(a) PROVE Ordered(log')
  BY <1>0, <1>5, MarkIs, OrderedSame
<1> QED BY <1>1, <1>2, <1>3, <1>4, <1>5, NextIs

\* What holds of the messages since the input, when one is stored.
LEMMA TurnAppend ==
  ASSUME LogOK(log), Turn, NEW m, Stores(m), pc["run"] # "idle", input' = input,
         pc["run"] = "writing" => pc'["run"] = "writing",
         m.summary \/ (pc'["run"] = "writing" /\ (m.calls # {} \/ m.role = "tool"))
  PROVE  Turn'
<1> SUFFICES ASSUME NEW j \in DOMAIN log', input' < j
             PROVE  \/ log'[j].summary
                    \/ pc'["run"] = "writing" /\ (log'[j].calls # {} \/ log'[j].role = "tool")
  BY DEF Turn
<1>1. DOMAIN log' = DOMAIN log \union {Len(log) + 1} /\ log'[Len(log) + 1] = m
  BY StoresIs
<1>2. CASE j = Len(log) + 1
  BY <1>1, <1>2
<1>3. CASE j \in DOMAIN log
  <2>1. log'[j] = log[j]
    BY <1>3 DEF Stores, Steady
  <2> QED BY <1>3, <2>1 DEF Turn
<1> QED BY <1>1, <1>2, <1>3

LEMMA TurnStep ==
  ASSUME Types, Logs, [Next]_vars
  PROVE  Turn'
<1>0. Ordered(log) /\ Turn /\ LogOK(log) /\ Len(log) \in Nat /\ pc \in [Actors -> States]
      /\ "run" \in Actors /\ DOMAIN log = 1..Len(log)
  BY DEF Logs, Types, LogOK, Actors
<1>1. CASE Waits
  <2>1. log' = log
    BY <1>1, WaitsKeepsLog
  <2>2. \/ pc'["run"] = "idle"
        \/ pc["run"] # "idle" /\ input' = input /\ (pc["run"] = "writing" => pc'["run"] = "writing")
    BY <1>0, <1>1 DEF Waits, Command, Stop, EndRun, Restart, Build, Skip, Summarize, StoreFails,
                      Done, vars, Actors
  <2> QED BY <1>0, <2>1, <2>2 DEF Turn
<1>2. CASE Ask
  <2>1. PICK m : Stores(m)
    BY <1>0, <1>2, TurnStores
  <2>2. DOMAIN log' = DOMAIN log \union {Len(log) + 1} /\ input' = Len(log) + 1
    BY <1>0, <1>2, <2>1, StoresIs DEF Ask
  <2>3. \A j \in DOMAIN log' : ~(input' < j)
    BY <1>0, <2>2
  <2> QED BY <2>3 DEF Turn
<1>3. CASE WriteCalls
  <2>1. PICK m : Stores(m) /\ m.calls # {}
    BY <1>0, <1>3, TurnStores
  <2>2. pc["run"] # "idle" /\ input' = input /\ pc'["run"] = "writing"
    BY <1>0, <1>3 DEF WriteCalls
  <2> QED BY <1>0, <2>1, <2>2, TurnAppend
<1>4. CASE WriteResult
  <2>1. PICK m : Stores(m) /\ m.role = "tool"
    BY <1>0, <1>4, ResultIsSteady
  <2>2. pc["run"] # "idle" /\ input' = input /\ pc'["run"] = "writing"
    BY <1>0, <1>4 DEF WriteResult
  <2> QED BY <1>0, <2>1, <2>2, TurnAppend
<1>5. CASE WriteFinal
  <2>1. pc'["run"] = "idle"
    BY <1>0, <1>5 DEF WriteFinal, EndRun
  <2> QED BY <2>1 DEF Turn
<1>6. ASSUME NEW a \in Actors, StoreSummary(a) PROVE Turn'
  <2>1. PICK m : Stores(m) /\ m.summary
    BY <1>0, <1>6, SummaryIsSteady
  <2>2. /\ input' = input
        /\ pc'["run"] # "idle" => pc["run"] # "idle"
        /\ pc["run"] = "writing" => pc'["run"] = "writing"
    BY <1>0, <1>6 DEF StoreSummary
  <2>3. CASE pc'["run"] = "idle"
    BY <2>3 DEF Turn
  <2>4. CASE pc'["run"] # "idle"
    BY <1>0, <2>1, <2>2, <2>4, TurnAppend
  <2> QED BY <2>3, <2>4
<1>7. ASSUME NEW a \in Actors, Mark(a) PROVE Turn'
  <2>1. Grows(log, log') /\ DOMAIN log' = DOMAIN log
    BY <1>7, MarkIs
  <2>2. /\ input' = input
        /\ pc'["run"] # "idle" => pc["run"] # "idle"
        /\ pc["run"] = "writing" => pc'["run"] = "writing"
    BY <1>0, <1>7 DEF Mark, Done
  <2> QED BY <1>0, <2>1, <2>2 DEF Turn, Grows
<1> QED BY <1>1, <1>2, <1>3, <1>4, <1>5, <1>6, <1>7, NextIs

LEMMA LogsStep == Types /\ Logs /\ [Next]_vars => Logs'
BY OrderedStep, TurnStep DEF Logs

-----------------------------------------------------------------------------
(* The protected head *)

\* The messages that are folded, once those of S are flagged.
Folding(lg, S) == {i \in DOMAIN lg : ~lg[i].summary /\ (lg[i].summarized \/ i \in S)}

Latest(lg, n) ==
  n \in DOMAIN lg /\ lg[n].summary /\ \A i \in DOMAIN lg : lg[i].summary => i <= n

\* H is what a compression left in the head: whole groups; what lies between its messages
\* is dead; there are at least ProtectFirst of them, and behind these only calls and results.
HeadIs(lg, H) ==
  /\ H \subseteq DOMAIN lg /\ \A a \in H : ~lg[a].summary
  /\ \A j \in H : lg[j].role = "tool" => \E i \in H : lg[j].call \in lg[i].calls
  /\ \A j \in H : lg[j].calls # {} /\ ~lg[j].text => \E m \in H : lg[m].call \in lg[j].calls
  /\ \A d \in DOMAIN lg \ H, h \in H : d < h /\ ~lg[d].summary => Dead(lg, d)
  /\ ProtectFirst <= Cardinality(H)
  /\ \A h \in H : Line(lg, h) => Cardinality({a \in H : a < h}) < ProtectFirst

\* The summary n covers the lines that are folded, and those before them that are not in
\* the head.
HeadFor(lg, H, S, cov, n) ==
  /\ \A a \in H : a < n
  /\ \A b \in Folding(lg, S) : b < n /\ (Line(lg, b) => b \in cov) /\ \A a \in H : a < b
  /\ \A l \in DOMAIN lg : Line(lg, l) /\ l < n /\ (\A b \in Folding(lg, S) : l < b) =>
       l \in H \union cov

\* The log went on without bringing back what is dead.
Alike(lg, lg2) ==
  /\ Grows(lg, lg2)
  /\ \A i \in DOMAIN lg2 \ DOMAIN lg, j \in DOMAIN lg : j < i
  /\ \A d \in DOMAIN lg : Dead(lg, d) => Dead(lg2, d)

LEMMA SteadyAlike ==
  ASSUME NEW lg, NEW lg2, Steady(lg, lg2)
  PROVE  Alike(lg, lg2)
BY DEF Steady, Alike, Grows

LEMMA MarkedAlike ==
  ASSUME NEW lg, NEW lg2, Grows(lg, lg2), DOMAIN lg2 = DOMAIN lg
  PROVE  Alike(lg, lg2)
BY DEF Alike, Grows, Dead

LEMMA AlikeLine ==
  ASSUME NEW lg, NEW lg2, Grows(lg, lg2), NEW i \in DOMAIN lg
  PROVE  Line(lg2, i) <=> Line(lg, i)
BY DEF Grows, Line

LEMMA HeadGrows ==
  ASSUME NEW lg, NEW lg2, LogOK(lg), LogOK(lg2), Alike(lg, lg2), NEW H, HeadIs(lg, H)
  PROVE  HeadIs(lg2, H)
<1>1. Grows(lg, lg2) /\ DOMAIN lg \subseteq DOMAIN lg2 /\ DOMAIN lg2 \subseteq Nat
  BY DEF Alike, Grows, LogOK
<1>2. H \subseteq DOMAIN lg /\ \A a \in H : ~lg[a].summary
  BY DEF HeadIs
<1>3. \A i \in DOMAIN lg :
       /\ lg2[i].role = lg[i].role /\ lg2[i].calls = lg[i].calls /\ lg2[i].call = lg[i].call
       /\ lg2[i].text = lg[i].text /\ lg2[i].summary = lg[i].summary
  BY <1>1 DEF Grows
<1>4. H \subseteq DOMAIN lg2 /\ \A a \in H : ~lg2[a].summary
  BY <1>1, <1>2, <1>3
<1>5. \A j \in H : lg2[j].role = "tool" => \E i \in H : lg2[j].call \in lg2[i].calls
  BY <1>2, <1>3 DEF HeadIs
<1>6. \A j \in H : lg2[j].calls # {} /\ ~lg2[j].text => \E m \in H : lg2[m].call \in lg2[j].calls
  BY <1>2, <1>3 DEF HeadIs
<1>7. ASSUME NEW d \in DOMAIN lg2 \ H, NEW h \in H, d < h, ~lg2[d].summary
      PROVE  Dead(lg2, d)
  <2>1. d \in DOMAIN lg
    <3>1. d \notin DOMAIN lg => h < d
      BY <1>2 DEF Alike
    <3>2. d \in Nat /\ h \in Nat
      BY <1>1, <1>4
    <3> QED BY <1>7, <3>1, <3>2
  <2>2. Dead(lg, d)
    BY <1>3, <1>7, <2>1 DEF HeadIs
  <2> QED BY <2>1, <2>2 DEF Alike
<1>8. \A h \in H : Line(lg2, h) => Line(lg, h)
  BY <1>1, <1>2, AlikeLine
<1>9. ProtectFirst <= Cardinality(H)
      /\ \A h \in H : Line(lg, h) => Cardinality({a \in H : a < h}) < ProtectFirst
  BY DEF HeadIs
<1> QED BY <1>4, <1>5, <1>6, <1>7, <1>8, <1>9 DEF HeadIs

LEMMA FoldingSteady ==
  ASSUME NEW lg, NEW lg2, Steady(lg, lg2), NEW S, S \subseteq DOMAIN lg
  PROVE  Folding(lg2, S) = Folding(lg, S)
BY DEF Steady, Folding

LEMMA FoldingMarked ==
  ASSUME NEW lg, NEW lg2, Grows(lg, lg2), NEW S, Flagged(lg, S, lg2)
  PROVE  Folding(lg2, {}) = Folding(lg, S)
BY DEF Grows, Flagged, Folding

LEMMA HeadForSteady ==
  ASSUME NEW lg, NEW lg2, LogOK(lg2), Steady(lg, lg2), NEW H, NEW S, S \subseteq DOMAIN lg, NEW cov,
         NEW n \in Nat, NEW n2 \in Nat, n <= n2, HeadFor(lg, H, S, cov, n), H \subseteq DOMAIN lg,
         n2 = n \/ \A l \in DOMAIN lg : l < n,
         \A l \in DOMAIN lg2 \ DOMAIN lg : Line(lg2, l) /\ l < n2 => Folding(lg, S) # {}
  PROVE  HeadFor(lg2, H, S, cov, n2)
<1>1. /\ DOMAIN lg \subseteq DOMAIN lg2 /\ DOMAIN lg2 \subseteq Nat
      /\ \A i \in DOMAIN lg : lg2[i] = lg[i]
      /\ \A i \in DOMAIN lg2 \ DOMAIN lg : \A j \in DOMAIN lg : j < i
  BY DEF Steady, LogOK
<1>2. PICK F : F = Folding(lg, S) /\ F = Folding(lg2, S)
  BY FoldingSteady
<1>3. F \subseteq DOMAIN lg
  BY <1>2 DEF Folding
<1>4. \A i \in DOMAIN lg : Line(lg2, i) <=> Line(lg, i)
  BY <1>1 DEF Line
<1>5. \A a \in H : a < n2
  BY <1>1 DEF HeadFor
<1>6. \A b \in F : b < n2 /\ (Line(lg2, b) => b \in cov) /\ \A a \in H : a < b
  <2>1. \A b \in F : b < n /\ (Line(lg, b) => b \in cov) /\ \A a \in H : a < b
    BY <1>2 DEF HeadFor
  <2> QED BY <1>1, <1>3, <1>4, <2>1
<1>7. ASSUME NEW l \in DOMAIN lg2, Line(lg2, l), l < n2, \A b \in F : l < b
      PROVE  l \in H \union cov
  <2>1. l \in DOMAIN lg
    <3> SUFFICES ASSUME l \notin DOMAIN lg PROVE FALSE
      OBVIOUS
    <3>1. PICK b \in F : TRUE
      BY <1>2, <1>7
    <3>2. b < l /\ l < b /\ b \in Nat /\ l \in Nat
      BY <1>1, <1>3, <1>7, <3>1
    <3> QED BY <3>2
  <2>2. l < n
    BY <1>1, <1>7, <2>1
  <2>3. Line(lg, l)
    BY <1>4, <1>7, <2>1
  <2> QED BY <1>2, <1>7, <2>1, <2>2, <2>3 DEF HeadFor
<1> QED BY <1>2, <1>5, <1>6, <1>7 DEF HeadFor

LEMMA HeadForMarked ==
  ASSUME NEW lg, NEW lg2, Grows(lg, lg2), NEW S, Flagged(lg, S, lg2), NEW H, NEW cov, NEW n,
         HeadFor(lg, H, S, cov, n)
  PROVE  HeadFor(lg2, H, {}, cov, n)
<1>1. PICK F : F = Folding(lg, S) /\ F = Folding(lg2, {})
  BY FoldingMarked
<1>2. F \subseteq DOMAIN lg /\ DOMAIN lg2 = DOMAIN lg
  BY <1>1 DEF Folding, Flagged
<1>3. \A i \in DOMAIN lg : Line(lg2, i) <=> Line(lg, i)
  BY AlikeLine
<1>4. /\ \A a \in H : a < n
      /\ \A b \in F : b < n /\ (Line(lg, b) => b \in cov) /\ \A a \in H : a < b
      /\ \A l \in DOMAIN lg : Line(lg, l) /\ l < n /\ (\A b \in F : l < b) => l \in H \union cov
  BY <1>1 DEF HeadFor
<1>5. /\ \A a \in H : a < n
      /\ \A b \in F : b < n /\ (Line(lg2, b) => b \in cov) /\ \A a \in H : a < b
      /\ \A l \in DOMAIN lg2 : Line(lg2, l) /\ l < n /\ (\A b \in F : l < b) => l \in H \union cov
  BY <1>2, <1>3, <1>4
<1> QED BY <1>1, <1>5 DEF HeadFor

-----------------------------------------------------------------------------
(* The context an actor has built *)

\* The messages in order, at most one summary among them; who only called kept a call.
InSequence(lg, es) ==
  /\ \A j, k \in DOMAIN es : j < k /\ ~lg[es[j].at].summary /\ ~lg[es[k].at].summary =>
       es[j].at < es[k].at
  /\ \A j, k \in DOMAIN es : lg[es[j].at].summary /\ lg[es[k].at].summary => j = k
  /\ \A k \in DOMAIN es : lg[es[k].at].calls # {} /\ ~lg[es[k].at].text => es[k].calls # {}

\* The latest summary is shown, and every line that is not folded; to the command, except
\* those of a turn that went on since.
UpToDate(lg, es, a) ==
  /\ \A n \in DOMAIN lg : Latest(lg, n) => \E k \in DOMAIN es : es[k].at = n
  /\ \A l \in DOMAIN lg : Line(lg, l) =>
       \/ \E k \in DOMAIN es : es[k].at = l
       \/ lg[l].summarized
       \/ a = "command" /\ \A k \in DOMAIN es : ~lg[es[k].at].summary => es[k].at < l

\* The messages before the summary: older than what is folded, without a gap but for what is
\* dead, more than ProtectFirst; the summary covers the lines behind these.
HeadShown(lg, es) ==
  /\ \A f, k \in DOMAIN es : lg[es[f].at].summary /\ k < f =>
       \A b \in Folding(lg, {}) : es[k].at < b
  /\ \A k \in DOMAIN es : (\A j \in 1..k : ~lg[es[j].at].summary) =>
       \A d \in DOMAIN lg :
         ~lg[d].summary /\ d < es[k].at /\ (\A j \in DOMAIN es : es[j].at # d) => Dead(lg, d)
  /\ \A f \in DOMAIN es : lg[es[f].at].summary => ProtectFirst < f
  /\ \A f, k \in DOMAIN es :
       lg[es[f].at].summary /\ ProtectFirst < k /\ k < f /\ Line(lg, es[k].at) =>
         es[k].at \in lg[es[f].at].covers

Built(lg, es, a, i) ==
  /\ InSequence(lg, es) /\ UpToDate(lg, es, a) /\ HeadShown(lg, es)
  /\ a = "run" => Len(es) \in DOMAIN es /\ es[Len(es)].at = i

LEMMA BuiltSteady ==
  ASSUME NEW lg, NEW lg2, LogOK(lg), LogOK(lg2), Steady(lg, lg2), NEW es, Within(lg, es),
         NEW a, NEW i, Built(lg, es, a, i),
         \A l \in DOMAIN lg2 \ DOMAIN lg : ~lg2[l].summary /\ (Line(lg2, l) => a = "command")
  PROVE  Built(lg2, es, a, i)
<1>1. /\ DOMAIN lg \subseteq DOMAIN lg2 /\ DOMAIN lg2 \subseteq Nat
      /\ \A k \in DOMAIN lg : lg2[k] = lg[k]
      /\ \A k \in DOMAIN lg2 \ DOMAIN lg : \A j \in DOMAIN lg : j < k
      /\ \A d \in DOMAIN lg : Dead(lg, d) => Dead(lg2, d)
  BY DEF Steady, LogOK
<1>2. \A k \in DOMAIN es : es[k].at \in DOMAIN lg /\ lg2[es[k].at] = lg[es[k].at]
  BY <1>1 DEF Within
<1>3. DOMAIN es \subseteq Nat /\ \A k \in DOMAIN es : 1..k \subseteq DOMAIN es
  <2>1. Len(es) \in Nat /\ DOMAIN es = 1..Len(es)
    BY DEF Within
  <2> QED BY <2>1
<1>4. \A k \in DOMAIN lg : Line(lg2, k) <=> Line(lg, k)
  BY <1>1 DEF Line
<1>5. InSequence(lg2, es)
  <2>1. InSequence(lg, es)
    BY DEF Built
  <2> QED BY <1>2, <2>1 DEF InSequence
<1>6. UpToDate(lg2, es, a)
  <2>1. UpToDate(lg, es, a)
    BY DEF Built
  <2>2. ASSUME NEW n \in DOMAIN lg2, Latest(lg2, n) PROVE \E k \in DOMAIN es : es[k].at = n
    <3>1. n \in DOMAIN lg
      BY <2>2 DEF Latest
    <3>2. Latest(lg, n)
      BY <1>1, <2>2, <3>1 DEF Latest
    <3> QED BY <2>1, <3>1, <3>2 DEF UpToDate
  <2>3. ASSUME NEW l \in DOMAIN lg2, Line(lg2, l)
        PROVE  \/ \E k \in DOMAIN es : es[k].at = l
               \/ lg2[l].summarized
               \/ a = "command" /\ \A k \in DOMAIN es : ~lg2[es[k].at].summary => es[k].at < l
    <3>1. CASE l \in DOMAIN lg
      <4>1. \/ \E k \in DOMAIN es : es[k].at = l
            \/ lg[l].summarized
            \/ a = "command" /\ \A k \in DOMAIN es : ~lg[es[k].at].summary => es[k].at < l
        BY <1>4, <2>1, <2>3, <3>1 DEF UpToDate
      <4> QED BY <1>1, <1>2, <3>1, <4>1
    <3>2. CASE l \notin DOMAIN lg
      BY <1>1, <1>2, <2>3, <3>2
    <3> QED BY <3>1, <3>2
  <2> QED BY <2>2, <2>3 DEF UpToDate
<1>7. HeadShown(lg2, es)
  <2>1. HeadShown(lg, es)
    BY DEF Built
  <2>2. Folding(lg2, {}) = Folding(lg, {})
    BY FoldingSteady
  <2>3. \A f, k \in DOMAIN es : lg2[es[f].at].summary /\ k < f =>
         \A b \in Folding(lg2, {}) : es[k].at < b
    BY <1>2, <2>1, <2>2 DEF HeadShown
  <2>4. ASSUME NEW k \in DOMAIN es, \A j \in 1..k : ~lg2[es[j].at].summary, NEW d \in DOMAIN lg2,
               ~lg2[d].summary, d < es[k].at, \A j \in DOMAIN es : es[j].at # d
        PROVE  Dead(lg2, d)
    <3>1. d \in DOMAIN lg
      <4>1. d \notin DOMAIN lg => es[k].at < d
        BY <1>1, <1>2
      <4>2. d \in Nat /\ es[k].at \in Nat
        BY <1>1, <1>2
      <4> QED BY <2>4, <4>1, <4>2
    <3>2. \A j \in 1..k : ~lg[es[j].at].summary
      BY <1>2, <1>3, <2>4
    <3>3. Dead(lg, d)
      BY <1>1, <2>1, <2>4, <3>1, <3>2 DEF HeadShown
    <3> QED BY <1>1, <3>1, <3>3
  <2>5. \A f \in DOMAIN es : lg2[es[f].at].summary => ProtectFirst < f
    BY <1>2, <2>1 DEF HeadShown
  <2>6. \A f, k \in DOMAIN es :
       lg2[es[f].at].summary /\ ProtectFirst < k /\ k < f /\ Line(lg2, es[k].at) =>
         es[k].at \in lg2[es[f].at].covers
    BY <1>2, <1>4, <2>1 DEF HeadShown
  <2> QED BY <2>3, <2>4, <2>5, <2>6 DEF HeadShown
<1> QED BY <1>5, <1>6, <1>7 DEF Built

\* The first p places of a context are p messages.
LEMMA CountPlaces ==
  ASSUME NEW es, NEW p \in Nat, \A i, j \in 1..p : es[i].at = es[j].at => i = j,
         NEW P, \A j \in 1..p : es[j].at \in P, \A x \in P : \E j \in 1..p : es[j].at = x
  PROVE  IsFiniteSet(P) /\ Cardinality(P) = p
<1> DEFINE g == [j \in 1..p |-> es[j].at]
<1>1. g \in [1..p -> P] /\ \A x \in P : \E j \in 1..p : g[j] = x
  OBVIOUS
<1>2. \A i, j \in 1..p : g[i] = g[j] => i = j
  OBVIOUS
<1> HIDE DEF g
<1>3. g \in Surjection(1..p, P)
  BY <1>1 DEF Surjection
<1>4. g \in Injection(1..p, P)
  BY <1>1, <1>2 DEF Injection, IsInjective
<1>5. IsFiniteSet(1..p) /\ Cardinality(1..p) = IF 1 > p THEN 0 ELSE p - 1 + 1
  BY FS_Interval
<1>6. Cardinality(1..p) = p
  BY <1>5
<1> QED BY <1>3, <1>4, <1>5, <1>6, FS_Surjection

\* u is older than what is folded and than the latest summary.
Front(lg, u) ==
  /\ u \in DOMAIN lg /\ ~lg[u].summary
  /\ \A b \in Folding(lg, {}) : u < b
  /\ \A n \in DOMAIN lg : Latest(lg, n) => u < n

\* What is known of the messages an actor arranges, without its own input.
Frame(own, c) ==
  /\ LogOK(log) /\ Ordered(log) /\ own \subseteq DOMAIN log
  /\ c \in Seq(Entries) /\ Arranged(c, DOMAIN log \ own)
  /\ \A i \in own : Line(log, i) /\ \A j \in DOMAIN log : i < j => log[j].summary

LEMMA LatestShown ==
  ASSUME NEW own, NEW c, Frame(own, c)
  PROVE  /\ \A s \in DOMAIN c : Summary(c[s]) => Latest(log, c[s].at)
         /\ \A n \in DOMAIN log : Latest(log, n) => \E s \in DOMAIN c : c[s].at = n
<1>1. \A i \in DOMAIN log : log[i].summary => i \in DOMAIN log \ own
  BY DEF Frame, Line
<1>2. Arranged(c, DOMAIN log \ own)
  BY DEF Frame
<1>3. ASSUME NEW s \in DOMAIN c, Summary(c[s]) PROVE Latest(log, c[s].at)
  BY <1>1, <1>2, <1>3 DEF Arranged, Latest, Summary
<1>4. ASSUME NEW n \in DOMAIN log, Latest(log, n) PROVE \E s \in DOMAIN c : c[s].at = n
  <2>1. n \in DOMAIN log \ own /\ log[n].summary
    BY <1>1, <1>4 DEF Latest
  <2>2. PICK s \in DOMAIN c : Summary(c[s])
    BY <1>2, <2>1 DEF Arranged
  <2>3. Latest(log, c[s].at)
    BY <1>3, <2>2
  <2>4. n <= c[s].at /\ c[s].at <= n /\ n \in Nat /\ c[s].at \in Nat
    BY <1>4, <2>1, <2>3 DEF Latest, Frame, LogOK
  <2> QED BY <2>4
<1> QED BY <1>3, <1>4

LEMMA FrontBelow ==
  ASSUME LogOK(log), NEW u, Front(log, u), NEW d \in DOMAIN log, d < u, ~log[d].summary
  PROVE  Front(log, d)
<1>1. DOMAIN log \subseteq Nat /\ u \in DOMAIN log
  BY DEF LogOK, Front
<1>2. \A b \in Folding(log, {}) : b \in Nat /\ u < b
  BY <1>1 DEF Front, Folding
<1>3. \A n \in DOMAIN log : Latest(log, n) => u < n
  BY DEF Front
<1> QED BY <1>1, <1>2, <1>3 DEF Front

LEMMA FrontIsArranged ==
  ASSUME NEW own, NEW c, Frame(own, c), NEW u, Front(log, u), u \notin own
  PROVE  \E k \in DOMAIN c : c[k].at = u /\ \A s \in DOMAIN c : Summary(c[s]) => k < s
<1>0. DOMAIN log \subseteq Nat /\ DOMAIN c \subseteq Nat /\ LogOK(log)
  BY DEF Frame, LogOK
<1>1. Arranged(c, DOMAIN log \ own) /\ u \in DOMAIN log \ own /\ ~log[u].summary
  BY DEF Frame, Front
<1>2. ~log[u].summarized
  BY <1>0, <1>1 DEF Front, Folding
<1>3. PICK k \in DOMAIN c : c[k].at = u
  BY <1>1, <1>2 DEF Arranged
<1>4. ASSUME NEW s \in DOMAIN c, Summary(c[s]) PROVE k < s
  <2>1. s # k /\ s \in Nat /\ k \in Nat
    BY <1>0, <1>1, <1>3, <1>4 DEF Summary
  <2> SUFFICES ASSUME s < k PROVE FALSE
    BY <2>1
  <2>2. c[s].at < u \/ \E b \in Folded(DOMAIN log \ own) : b < u
    BY <1>1, <1>3, <1>4 DEF Arranged
  <2>3. c[s].at \in DOMAIN log /\ Latest(log, c[s].at)
    BY <1>1, <1>4, LatestShown DEF Arranged
  <2>4. u < c[s].at /\ c[s].at \in Nat /\ u \in Nat
    BY <1>0, <1>1, <2>3 DEF Front
  <2>5. \A b \in Folded(DOMAIN log \ own) : u < b /\ b \in Nat
    BY <1>0 DEF Front, Folded, Folding
  <2> QED BY <2>2, <2>4, <2>5
<1> QED BY <1>3, <1>4

\* A call and its result in front of everything folded stay together.
LEMMA FrontBehind ==
  ASSUME NEW own, NEW c, Frame(own, c), NEW i, Front(log, i), NEW m, Front(log, m),
         log[m].call \in log[i].calls
  PROVE  \E ki, km \in DOMAIN c :
           /\ c[ki].at = i /\ c[km].at = m /\ Behind(log, c, ki, km) /\ IsTool(log, c[km])
<1>0. /\ DOMAIN log \subseteq Nat /\ DOMAIN c \subseteq Nat /\ LogOK(log) /\ Ordered(log)
      /\ DOMAIN c = 1..Len(c) /\ Len(c) \in Nat
  BY DEF Frame, LogOK
<1>1. i \in DOMAIN log /\ m \in DOMAIN log
  BY DEF Front
<1>2. log[m].call # NoCall
  BY <1>0, <1>1, CallIds
<1>3. log[m].role = "tool" /\ log[i].role # "tool" /\ log[i].calls # {}
  BY <1>0, <1>1, <1>2 DEF LogOK, MessageOK
<1>4. i \notin own /\ m \notin own
  BY <1>3 DEF Frame, Line
<1>5. PICK ki \in DOMAIN c : c[ki].at = i /\ \A s \in DOMAIN c : Summary(c[s]) => ki < s
  BY <1>4, FrontIsArranged
<1>6. PICK km \in DOMAIN c : c[km].at = m /\ \A s \in DOMAIN c : Summary(c[s]) => km < s
  BY <1>4, FrontIsArranged
<1>7. i < m /\ \A j \in DOMAIN log : i < j /\ j < m => log[j].role = "tool" \/ log[j].summary
  BY <1>0, <1>1 DEF Ordered
<1>8. Arranged(c, DOMAIN log \ own)
  BY DEF Frame
<1>9. \A j, k \in DOMAIN c : j < k /\ ~Summary(c[j]) /\ ~Summary(c[k]) => c[j].at < c[k].at
  BY <1>8 DEF Arranged
<1>10. ~Summary(c[ki]) /\ ~Summary(c[km])
  BY <1>5, <1>6 DEF Summary, Front
<1>11. ki < km
  <2>1. ki # km /\ ki \in Nat /\ km \in Nat /\ i \in Nat /\ m \in Nat
    BY <1>0, <1>1, <1>5, <1>6, <1>7
  <2> SUFFICES ASSUME km < ki PROVE FALSE
    BY <2>1
  <2>2. m < i
    BY <1>5, <1>6, <1>9, <1>10
  <2> QED BY <1>7, <2>1, <2>2
<1>12. ASSUME NEW j \in (ki + 1)..(km - 1) PROVE IsTool(log, c[j])
  <2>1. j \in DOMAIN c /\ ki < j /\ j < km /\ j \in Nat /\ km \in Nat
    BY <1>0, <1>11
  <2>2. ~Summary(c[j])
    BY <1>6, <2>1
  <2>3. c[j].at \in DOMAIN log /\ i < c[j].at /\ c[j].at < m
    BY <1>5, <1>6, <1>8, <1>9, <1>10, <2>1, <2>2 DEF Arranged
  <2> QED BY <1>7, <2>2, <2>3 DEF IsTool, Summary
<1> QED BY <1>3, <1>5, <1>6, <1>11, <1>12 DEF Behind, IsTool

\* Of what is in front only calls are dropped, without text, when no result in front
\* answers them.
LEMMA FrontStays ==
  ASSUME NEW own, NEW c, Frame(own, c), NEW u, Front(log, u), u \notin own,
         log[u].calls # {} /\ ~log[u].text =>
           \E m : Front(log, m) /\ log[m].call \in log[u].calls
  PROVE  \E k \in DOMAIN c : c[k].at = u /\ Stays(c, k)
<1>0. LogOK(log) /\ Ordered(log) /\ c \in Seq(Entries) /\ u \in DOMAIN log
      /\ Arranged(c, DOMAIN log \ own)
  BY DEF Frame, Front
<1>c. \A k \in DOMAIN c : c[k].calls = log[c[k].at].calls
  BY <1>0 DEF Arranged
<1>1. CASE log[u].role = "tool"
  <2>1. PICK i \in DOMAIN log : log[u].call \in log[i].calls
    BY <1>0, <1>1 DEF Ordered
  <2>2. i < u /\ log[i].calls # {}
    BY <1>0, <2>1 DEF Ordered
  <2>3. ~log[i].summary
    BY <1>0, <2>2 DEF LogOK, MessageOK
  <2>4. Front(log, i)
    BY <1>0, <2>2, <2>3, FrontBelow
  <2>5. PICK ki \in DOMAIN c, km \in DOMAIN c :
          c[ki].at = i /\ c[km].at = u /\ Behind(log, c, ki, km) /\ IsTool(log, c[km])
    BY <2>1, <2>4, FrontBehind
  <2>6. Stays(c, km)
    BY <1>0, <1>c, <2>1, <2>5, ToolStays
  <2> QED BY <2>5, <2>6
<1>2. CASE log[u].role # "tool" /\ log[u].calls # {} /\ ~log[u].text
  <2>1. PICK m : Front(log, m) /\ log[m].call \in log[u].calls
    BY <1>2
  <2>2. PICK ki \in DOMAIN c, km \in DOMAIN c :
          c[ki].at = u /\ c[km].at = m /\ Behind(log, c, ki, km) /\ IsTool(log, c[km])
    BY <2>1, FrontBehind
  <2>3. log[m].call \in Answers(c, ki)
    BY <1>0, <2>2, AnswersAre
  <2>4. log[m].call \in c[ki].calls
    BY <1>c, <2>1, <2>2
  <2>5. Trimmed(c, ki).calls # {}
    BY <1>0, <2>3, <2>4, TrimmedIs
  <2>6. Stays(c, ki)
    BY <1>0, <1>2, <2>2, <2>5, OtherStays DEF IsTool
  <2> QED BY <2>2, <2>6
<1>3. CASE log[u].role # "tool" /\ (log[u].calls = {} \/ log[u].text)
  <2>1. PICK k \in DOMAIN c : c[k].at = u
    BY FrontIsArranged
  <2>2. Stays(c, k)
    BY <1>0, <1>3, <1>c, <2>1, OtherStays DEF IsTool
  <2> QED BY <2>1, <2>2
<1> QED BY <1>1, <1>2, <1>3

\* What is dropped before something in front is dead.
LEMMA DroppedIsDead ==
  ASSUME NEW own, NEW c, Frame(own, c), NEW x, Front(log, x), NEW d \in DOMAIN log, d < x,
         ~log[d].summary, d \notin own, \A k \in DOMAIN c : c[k].at = d => ~Stays(c, k)
  PROVE  Dead(log, d)
<1>0. LogOK(log) /\ Ordered(log) /\ DOMAIN log \subseteq Nat /\ x \in DOMAIN log /\ ~log[x].summary
  BY DEF Frame, Front, LogOK
<1>1. Front(log, d)
  BY <1>0, FrontBelow
<1>2. /\ log[d].calls # {} /\ ~log[d].text
      /\ \A m : Front(log, m) => log[m].call \notin log[d].calls
  BY <1>1, FrontStays
<1>3. log[d].role # "tool"
  BY <1>0, <1>2 DEF LogOK, MessageOK
<1>4. \E y \in DOMAIN log : d < y /\ y <= x /\ log[y].role # "tool" /\ ~log[y].summary
  <2>1. CASE log[x].role # "tool"
    BY <1>0, <2>1
  <2>2. CASE log[x].role = "tool"
    <3>1. PICK i \in DOMAIN log : log[x].call \in log[i].calls
      BY <1>0, <2>2 DEF Ordered
    <3>2. i < x /\ \A j \in DOMAIN log : i < j /\ j < x => log[j].role = "tool" \/ log[j].summary
      BY <1>0, <3>1 DEF Ordered
    <3>3. i # d
      BY <1>2, <3>1
    <3>4. ~(i < d)
      BY <1>3, <3>2
    <3>5. log[i].role # "tool" /\ ~log[i].summary
      BY <1>0, <3>1 DEF LogOK, MessageOK
    <3>6. d < i /\ i <= x
      BY <1>0, <3>2, <3>3, <3>4
    <3> QED BY <3>5, <3>6
  <2> QED BY <2>1, <2>2
<1>5. PICK y \in DOMAIN log : d < y /\ y <= x /\ log[y].role # "tool" /\ ~log[y].summary
  BY <1>4
<1>6. ASSUME NEW m \in DOMAIN log, log[m].call \in log[d].calls PROVE FALSE
  <2>1. d < m /\ \A j \in DOMAIN log : d < j /\ j < m => log[j].role = "tool" \/ log[j].summary
    BY <1>0, <1>6 DEF Ordered
  <2>2. log[m].call # NoCall
    BY <1>0, <1>6, CallIds
  <2>3. log[m].role = "tool"
    BY <1>0, <2>2 DEF LogOK, MessageOK
  <2>4. ~log[m].summary
    BY <1>0, <2>3 DEF LogOK, MessageOK
  <2>5. m # y /\ ~(y < m)
    BY <1>5, <2>1, <2>3
  <2>6. m < x
    BY <1>0, <1>5, <2>5
  <2>7. Front(log, m)
    BY <1>0, <2>4, <2>6, FrontBelow
  <2> QED BY <1>2, <1>6, <2>7
<1> QED BY <1>2, <1>5, <1>6 DEF Dead

\* Where the messages of a context come from: the first n were arranged and kept, the rest is
\* the input of the actor.
From(es, own, c, n, f) ==
  /\ n \in Nat /\ n <= Len(es)
  /\ \A k \in 1..n : /\ f[k] \in DOMAIN c /\ es[k].at = c[f[k]].at /\ Stays(c, f[k])
                     /\ es[k].calls = c[f[k]].calls \intersect Answers(c, f[k])
  /\ \A j, k \in 1..n : j < k <=> f[j] < f[k]
  /\ \A k \in DOMAIN c : Stays(c, k) => \E j \in 1..n : f[j] = k
  /\ \A k \in DOMAIN es : n < k => es[k].at \in own
  /\ \A i \in own : \E k \in DOMAIN es : n < k /\ es[k].at = i
  /\ \A j, k \in DOMAIN es : n < j /\ j < k => es[j].at < es[k].at

LEMMA PartsFrom ==
  ASSUME NEW es, NEW own, NEW c, NEW q, NEW f, NEW r, Parts(es, own, c, q, f, r)
  PROVE  From(es, own, c, Len(q), f)
<1>1. /\ c \in Seq(Entries) /\ q \in Seq(Entries) /\ SanitizedFrom(q, c, f) /\ r \in Seq(Entries)
      /\ \A i \in DOMAIN r : r[i].at \in own
      /\ \A i \in own : \E k \in DOMAIN r : r[k].at = i
      /\ \A i, j \in DOMAIN r : i < j => r[i].at < r[j].at
  BY DEF Parts
<1>2. /\ es \in Seq(Entries)
      /\ Len(q) \in Nat /\ Len(r) \in Nat
      /\ DOMAIN q = 1..Len(q) /\ DOMAIN r = 1..Len(r)
      /\ DOMAIN es = 1..(Len(q) + Len(r))
      /\ \A k \in 1..Len(q) : es[k] = q[k]
      /\ \A k \in 1..Len(r) : es[Len(q) + k] = r[k]
      /\ \A k \in DOMAIN es : k \notin 1..Len(q) =>
           k - Len(q) \in DOMAIN r /\ es[k] = r[k - Len(q)]
  BY PartsAre
<1>3. PICK n : n = Len(q)
  OBVIOUS
<1>4. Len(es) = Len(q) + Len(r)
  BY <1>2
<1>5. n \in Nat /\ n <= Len(es)
  BY <1>2, <1>3, <1>4
<1>6. ASSUME NEW k \in 1..n
      PROVE  /\ f[k] \in DOMAIN c /\ es[k].at = c[f[k]].at /\ Stays(c, f[k])
             /\ es[k].calls = c[f[k]].calls \intersect Answers(c, f[k])
  <2>1. k \in DOMAIN q /\ es[k] = q[k]
    BY <1>2, <1>3
  <2>2. SanitizedFrom(q, c, f)
    BY <1>1
  <2> QED BY <2>1, <2>2 DEF SanitizedFrom
<1>7. \A j, k \in 1..n : j < k <=> f[j] < f[k]
  <2>1. DOMAIN q = 1..n /\ SanitizedFrom(q, c, f)
    BY <1>1, <1>2, <1>3
  <2> QED BY <2>1 DEF SanitizedFrom
<1>8. \A k \in DOMAIN c : Stays(c, k) => \E j \in 1..n : f[j] = k
  <2>1. DOMAIN q = 1..n /\ SanitizedFrom(q, c, f)
    BY <1>1, <1>2, <1>3
  <2> QED BY <2>1 DEF SanitizedFrom
<1>9. \A k \in DOMAIN es : n < k => k - n \in DOMAIN r /\ es[k] = r[k - n]
  <2> SUFFICES ASSUME NEW k \in DOMAIN es, n < k PROVE k - n \in DOMAIN r /\ es[k] = r[k - n]
    OBVIOUS
  <2>1. k \notin 1..Len(q)
    BY <1>2, <1>3
  <2> QED BY <1>2, <1>3, <2>1
<1>10. ASSUME NEW i \in own PROVE \E k \in DOMAIN es : n < k /\ es[k].at = i
  <2>1. PICK k \in DOMAIN r : r[k].at = i
    BY <1>1
  <2>2. k \in 1..Len(r) /\ es[Len(q) + k] = r[k]
    BY <1>2
  <2>3. n + k \in DOMAIN es /\ n < n + k
    BY <1>2, <1>3, <2>2
  <2> QED BY <1>3, <2>1, <2>2, <2>3
<1>11. ASSUME NEW j \in DOMAIN es, NEW k \in DOMAIN es, n < j, j < k PROVE es[j].at < es[k].at
  <2>1. j \in Nat /\ k \in Nat /\ n \in Nat
    BY <1>2, <1>5
  <2>2. n < k /\ j - n < k - n
    BY <1>11, <2>1
  <2>3. j - n \in DOMAIN r /\ es[j] = r[j - n] /\ k - n \in DOMAIN r /\ es[k] = r[k - n]
    BY <1>9, <1>11, <2>2
  <2> QED BY <1>1, <2>2, <2>3
<1>12. \A k \in DOMAIN es : n < k => es[k].at \in own
  BY <1>1, <1>9
<1> QED BY <1>3, <1>5, <1>6, <1>7, <1>8, <1>10, <1>11, <1>12 DEF From

LEMMA LatestExists ==
  ASSUME NEW lg, LogOK(lg), NEW i \in DOMAIN lg, lg[i].summary
  PROVE  \E n \in DOMAIN lg : Latest(lg, n)
<1> DEFINE S == {k \in DOMAIN lg : lg[k].summary}
<1>1. Len(lg) \in Nat /\ DOMAIN lg = 1..Len(lg)
  BY DEF LogOK
<1>2. S \subseteq Nat /\ S # {} /\ \A x \in S : x <= Len(lg)
  BY <1>1
<1>3. \A k \in S : k \in DOMAIN lg /\ lg[k].summary
  OBVIOUS
<1>4. \A k \in DOMAIN lg : lg[k].summary => k \in S
  OBVIOUS
<1> HIDE DEF S
<1>5. PICK n : n = Highest(S)
  OBVIOUS
<1>6. n \in S /\ \A j \in S : j <= n
  BY <1>1, <1>2, <1>5, HighestIs
<1> QED BY <1>3, <1>4, <1>6 DEF Latest

LEMMA LatestOnce ==
  ASSUME NEW lg, LogOK(lg), NEW i, Latest(lg, i), NEW j, Latest(lg, j)
  PROVE  i = j
<1>1. i \in Nat /\ j \in Nat
  BY DEF LogOK, Latest
<1>2. i <= j /\ j <= i
  BY DEF Latest
<1> QED BY <1>1, <1>2

\* What an actor builds: the situation.
Builds(es, own, c, n, f) ==
  /\ Frame(own, c) /\ From(es, own, c, n, f)
  /\ Within(log, es) /\ Paired(log, es) /\ Single(log, es)

LEMMA BuildsIs ==
  ASSUME NEW es, NEW own, NEW c, NEW n, NEW f, Builds(es, own, c, n, f)
  PROVE  /\ LogOK(log) /\ DOMAIN log \subseteq Nat /\ c \in Seq(Entries) /\ es \in Seq(Entries)
         /\ n \in Nat /\ Len(es) \in Nat /\ n <= Len(es) /\ DOMAIN es = 1..Len(es)
         /\ DOMAIN es \subseteq Nat /\ DOMAIN c \subseteq Nat
         /\ \A k \in DOMAIN es : k \in 1..n \/ n < k
         /\ \A k \in 1..n : k \in DOMAIN es /\ k \in Nat
         /\ \A k \in DOMAIN es : es[k].at \in DOMAIN log /\ es[k].at \in Nat
         /\ \A k \in DOMAIN es : n < k => es[k].at \in own /\ Line(log, es[k].at)
         /\ \A k \in DOMAIN es : log[es[k].at].summary => k \in 1..n
         /\ \A k \in 1..n : /\ f[k] \in DOMAIN c /\ es[k].at = c[f[k]].at
                            /\ es[k].at \in DOMAIN log \ own
<1>1. Frame(own, c) /\ From(es, own, c, n, f) /\ Within(log, es)
  BY DEF Builds
<1>2. LogOK(log) /\ DOMAIN log \subseteq Nat /\ c \in Seq(Entries) /\ Arranged(c, DOMAIN log \ own)
  BY <1>1 DEF Frame, LogOK
<1>3. es \in Seq(Entries) /\ \A k \in DOMAIN es : es[k].at \in DOMAIN log
  BY <1>1 DEF Within
<1>4. n \in Nat /\ n <= Len(es)
  BY <1>1 DEF From
<1>5. Len(es) \in Nat /\ DOMAIN es = 1..Len(es) /\ DOMAIN c \subseteq Nat
  BY <1>2, <1>3
<1>6. /\ \A k \in DOMAIN es : k \in 1..n \/ n < k
      /\ \A k \in 1..n : k \in DOMAIN es /\ k \in Nat
      /\ DOMAIN es \subseteq Nat
  BY <1>4, <1>5
<1>7. \A k \in DOMAIN es : n < k => es[k].at \in own /\ Line(log, es[k].at)
  BY <1>1 DEF From, Frame
<1>8. \A k \in 1..n : f[k] \in DOMAIN c /\ es[k].at = c[f[k]].at
  BY <1>1 DEF From
<1>9. \A k \in 1..n : es[k].at \in DOMAIN log \ own
  BY <1>2, <1>8 DEF Arranged
<1>10. \A k \in DOMAIN es : log[es[k].at].summary => k \in 1..n
  BY <1>6, <1>7 DEF Line
<1> QED BY <1>2, <1>3, <1>4, <1>5, <1>6, <1>7, <1>8, <1>9, <1>10

\* Of the messages since the input only summaries are left out.
LEMMA OwnIsLast ==
  ASSUME NEW own, NEW c, Frame(own, c), NEW b \in own, NEW x \in DOMAIN log \ own, ~log[x].summary
  PROVE  x < b
<1>1. x \in Nat /\ b \in Nat
  BY DEF Frame, LogOK
<1>2. ~(b < x)
  BY DEF Frame
<1> QED BY <1>1, <1>2

LEMMA BuildsInSequence ==
  ASSUME NEW es, NEW own, NEW c, NEW n, NEW f, Builds(es, own, c, n, f)
  PROVE  InSequence(log, es)
<1>1. /\ Frame(own, c) /\ From(es, own, c, n, f) /\ Arranged(c, DOMAIN log \ own) /\ LogOK(log)
      /\ c \in Seq(Entries)
  BY DEF Builds, Frame
<1>2. ASSUME NEW j \in DOMAIN es, NEW k \in DOMAIN es, j < k, ~log[es[j].at].summary,
             ~log[es[k].at].summary
      PROVE  es[j].at < es[k].at
  <2>1. CASE k \in 1..n
    <3>1. j \in 1..n
      BY <1>2, <2>1, BuildsIs
    <3>2. f[j] \in DOMAIN c /\ f[k] \in DOMAIN c /\ es[j].at = c[f[j]].at /\ es[k].at = c[f[k]].at
      BY <2>1, <3>1, BuildsIs
    <3>3. f[j] < f[k]
      BY <1>1, <1>2, <2>1, <3>1 DEF From
    <3> QED BY <1>1, <1>2, <3>2, <3>3 DEF Arranged, Summary
  <2>2. CASE j \in 1..n /\ n < k
    <3>1. es[j].at \in DOMAIN log \ own /\ es[k].at \in own
      BY <2>2, BuildsIs
    <3> QED BY <1>1, <1>2, <3>1, OwnIsLast
  <2>3. CASE n < j
    BY <1>1, <1>2, <2>3 DEF From
  <2>4. k \in 1..n \/ n < k
    BY BuildsIs
  <2>5. j \in 1..n \/ n < j
    BY BuildsIs
  <2> QED BY <2>1, <2>2, <2>3, <2>4, <2>5
<1>3. ASSUME NEW j \in DOMAIN es, NEW k \in DOMAIN es, log[es[j].at].summary,
             log[es[k].at].summary
      PROVE  j = k
  <2>1. j \in 1..n /\ k \in 1..n /\ j \in Nat /\ k \in Nat
    BY <1>3, BuildsIs
  <2>2. f[j] \in DOMAIN c /\ f[k] \in DOMAIN c /\ es[j].at = c[f[j]].at /\ es[k].at = c[f[k]].at
    BY <2>1, BuildsIs
  <2>3. f[j] = f[k] /\ f[j] \in Nat
    BY <1>1, <1>3, <2>2 DEF Arranged, Summary
  <2>4. ~(j < k) /\ ~(k < j)
    BY <1>1, <2>1, <2>3 DEF From
  <2> QED BY <2>1, <2>4
<1>4. ASSUME NEW k \in DOMAIN es, log[es[k].at].calls # {}, ~log[es[k].at].text
      PROVE  es[k].calls # {}
  <2>1. k \in 1..n /\ es[k].at \in DOMAIN log
    BY <1>4, BuildsIs DEF Line
  <2>2. /\ f[k] \in DOMAIN c /\ es[k].at = c[f[k]].at /\ Stays(c, f[k])
        /\ es[k].calls = c[f[k]].calls \intersect Answers(c, f[k])
    BY <1>1, <2>1 DEF From
  <2>3. log[es[k].at].role # "tool"
    BY <1>1, <1>4, <2>1 DEF LogOK, MessageOK
  <2>4. c[f[k]].calls = log[es[k].at].calls
    BY <1>1, <2>2 DEF Arranged
  <2>5. c[f[k]].calls = {} \/ Trimmed(c, f[k]).calls # {} \/ log[c[f[k]].at].text
    BY <1>1, <2>2, <2>3, OtherStays DEF IsTool
  <2>6. Trimmed(c, f[k]).calls # {}
    BY <1>4, <2>2, <2>4, <2>5
  <2> QED BY <1>1, <2>2, <2>6, TrimmedIs
<1> QED BY <1>2, <1>3, <1>4 DEF InSequence

\* A line, and a summary, is never dropped.
LEMMA BuildsShows ==
  ASSUME NEW es, NEW own, NEW c, NEW n, NEW f, Builds(es, own, c, n, f), NEW k \in DOMAIN c,
         log[c[k].at].role # "tool", log[c[k].at].calls = {}
  PROVE  \E j \in 1..n : f[j] = k /\ es[j].at = c[k].at /\ j \in DOMAIN es
<1>1. Arranged(c, DOMAIN log \ own) /\ c \in Seq(Entries) /\ From(es, own, c, n, f)
  BY DEF Builds, Frame
<1>2. c[k].calls = {}
  BY <1>1 DEF Arranged
<1>3. Stays(c, k)
  BY <1>1, <1>2, OtherStays DEF IsTool
<1>4. PICK j \in 1..n : f[j] = k
  BY <1>1, <1>3 DEF From
<1> QED BY <1>4, BuildsIs

LEMMA BuildsUpToDate ==
  ASSUME NEW es, NEW own, NEW c, NEW n, NEW f, Builds(es, own, c, n, f), NEW a
  PROVE  UpToDate(log, es, a)
<1>1. Frame(own, c) /\ Arranged(c, DOMAIN log \ own) /\ LogOK(log) /\ From(es, own, c, n, f)
  BY DEF Builds, Frame
<1>2. ASSUME NEW s \in DOMAIN log, Latest(log, s) PROVE \E k \in DOMAIN es : es[k].at = s
  <2>1. PICK k \in DOMAIN c : c[k].at = s
    BY <1>1, <1>2, LatestShown
  <2>2. log[s].role # "tool" /\ log[s].calls = {}
    BY <1>1, <1>2 DEF Latest, LogOK, MessageOK
  <2> QED BY <2>1, <2>2, BuildsShows
<1>3. ASSUME NEW l \in DOMAIN log, Line(log, l), ~log[l].summarized
      PROVE  \E k \in DOMAIN es : es[k].at = l
  <2>1. CASE l \in own
    BY <1>1, <2>1 DEF From
  <2>2. CASE l \notin own
    <3>1. PICK k \in DOMAIN c : c[k].at = l
      BY <1>1, <1>3, <2>2 DEF Arranged, Line
    <3> QED BY <1>3, <3>1, BuildsShows DEF Line
  <2> QED BY <2>1, <2>2
<1> QED BY <1>2, <1>3 DEF UpToDate

\* The head of the latest compression, when no flags are outstanding.
Recent(own) ==
  /\ \A s \in DOMAIN log : Latest(log, s) =>
       \E H : /\ HeadIs(log, H) /\ HeadFor(log, H, {}, log[s].covers, s)
              /\ \A i \in own : i \notin H
  /\ (\A i \in DOMAIN log : ~log[i].summary) => Folding(log, {}) = {}

\* What stands before the summary is in front.
LEMMA BeforeIsFront ==
  ASSUME NEW es, NEW own, NEW c, NEW n, NEW f, Builds(es, own, c, n, f), Recent(own),
         NEW s \in DOMAIN es, log[es[s].at].summary, NEW k \in DOMAIN es, k < s
  PROVE  Front(log, es[k].at) /\ Latest(log, es[s].at)
<1>1. /\ Frame(own, c) /\ From(es, own, c, n, f) /\ Arranged(c, DOMAIN log \ own) /\ LogOK(log)
      /\ c \in Seq(Entries) /\ DOMAIN log \subseteq Nat
  BY DEF Builds, Frame, LogOK
<1>2. s \in 1..n
  BY BuildsIs
<1>3. k \in 1..n
  BY <1>2, BuildsIs
<1>4. /\ f[s] \in DOMAIN c /\ es[s].at = c[f[s]].at
      /\ f[k] \in DOMAIN c /\ es[k].at = c[f[k]].at /\ es[k].at \in DOMAIN log \ own
  BY <1>2, <1>3, BuildsIs
<1>5. f[k] < f[s] /\ Summary(c[f[s]])
  BY <1>1, <1>2, <1>3, <1>4 DEF From, Summary
<1>6. Latest(log, es[s].at) /\ es[s].at \in DOMAIN log
  BY <1>1, <1>4, <1>5, LatestShown DEF Latest
<1>7. /\ es[k].at < es[s].at
      /\ \A b \in Folded(DOMAIN log \ own) : b < es[s].at => es[k].at < b
  BY <1>1, <1>4, <1>5 DEF Arranged
<1>8. ~log[es[k].at].summary
  <2>1. InSequence(log, es)
    BY BuildsInSequence
  <2>2. k # s
    BY BuildsIs
  <2> QED BY <2>1, <2>2 DEF InSequence
<1>9. \A b \in Folding(log, {}) : b < es[s].at
  BY <1>6 DEF Recent, HeadFor
<1>10. ASSUME NEW b \in Folding(log, {}) PROVE es[k].at < b
  <2>1. CASE b \in own
    BY <1>1, <1>4, <1>8, <2>1, OwnIsLast
  <2>2. CASE b \notin own
    BY <1>7, <1>9, <2>2 DEF Folding, Folded
  <2> QED BY <2>1, <2>2
<1>11. ASSUME NEW m \in DOMAIN log, Latest(log, m) PROVE es[k].at < m
  BY <1>1, <1>6, <1>7, <1>11, LatestOnce
<1> QED BY <1>4, <1>6, <1>8, <1>10, <1>11 DEF Front

LEMMA HeadIsFront ==
  ASSUME LogOK(log), NEW s, Latest(log, s), NEW H, HeadIs(log, H), NEW cov,
         HeadFor(log, H, {}, cov, s), NEW h \in H
  PROVE  Front(log, h)
<1>1. h \in DOMAIN log /\ ~log[h].summary
  BY DEF HeadIs
<1>2. h < s /\ \A b \in Folding(log, {}) : h < b
  BY DEF HeadFor
<1>3. \A m \in DOMAIN log : Latest(log, m) => m = s
  BY LatestOnce
<1> QED BY <1>1, <1>2, <1>3 DEF Front

\* The head of the latest compression stands before its summary.
LEMMA HeadIsShown ==
  ASSUME NEW es, NEW own, NEW c, NEW n, NEW f, Builds(es, own, c, n, f),
         NEW s \in DOMAIN es, log[es[s].at].summary, NEW cov, NEW H, HeadIs(log, H),
         Latest(log, es[s].at), HeadFor(log, H, {}, cov, es[s].at), NEW h \in H, h \notin own
  PROVE  \E k \in DOMAIN es : k < s /\ es[k].at = h
<1>1. /\ Frame(own, c) /\ From(es, own, c, n, f) /\ LogOK(log)
      /\ c \in Seq(Entries) /\ Arranged(c, DOMAIN log \ own)
  BY DEF Builds, Frame
<1>2. Front(log, h)
  BY <1>1, HeadIsFront
<1>3. \A m \in H : Front(log, m)
  BY <1>1, HeadIsFront
<1>4. log[h].calls # {} /\ ~log[h].text => \E m : Front(log, m) /\ log[m].call \in log[h].calls
  BY <1>3 DEF HeadIs
<1>5. PICK kc \in DOMAIN c : c[kc].at = h /\ Stays(c, kc)
  BY <1>1, <1>2, <1>4, FrontStays
<1>6. PICK k \in 1..n : f[k] = kc
  BY <1>1, <1>5 DEF From
<1>7. k \in DOMAIN es /\ es[k].at = h /\ k \in Nat
  BY <1>5, <1>6, BuildsIs
<1>8. s \in 1..n /\ s \in Nat
  BY BuildsIs
<1>9. f[s] \in DOMAIN c /\ es[s].at = c[f[s]].at
  BY <1>8, BuildsIs
<1>10. PICK k2 \in DOMAIN c : c[k2].at = h /\ \A x \in DOMAIN c : Summary(c[x]) => k2 < x
  BY <1>1, <1>2, FrontIsArranged
<1>11. k2 = kc
  BY <1>1, <1>5, <1>10, ArrangedOnce
<1>12. kc < f[s]
  BY <1>9, <1>10, <1>11 DEF Summary
<1>13. k < s
  BY <1>1, <1>6, <1>8, <1>12 DEF From
<1> QED BY <1>7, <1>13

\* What a context shows is not dead.
LEMMA ShownIsAlive ==
  ASSUME NEW es, Within(log, es), Paired(log, es), Single(log, es), InSequence(log, es), LogOK(log),
         NEW k \in DOMAIN es
  PROVE  ~Dead(log, es[k].at)
<1> SUFFICES ASSUME Dead(log, es[k].at) PROVE FALSE
  OBVIOUS
<1>1. es[k].at \in DOMAIN log /\ log[es[k].at].calls # {} /\ ~log[es[k].at].text
  BY DEF Within, Dead
<1>2. es[k].calls # {} /\ es[k].calls \subseteq log[es[k].at].calls
  BY <1>1 DEF InSequence, Single
<1>3. ~IsTool(log, es[k])
  BY <1>1 DEF LogOK, MessageOK, IsTool
<1>4. PICK x \in es[k].calls : TRUE
  BY <1>2
<1>5. PICK m \in DOMAIN es : log[es[m].at].call = x
  BY <1>3, <1>4 DEF Paired
<1>6. es[m].at \in DOMAIN log
  BY DEF Within
<1> QED BY <1>2, <1>4, <1>5, <1>6 DEF Dead

LEMMA BuildsHead ==
  ASSUME NEW es, NEW own, NEW c, NEW n, NEW f, Builds(es, own, c, n, f), Recent(own)
  PROVE  HeadShown(log, es)
<1>1. /\ Frame(own, c) /\ From(es, own, c, n, f) /\ Arranged(c, DOMAIN log \ own) /\ LogOK(log)
      /\ c \in Seq(Entries) /\ DOMAIN log \subseteq Nat
      /\ Within(log, es) /\ Paired(log, es) /\ Single(log, es)
  BY DEF Builds, Frame, LogOK
<1>2. InSequence(log, es) /\ UpToDate(log, es, "run")
  BY BuildsInSequence, BuildsUpToDate
<1>3. DOMAIN es \subseteq Nat /\ \A k \in DOMAIN es : 1..k \subseteq DOMAIN es /\ k \in 1..k
  <2>1. Len(es) \in Nat /\ DOMAIN es = 1..Len(es)
    BY BuildsIs
  <2> QED BY <2>1
<1>4. \A s, k \in DOMAIN es : log[es[s].at].summary /\ k < s =>
        \A b \in Folding(log, {}) : es[k].at < b
  BY BeforeIsFront DEF Front
<1>5. ASSUME NEW k \in DOMAIN es, \A j \in 1..k : ~log[es[j].at].summary, NEW d \in DOMAIN log,
             ~log[d].summary, d < es[k].at, \A j \in DOMAIN es : es[j].at # d
      PROVE  Dead(log, d)
  <2>1. es[k].at \in DOMAIN log /\ ~log[es[k].at].summary
    BY <1>1, <1>3, <1>5 DEF Within
  <2>2. Front(log, es[k].at)
    <3>1. CASE \A i \in DOMAIN log : ~log[i].summary
      <4>1. Folding(log, {}) = {} /\ \A i \in DOMAIN log : ~Latest(log, i)
        BY <3>1 DEF Recent, Latest
      <4> QED BY <2>1, <4>1 DEF Front
    <3>2. CASE \E i \in DOMAIN log : log[i].summary
      <4>1. PICK m \in DOMAIN log : Latest(log, m)
        BY <1>1, <3>2, LatestExists
      <4>2. PICK s \in DOMAIN es : es[s].at = m
        BY <1>2, <4>1 DEF UpToDate
      <4>3. log[es[s].at].summary
        BY <4>1, <4>2 DEF Latest
      <4>4. s \notin 1..k
        BY <1>5, <4>3
      <4>5. s \in DOMAIN es /\ k \in DOMAIN es /\ s \in Nat /\ k \in Nat /\ 1 <= s
        BY BuildsIs
      <4>6. k < s
        BY <4>4, <4>5
      <4> QED BY <4>3, <4>6, BeforeIsFront
    <3> QED BY <3>1, <3>2
  <2>3. d \notin own
    BY <1>1, <1>5 DEF From
  <2>4. ASSUME NEW j \in DOMAIN c, c[j].at = d, Stays(c, j) PROVE FALSE
    <3>1. PICK i \in 1..n : f[i] = j
      BY <1>1, <2>4 DEF From
    <3>2. i \in DOMAIN es /\ es[i].at = d
      BY <2>4, <3>1, BuildsIs
    <3> QED BY <1>5, <3>2
  <2> QED BY <1>1, <1>5, <2>2, <2>3, <2>4, DroppedIsDead
<1>6. ASSUME NEW s \in DOMAIN es, log[es[s].at].summary
      PROVE  ProtectFirst < s /\ \A k \in DOMAIN es : ProtectFirst < k /\ k < s /\ Line(log, es[k].at)
                                   => es[k].at \in log[es[s].at].covers
  <2>1. Latest(log, es[s].at) /\ es[s].at \in DOMAIN log
    <3>1. s \in 1..n
      BY <1>6, BuildsIs
    <3>2. f[s] \in DOMAIN c /\ es[s].at = c[f[s]].at
      BY <3>1, BuildsIs
    <3> QED BY <1>1, <1>6, <3>2, LatestShown DEF Summary, Latest
  <2>2. PICK H : /\ HeadIs(log, H) /\ HeadFor(log, H, {}, log[es[s].at].covers, es[s].at)
                 /\ \A i \in own : i \notin H
    BY <2>1 DEF Recent
  <2>3. s \in Nat /\ 1 <= s /\ s - 1 \in Nat /\ ProtectFirst \in Nat
    BY ContextConstants, BuildsIs
  <2>4. \A j \in 1..(s - 1) : j \in DOMAIN es /\ j < s /\ j \in Nat
    BY <1>3, <2>3
  <2>5. \A i, j \in DOMAIN es : es[i].at = es[j].at => i = j
    BY <1>1 DEF Single
  <2>6. ASSUME NEW p \in Nat, p <= s - 1
        PROVE  IsFiniteSet({es[j].at : j \in 1..p}) /\ Cardinality({es[j].at : j \in 1..p}) = p
    <3>1. \A j \in 1..p : j \in DOMAIN es
      BY <2>3, <2>4, <2>6
    <3>2. PICK P : P = {es[j].at : j \in 1..p}
      OBVIOUS
    <3>3. (\A j \in 1..p : es[j].at \in P) /\ \A x \in P : \E j \in 1..p : es[j].at = x
      BY <3>2
    <3>4. \A i, j \in 1..p : es[i].at = es[j].at => i = j
      BY <2>5, <3>1
    <3>5. IsFiniteSet(P) /\ Cardinality(P) = p
      BY <3>3, <3>4, CountPlaces
    <3> QED BY <3>2, <3>5
  <2>7. H \subseteq {es[j].at : j \in 1..(s - 1)}
    <3> SUFFICES ASSUME NEW h \in H PROVE \E j \in 1..(s - 1) : es[j].at = h
      OBVIOUS
    <3>0. PICK cov : cov = log[es[s].at].covers
      OBVIOUS
    <3>i. HeadIs(log, H) /\ HeadFor(log, H, {}, cov, es[s].at) /\ h \notin own
      BY <2>2, <3>0
    <3>1. PICK j \in DOMAIN es : j < s /\ es[j].at = h
      BY <1>6, <2>1, <3>i, HeadIsShown
    <3>2. j \in 1..(s - 1)
      BY <1>3, <2>3, <3>1, BuildsIs
    <3> QED BY <3>1, <3>2
  <2>8. IsFiniteSet(H) /\ Cardinality(H) <= s - 1
    <3>1. IsFiniteSet({es[j].at : j \in 1..(s - 1)}) /\ Cardinality({es[j].at : j \in 1..(s - 1)}) = s - 1
      BY <2>3, <2>6
    <3> QED BY <2>7, <3>1, FS_Subset
  <2>9. ProtectFirst < s
    <3>1. ProtectFirst <= Cardinality(H) /\ Cardinality(H) \in Nat
      BY <2>2, <2>8, FS_CardinalityType DEF HeadIs
    <3> QED BY <2>3, <2>8, <3>1
  <2>10. ASSUME NEW k \in DOMAIN es, ProtectFirst < k, k < s, Line(log, es[k].at)
         PROVE  es[k].at \in log[es[s].at].covers
    <3>1. Front(log, es[k].at)
      BY <1>6, <2>10, BeforeIsFront
    <3>2. es[k].at \in H \union log[es[s].at].covers
      <4>1. es[k].at \in DOMAIN log /\ es[k].at < es[s].at /\ \A b \in Folding(log, {}) : es[k].at < b
        BY <2>1, <3>1 DEF Front
      <4> QED BY <2>2, <2>10, <4>1 DEF HeadFor
    <3> SUFFICES ASSUME es[k].at \in H PROVE FALSE
      BY <3>2
    <3> DEFINE P == {es[j].at : j \in 1..(k - 1)}
               B == {x \in H : x < es[k].at}
    <3>3. k \in Nat /\ 1 <= k /\ k - 1 \in Nat /\ k - 1 <= s - 1
      BY <2>3, <2>10, BuildsIs
    <3>4. P \subseteq B
      <4> SUFFICES ASSUME NEW j \in 1..(k - 1) PROVE es[j].at \in H /\ es[j].at < es[k].at
        OBVIOUS
      <4>1. j \in DOMAIN es /\ j < k /\ j \in Nat /\ j < s
        BY <1>3, <2>3, <2>10, <3>3
      <4>2. Front(log, es[j].at)
        BY <1>6, <4>1, BeforeIsFront
      <4>3. ~log[es[j].at].summary /\ es[j].at \in DOMAIN log
        BY <4>2 DEF Front
      <4>4. es[j].at < es[k].at
        BY <1>2, <2>10, <4>1, <4>3 DEF InSequence, Line
      <4>5. ~Dead(log, es[j].at)
        BY <1>1, <1>2, <4>1, ShownIsAlive
      <4> QED BY <2>2, <4>3, <4>4, <4>5 DEF HeadIs
    <3>5. IsFiniteSet(B)
      <4>1. B \in SUBSET H
        OBVIOUS
      <4> QED BY <2>8, <4>1, FS_Subset
    <3>6. Cardinality(B) < ProtectFirst
      BY <2>2, <2>10 DEF HeadIs
    <3>7. IsFiniteSet(P) /\ Cardinality(P) = k - 1
      BY <2>6, <3>3
    <3> HIDE DEF P, B
    <3>8. Cardinality(P) <= Cardinality(B) /\ Cardinality(B) \in Nat
      BY <3>4, <3>5, FS_Subset, FS_CardinalityType
    <3> QED BY <2>3, <2>10, <3>3, <3>6, <3>7, <3>8
  <2> QED BY <2>9, <2>10
<1> QED BY <1>4, <1>5, <1>6 DEF HeadShown

-----------------------------------------------------------------------------
(* What a compression leaves *)

\* Behind ProtectFirst messages the head goes on only to complete a group.
LEMMA AlignForwardGroup ==
  ASSUME NEW es \in Seq(Entries), Paired(log, es), Exclusive(es), NEW b \in Nat,
         NEW k \in (b + 1)..AlignForward(es, b), k \in DOMAIN es
  PROVE  IsTool(log, es[k]) \/ es[k].calls # {}
<1>1. Len(es) \in Nat /\ DOMAIN es = 1..Len(es) /\ k \in Nat /\ b + 1 <= k
      /\ k <= AlignForward(es, b) /\ k <= Len(es)
  <2>1. AlignForward(es, b) \in Nat
    BY AlignForwardIs
  <2>2. Len(es) \in Nat /\ DOMAIN es = 1..Len(es)
    OBVIOUS
  <2> QED BY <2>1, <2>2
<1>2. b < Len(es) /\ b + 1 \in DOMAIN es
  BY <1>1
<1>3. PICK o \in DOMAIN es :
         /\ ~IsTool(log, es[o])
         /\ Span(es, b + 1) = <<o, GroupEnd(es, o)>>
         /\ o <= b + 1
  BY <1>2, PairedSpan
<1>4. PICK g : g = GroupEnd(es, o)
  OBVIOUS
<1>5. Span(es, b + 1)[1] = o /\ Span(es, b + 1)[2] = g
  BY <1>3, <1>4
<1>6. AlignForward(es, b) # b
  BY <1>1
<1>7. o < g /\ AlignForward(es, b) = g
  BY <1>2, <1>5, <1>6 DEF AlignForward
<1>8. /\ g \in o..Len(es)
      /\ \A j \in (o + 1)..g : IsTool(log, es[j]) /\ log[es[j].at].call \in es[o].calls
  BY <1>4, GroupEndIs
<1>9. o \in Nat /\ g \in Nat
  BY <1>1, <1>8
<1>10. CASE k = o
  <2>1. o + 1 \in (o + 1)..g
    BY <1>7, <1>9
  <2> QED BY <1>8, <1>10, <2>1
<1>11. CASE k # o
  <2>1. k \in (o + 1)..g
    BY <1>1, <1>3, <1>7, <1>9, <1>11
  <2> QED BY <1>8, <2>1
<1> QED BY <1>10, <1>11

\* A compression of what an actor has built: the situation.
Plans(es, a, i, own, p, h, t, from) ==
  /\ LogOK(log) /\ Within(log, es) /\ Paired(log, es) /\ Single(log, es) /\ Built(log, es, a, i)
  /\ own = (IF a = "run" THEN {i} ELSE {}) /\ a \in Actors
  /\ Compresses(p, es, Places(es) \ own, h, t, from)
  /\ Safe(log, es, h)

LEMMA PlansHead ==
  ASSUME NEW es, NEW a, NEW i, NEW own, NEW p, NEW h, NEW t, NEW from,
         Plans(es, a, i, own, p, h, t, from)
  PROVE  /\ es \in Seq(Entries) /\ Len(es) \in Nat /\ DOMAIN es = 1..Len(es)
         /\ h \in Nat /\ t \in Nat /\ h < t /\ t <= Len(es) /\ ProtectFirst <= h
         /\ ProtectFirst \in Nat
         /\ \A k \in DOMAIN es : es[k].at \in DOMAIN log /\ es[k].at \in Nat
         /\ \A k \in DOMAIN es : ProtectFirst < k /\ k <= h => ~Line(log, es[k].at)
         /\ \A s \in DOMAIN es : log[es[s].at].summary => h < s
         /\ LogOK(log) /\ DOMAIN log = 1..Len(log) /\ Len(log) \in Nat
<1>1. /\ LogOK(log) /\ Within(log, es) /\ Paired(log, es) /\ Single(log, es)
      /\ Compresses(p, es, Places(es) \ own, h, t, from)
      /\ HeadShown(log, es)
  BY DEF Plans, Built
<1>2. es \in Seq(Entries) /\ Len(es) \in Nat /\ DOMAIN es = 1..Len(es)
      /\ DOMAIN log = 1..Len(log) /\ Len(log) \in Nat
      /\ \A k \in DOMAIN es : es[k].at \in DOMAIN log
  BY <1>1 DEF Within, LogOK
<1>3. h \in Nat /\ t \in Nat /\ h < t /\ t <= Len(es) /\ h = AlignForward(es, ProtectFirst)
  BY <1>1 DEF Compresses
<1>4. ProtectFirst \in Nat
  BY ContextConstants
<1>5. ProtectFirst <= h
  BY <1>2, <1>3, <1>4, AlignForwardIs
<1>6. Exclusive(es)
  BY <1>1, SingleIsExclusive
<1>7. ASSUME NEW k \in DOMAIN es, ProtectFirst < k, k <= h
      PROVE  log[es[k].at].role = "tool" \/ log[es[k].at].calls # {}
  <2>1. k \in (ProtectFirst + 1)..AlignForward(es, ProtectFirst)
    BY <1>2, <1>3, <1>4, <1>7
  <2>2. IsTool(log, es[k]) \/ es[k].calls # {}
    BY <1>1, <1>2, <1>4, <1>6, <2>1, AlignForwardGroup
  <2>3. es[k].calls \subseteq log[es[k].at].calls
    BY <1>1 DEF Single
  <2> QED BY <2>2, <2>3 DEF IsTool
<1>8. ASSUME NEW s \in DOMAIN es, log[es[s].at].summary PROVE h < s
  <2>1. ProtectFirst < s
    BY <1>1, <1>8 DEF HeadShown
  <2>2. log[es[s].at].role # "tool" /\ log[es[s].at].calls = {}
    BY <1>1, <1>2, <1>8 DEF LogOK, MessageOK
  <2>3. ~(s <= h) /\ s \in Nat
    BY <1>2, <1>7, <2>1, <2>2
  <2> QED BY <1>3, <2>3
<1>9. \A k \in DOMAIN es : ProtectFirst < k /\ k <= h => ~Line(log, es[k].at)
  BY <1>7 DEF Line
<1>10. \A k \in DOMAIN es : es[k].at \in Nat
  BY <1>2
<1> QED BY <1>1, <1>2, <1>3, <1>4, <1>5, <1>8, <1>9, <1>10

LEMMA PlansFolds ==
  ASSUME NEW es, NEW a, NEW i, NEW own, NEW p, NEW h, NEW t, NEW from,
         Plans(es, a, i, own, p, h, t, from)
  PROVE  /\ \A s \in DOMAIN es : log[es[s].at].summary => from = s /\ s < t
         /\ t \in DOMAIN es /\ ~log[es[t].at].summary /\ (es[t].at \in own => t = Len(es) /\ a = "run")
         /\ \A k \in (h + 1)..t : es[k].at \notin own => es[k].at \in p.marks
         /\ \A x \in p.marks : \E k \in (h + 1)..t : es[k].at = x
         /\ \A s \in DOMAIN es : log[es[s].at].summary => log[es[s].at].covers \subseteq p.covers
         /\ \A k \in (h + 1)..t : Line(log, es[k].at) => es[k].at \in p.covers
         /\ p.head = Kept(es, 1, h) /\ p.tail = Kept(es, t + 1, Len(es))
<1>1. /\ Compresses(p, es, Places(es) \ own, h, t, from) /\ HeadShown(log, es) /\ Single(log, es)
      /\ own = (IF a = "run" THEN {i} ELSE {}) /\ a \in Actors
      /\ a = "run" => Len(es) \in DOMAIN es /\ es[Len(es)].at = i
      /\ InSequence(log, es)
  BY DEF Plans, Built
<1>2. /\ es \in Seq(Entries) /\ Len(es) \in Nat /\ DOMAIN es = 1..Len(es)
      /\ h \in Nat /\ t \in Nat /\ h < t /\ t <= Len(es) /\ ProtectFirst <= h
      /\ ProtectFirst \in Nat
      /\ \A s \in DOMAIN es : log[es[s].at].summary => h < s
  BY PlansHead
<1>3. /\ from = (IF Found(es) <= h THEN 0 ELSE Found(es))
      /\ FirstFolded(from, h) <= t
      /\ p.head = Kept(es, 1, h)
      /\ p.tail = Kept(es, t + 1, Len(es))
      /\ p.marks = {es[k].at : k \in (h + 1)..t} \intersect (Places(es) \ own)
      /\ p.covers = {es[k].at : k \in FirstFolded(from, h)..t} \union Previous(es, from)
  BY <1>1 DEF Compresses
<1>4. /\ Found(es) \in 0..Len(es)
      /\ Found(es) # 0 => Found(es) \in DOMAIN es /\ Summary(es[Found(es)])
      /\ \A k \in DOMAIN es : Summary(es[k]) => k <= Found(es)
  BY <1>2, FoundIs
<1>5. ASSUME NEW s \in DOMAIN es, log[es[s].at].summary PROVE from = s /\ s < t
  <2>1. s <= Found(es) /\ h < s /\ s \in Nat /\ Found(es) \in Nat
    BY <1>2, <1>4, <1>5 DEF Summary
  <2>2. Found(es) # 0
    BY <1>2, <2>1
  <2>3. Found(es) = s
    BY <1>1, <1>4, <1>5, <2>2 DEF InSequence, Summary
  <2>4. from = s /\ s # 0
    BY <1>2, <1>3, <2>1, <2>2, <2>3
  <2>5. s + 1 <= t
    BY <1>3, <2>4 DEF FirstFolded
  <2> QED BY <1>2, <2>1, <2>4, <2>5
<1>6. t \in DOMAIN es /\ ~log[es[t].at].summary
  <2>1. t \in DOMAIN es /\ ~(t < t)
    BY <1>2
  <2> QED BY <1>5, <2>1
<1>7. ASSUME es[t].at \in own PROVE t = Len(es) /\ a = "run"
  BY <1>1, <1>6, <1>7 DEF Single
<1>8. \A k \in (h + 1)..t : k \in DOMAIN es
  BY <1>2
<1>9. \A k \in (h + 1)..t : es[k].at \notin own => es[k].at \in p.marks
  BY <1>3, <1>8 DEF Places
<1>10. \A x \in p.marks : \E k \in (h + 1)..t : es[k].at = x
  BY <1>3
<1>11. ASSUME NEW s \in DOMAIN es, log[es[s].at].summary PROVE log[es[s].at].covers \subseteq p.covers
  <2>1. from = s /\ s # 0
    BY <1>2, <1>5, <1>11
  <2>2. Previous(es, from) = log[es[s].at].covers
    BY <2>1 DEF Previous
  <2> QED BY <1>3, <2>2
<1>12. ASSUME NEW k \in (h + 1)..t, Line(log, es[k].at) PROVE es[k].at \in p.covers
  <2>1. k \in DOMAIN es /\ k \in Nat /\ h < k /\ k <= t
    BY <1>2, <1>8
  <2>2. CASE k \in FirstFolded(from, h)..t
    BY <1>3, <2>2
  <2>3. CASE k \notin FirstFolded(from, h)..t
    <3>1. from \in Nat
      BY <1>2, <1>3, <1>4
    <3>2. from # 0 /\ ~(from < k)
      BY <1>2, <2>1, <2>3, <3>1 DEF FirstFolded
    <3>3. from \in DOMAIN es /\ log[es[from].at].summary
      BY <1>3, <1>4, <3>2 DEF Summary
    <3>4. from # k
      BY <1>12, <3>3 DEF Line
    <3>5. k < from /\ ProtectFirst < k
      BY <1>2, <2>1, <3>1, <3>2, <3>4
    <3>6. es[k].at \in log[es[from].at].covers
      BY <1>1, <1>12, <2>1, <3>3, <3>5 DEF HeadShown
    <3> QED BY <1>11, <3>3, <3>6
  <2> QED BY <2>2, <2>3
<1> QED BY <1>3, <1>5, <1>6, <1>7, <1>9, <1>10, <1>11, <1>12

\* What is folded already: older than what a compression folds, and covered by its summary.
Covered ==
  /\ \A s \in DOMAIN log : Latest(log, s) =>
       \A b \in Folding(log, {}) : Line(log, b) => b \in log[s].covers
  /\ (\A i \in DOMAIN log : ~log[i].summary) => Folding(log, {}) = {}

LEMMA PlansCover ==
  ASSUME NEW es, NEW a, NEW i, NEW own, NEW p, NEW h, NEW t, NEW from,
         Plans(es, a, i, own, p, h, t, from), Covered, NEW b \in Folding(log, {})
  PROVE  /\ Line(log, b) => b \in p.covers
         /\ \E s \in DOMAIN es : log[es[s].at].summary
<1>1. LogOK(log) /\ UpToDate(log, es, a)
  BY DEF Plans, Built
<1>2. \E j \in DOMAIN log : log[j].summary
  BY DEF Covered
<1>3. PICK n \in DOMAIN log : Latest(log, n)
  BY <1>1, <1>2, LatestExists
<1>4. PICK s \in DOMAIN es : es[s].at = n
  BY <1>1, <1>3 DEF UpToDate
<1>5. log[es[s].at].summary
  BY <1>3, <1>4 DEF Latest
<1>6. log[n].covers \subseteq p.covers
  BY <1>4, <1>5, PlansFolds
<1>7. Line(log, b) => b \in log[n].covers
  BY <1>3 DEF Covered
<1> QED BY <1>5, <1>6, <1>7

\* A context places each message once, in order.
LEMMA PlansOrder ==
  ASSUME NEW es, NEW a, NEW i, NEW own, NEW p, NEW h, NEW t, NEW from,
         Plans(es, a, i, own, p, h, t, from), NEW j \in DOMAIN es, NEW k \in DOMAIN es,
         ~log[es[j].at].summary, ~log[es[k].at].summary
  PROVE  j < k <=> es[j].at < es[k].at
<1>1. InSequence(log, es)
  BY DEF Plans, Built
<1>2. j \in Nat /\ k \in Nat /\ es[j].at \in Nat /\ es[k].at \in Nat
  BY PlansHead
<1>3. j < k => es[j].at < es[k].at
  BY <1>1 DEF InSequence
<1>4. k < j => es[k].at < es[j].at
  BY <1>1 DEF InSequence
<1>5. j = k => es[j].at = es[k].at
  OBVIOUS
<1> QED BY <1>2, <1>3, <1>4, <1>5

LEMMA PlansHeadIs ==
  ASSUME NEW es, NEW a, NEW i, NEW own, NEW p, NEW h, NEW t, NEW from,
         Plans(es, a, i, own, p, h, t, from), NEW H, H = {es[k].at : k \in 1..h}
  PROVE  HeadIs(log, H)
<1>1. /\ es \in Seq(Entries) /\ Len(es) \in Nat /\ DOMAIN es = 1..Len(es)
      /\ h \in Nat /\ t \in Nat /\ h < t /\ t <= Len(es) /\ ProtectFirst <= h
      /\ ProtectFirst \in Nat
      /\ \A k \in DOMAIN es : es[k].at \in DOMAIN log /\ es[k].at \in Nat
      /\ \A k \in DOMAIN es : ProtectFirst < k /\ k <= h => ~Line(log, es[k].at)
      /\ \A s \in DOMAIN es : log[es[s].at].summary => h < s
  BY PlansHead
<1>2. /\ LogOK(log) /\ Paired(log, es) /\ Single(log, es) /\ InSequence(log, es) /\ Safe(log, es, h)
      /\ HeadShown(log, es)
  BY DEF Plans, Built
<1>3. \A k \in 1..h : k \in DOMAIN es /\ k \in Nat /\ k <= h /\ es[k].at \in H
  BY <1>1
<1>4. \A k \in 1..h : ~log[es[k].at].summary
  <2>1. \A k \in 1..h : ~(h < k)
    BY <1>1
  <2> QED BY <1>1, <1>3, <2>1
<1>5. \A k \in DOMAIN es : k <= h => k \in 1..h
  BY <1>1
<1>6. ASSUME NEW k \in 1..h, log[es[k].at].role = "tool"
      PROVE  \E j \in 1..h : log[es[k].at].call \in log[es[j].at].calls
  <2>1. PICK j \in DOMAIN es : Behind(log, es, j, k) /\ log[es[k].at].call \in es[j].calls
    BY <1>2, <1>3, <1>6 DEF Paired, IsTool
  <2>2. j < k
    BY <2>1 DEF Behind
  <2>3. j \in 1..h
    BY <1>1, <1>3, <2>2
  <2> QED BY <1>2, <2>1, <2>3 DEF Single
<1>7. ASSUME NEW k \in 1..h, log[es[k].at].calls # {}, ~log[es[k].at].text
      PROVE  \E j \in 1..h : log[es[j].at].call \in log[es[k].at].calls
  <2>1. k \in DOMAIN es /\ es[k].calls # {} /\ es[k].calls \subseteq log[es[k].at].calls
    BY <1>2, <1>3, <1>7 DEF InSequence, Single
  <2>2. ~IsTool(log, es[k])
    BY <1>1, <1>2, <1>7, <2>1 DEF LogOK, MessageOK, IsTool
  <2>3. PICK x \in es[k].calls : TRUE
    BY <2>1
  <2>4. PICK m \in DOMAIN es : IsTool(log, es[m]) /\ Behind(log, es, k, m) /\ log[es[m].at].call = x
    BY <1>2, <2>1, <2>2, <2>3 DEF Paired
  <2>5. h < k <=> h < m
    BY <1>1, <1>2, <2>1, <2>4, SameSide
  <2>6. m \in 1..h
    BY <1>1, <1>3, <2>5
  <2> QED BY <2>1, <2>3, <2>4, <2>6
<1>8. ASSUME NEW k \in 1..h, NEW d \in DOMAIN log \ H, d < es[k].at, ~log[d].summary
      PROVE  Dead(log, d)
  <2>1. ASSUME NEW j \in DOMAIN es, es[j].at = d PROVE FALSE
    <3>1. j < k
      BY <1>3, <1>4, <1>8, <2>1, PlansOrder
    <3>2. j \in 1..h
      BY <1>1, <1>3, <3>1
    <3> QED BY <1>3, <1>8, <2>1, <3>2
  <2>2. \A j \in 1..k : ~log[es[j].at].summary
    <3>1. \A j \in 1..k : j \in 1..h
      BY <1>1, <1>3
    <3> QED BY <1>4, <3>1
  <2> QED BY <1>2, <1>3, <1>8, <2>1, <2>2 DEF HeadShown
<1>9. \A j, k \in DOMAIN es : es[j].at = es[k].at => j = k
  BY <1>2 DEF Single
<1>10. IsFiniteSet(H) /\ Cardinality(H) = h
  <2>1. \A j, k \in 1..h : es[j].at = es[k].at => j = k
    BY <1>3, <1>9
  <2>2. h \in Nat /\ (\A j \in 1..h : es[j].at \in H) /\ \A x \in H : \E j \in 1..h : es[j].at = x
    BY <1>1
  <2> QED BY <2>1, <2>2, CountPlaces
<1>11. ASSUME NEW k \in 1..h, Line(log, es[k].at)
       PROVE  Cardinality({x \in H : x < es[k].at}) < ProtectFirst
  <2>1. k \in DOMAIN es /\ k \in Nat /\ 1 <= k /\ k <= h /\ k - 1 \in Nat
    BY <1>1, <1>3
  <2>2. k <= ProtectFirst
    BY <1>1, <1>11, <2>1
  <2> DEFINE P == {es[j].at : j \in 1..(k - 1)}
             B == {x \in H : x < es[k].at}
  <2>3. \A j \in 1..(k - 1) : j \in DOMAIN es
    BY <1>1, <2>1
  <2>4. IsFiniteSet(P) /\ Cardinality(P) = k - 1
    <3>1. \A j, m \in 1..(k - 1) : es[j].at = es[m].at => j = m
      BY <1>9, <2>3
    <3>2. PICK p1 \in Nat : p1 = k - 1
      BY <2>1
    <3>3. /\ \A j, m \in 1..p1 : es[j].at = es[m].at => j = m
          /\ \A j \in 1..p1 : es[j].at \in P
          /\ \A x \in P : \E j \in 1..p1 : es[j].at = x
      BY <3>1, <3>2
    <3> HIDE DEF P, B
    <3>4. IsFiniteSet(P) /\ Cardinality(P) = p1
      BY <3>3, CountPlaces
    <3> QED BY <3>2, <3>4
  <2>5. B \subseteq P
    <3> SUFFICES ASSUME NEW j \in 1..h, es[j].at < es[k].at PROVE j \in 1..(k - 1)
      OBVIOUS
    <3>1. j < k
      BY <1>3, <1>4, PlansOrder
    <3> QED BY <1>1, <2>1, <3>1
  <2> HIDE DEF P, B
  <2>6. Cardinality(B) <= k - 1 /\ Cardinality(B) \in Nat
    BY <2>4, <2>5, FS_Subset, FS_CardinalityType
  <2>7. Cardinality(B) < ProtectFirst
    BY <1>1, <2>1, <2>2, <2>6
  <2> QED BY <2>7 DEF B
<1>12. H \subseteq DOMAIN log /\ \A x \in H : ~log[x].summary
  BY <1>1, <1>3, <1>4
<1>13. \A x \in H : \E k \in 1..h : es[k].at = x
  OBVIOUS
<1>14. \A x \in H : log[x].role = "tool" => \E y \in H : log[x].call \in log[y].calls
  BY <1>3, <1>6, <1>13
<1>15. \A x \in H : log[x].calls # {} /\ ~log[x].text => \E m \in H : log[m].call \in log[x].calls
  BY <1>3, <1>7, <1>13
<1>16. \A d \in DOMAIN log \ H, x \in H : d < x /\ ~log[d].summary => Dead(log, d)
  BY <1>8, <1>13
<1>17. \A x \in H : Line(log, x) => Cardinality({y \in H : y < x}) < ProtectFirst
  BY <1>11, <1>13
<1>18. ProtectFirst <= Cardinality(H)
  BY <1>1, <1>10
<1> QED BY <1>12, <1>14, <1>15, <1>16, <1>17, <1>18 DEF HeadIs

LEMMA PlansHeadFor ==
  ASSUME NEW es, NEW a, NEW i, NEW own, NEW p, NEW h, NEW t, NEW from,
         Plans(es, a, i, own, p, h, t, from), Covered, NEW H, H = {es[k].at : k \in 1..h}
  PROVE  /\ HeadFor(log, H, p.marks, p.covers, Len(log) + 1)
         /\ a = "command" => Folding(log, p.marks) # {}
<1>1. /\ es \in Seq(Entries) /\ Len(es) \in Nat /\ DOMAIN es = 1..Len(es)
      /\ h \in Nat /\ t \in Nat /\ h < t /\ t <= Len(es)
      /\ \A k \in DOMAIN es : es[k].at \in DOMAIN log /\ es[k].at \in Nat
      /\ \A s \in DOMAIN es : log[es[s].at].summary => h < s
      /\ LogOK(log) /\ DOMAIN log = 1..Len(log) /\ Len(log) \in Nat
  BY PlansHead
<1>2. /\ UpToDate(log, es, a) /\ HeadShown(log, es) /\ own = (IF a = "run" THEN {i} ELSE {})
  BY DEF Plans, Built
<1>3. /\ t \in DOMAIN es /\ ~log[es[t].at].summary /\ (es[t].at \in own => t = Len(es) /\ a = "run")
      /\ \A k \in (h + 1)..t : es[k].at \notin own => es[k].at \in p.marks
      /\ \A x \in p.marks : \E k \in (h + 1)..t : es[k].at = x
      /\ \A k \in (h + 1)..t : Line(log, es[k].at) => es[k].at \in p.covers
  BY PlansFolds
<1>4. \A k \in 1..h : k \in DOMAIN es /\ k \in Nat /\ k <= h /\ ~log[es[k].at].summary
  <2>1. \A k \in 1..h : k \in DOMAIN es /\ k \in Nat /\ k <= h /\ ~(h < k)
    BY <1>1
  <2> QED BY <1>1, <2>1
<1>5. es[t].at \notin own => es[t].at \in Folding(log, p.marks)
  <2>1. t \in (h + 1)..t
    BY <1>1
  <2> QED BY <1>1, <1>3, <2>1 DEF Folding
<1>6. \A x \in H : x < Len(log) + 1
  BY <1>1, <1>4
<1>7. ASSUME NEW b \in Folding(log, p.marks)
      PROVE  b < Len(log) + 1 /\ (Line(log, b) => b \in p.covers) /\ \A x \in H : x < b
  <2>1. b \in DOMAIN log /\ ~log[b].summary /\ (log[b].summarized \/ b \in p.marks)
    BY DEF Folding
  <2>2. b < Len(log) + 1
    BY <1>1, <2>1
  <2>3. CASE log[b].summarized
    <3>1. b \in Folding(log, {})
      BY <2>1, <2>3 DEF Folding
    <3>2. Line(log, b) => b \in p.covers
      BY <3>1, PlansCover
    <3>3. PICK s \in DOMAIN es : log[es[s].at].summary
      BY <3>1, PlansCover
    <3>4. ASSUME NEW k \in 1..h PROVE es[k].at < b
      <4>1. k < s /\ k \in DOMAIN es
        <5>1. h < s /\ s \in Nat
          BY <1>1, <3>3
        <5> QED BY <1>1, <1>4, <5>1
      <4> QED BY <1>2, <3>1, <3>3, <4>1 DEF HeadShown
    <3> QED BY <2>2, <3>2, <3>4
  <2>4. CASE b \in p.marks
    <3>1. PICK k \in (h + 1)..t : es[k].at = b
      BY <1>3, <2>4
    <3>2. k \in DOMAIN es /\ h < k /\ k \in Nat
      BY <1>1
    <3>3. ASSUME NEW j \in 1..h PROVE es[j].at < b
      <4>1. j < k
        BY <1>1, <1>4, <3>2
      <4> QED BY <1>4, <2>1, <3>1, <3>2, <4>1, PlansOrder
    <3> QED BY <1>3, <2>2, <3>1, <3>3
  <2> QED BY <2>1, <2>3, <2>4
<1>8. ASSUME NEW l \in DOMAIN log, Line(log, l), \A b \in Folding(log, p.marks) : l < b
      PROVE  l \in H \union p.covers
  <2>0. l \in Nat /\ ~(l < l)
    BY <1>1
  <2>1. ~log[l].summarized
    <3>1. log[l].summarized => l \in Folding(log, p.marks)
      BY <1>8 DEF Folding, Line
    <3> QED BY <1>8, <2>0, <3>1
  <2>2. CASE \E k \in DOMAIN es : es[k].at = l
    <3>1. PICK k \in DOMAIN es : es[k].at = l
      BY <2>2
    <3>2. CASE k \in 1..h
      BY <3>1, <3>2
    <3>3. CASE k \in (h + 1)..t
      BY <1>3, <1>8, <3>1, <3>3
    <3>4. CASE t < k
      <4>0. k \in Nat /\ k <= Len(es) /\ t # Len(es)
        BY <1>1, <3>4
      <4>1. es[t].at \notin own
        BY <1>3, <4>0
      <4>2. l < es[t].at
        BY <1>5, <1>8, <4>1
      <4>3. es[t].at < l
        BY <1>3, <1>8, <3>1, <3>4, PlansOrder DEF Line
      <4>4. es[t].at \in Nat
        BY <1>1, <1>3
      <4> QED BY <2>0, <4>2, <4>3, <4>4
    <3> QED BY <1>1, <3>2, <3>3, <3>4
  <2>3. CASE a = "command" /\ \A k \in DOMAIN es : ~log[es[k].at].summary => es[k].at < l
    <3>1. es[t].at < l /\ es[t].at \notin own
      BY <1>2, <1>3, <2>3
    <3>2. l < es[t].at
      BY <1>5, <1>8, <3>1
    <3>3. es[t].at \in Nat
      BY <1>1, <1>3
    <3> QED BY <2>0, <3>1, <3>2, <3>3
  <2> QED BY <1>2, <1>8, <2>1, <2>2, <2>3 DEF UpToDate
<1>9. a = "command" => Folding(log, p.marks) # {}
  BY <1>3, <1>5
<1> QED BY <1>6, <1>7, <1>8, <1>9 DEF HeadFor

\* What the run is going to send, with the summary it is about to store.
LEMMA PlansShown ==
  ASSUME NEW es, NEW a, NEW i, NEW own, NEW p, NEW h, NEW t, NEW from,
         Plans(es, a, i, own, p, h, t, from), Covered, a = "run",
         NEW l \in DOMAIN log, Line(log, l)
  PROVE  l \in Places(p.head) \union Places(p.tail) \union p.covers
<1>1. /\ es \in Seq(Entries) /\ Len(es) \in Nat /\ DOMAIN es = 1..Len(es)
      /\ h \in Nat /\ t \in Nat /\ h < t /\ t <= Len(es)
  BY PlansHead
<1>2. /\ \A k \in (h + 1)..t : Line(log, es[k].at) => es[k].at \in p.covers
      /\ p.head = Kept(es, 1, h) /\ p.tail = Kept(es, t + 1, Len(es))
  BY PlansFolds
<1>3. (\E k \in DOMAIN es : es[k].at = l) \/ log[l].summarized
  BY DEF Plans, Built, UpToDate
<1>4. CASE log[l].summarized
  <2>1. l \in Folding(log, {})
    BY <1>4 DEF Folding, Line
  <2> QED BY <2>1, PlansCover
<1>5. CASE \E k \in DOMAIN es : es[k].at = l
  <2>1. PICK k \in DOMAIN es : es[k].at = l
    BY <1>5
  <2>2. ~Summary(es[k])
    BY <2>1 DEF Summary, Line
  <2>3. CASE k \in 1..h
    <3>0. \A m \in 1..h : ~Summary(es[m]) =>
            \E j \in DOMAIN Kept(es, 1, h) : Kept(es, 1, h)[j] = es[m]
      <4>1. 1 \in Nat /\ 1 <= 1 /\ h <= Len(es)
        BY <1>1
      <4> QED BY <1>1, <4>1, KeptIs
    <3>1. PICK j \in DOMAIN Kept(es, 1, h) : Kept(es, 1, h)[j] = es[k]
      BY <2>2, <2>3, <3>0
    <3> QED BY <1>2, <2>1, <3>1 DEF Places
  <2>4. CASE k \in (h + 1)..t
    BY <1>2, <2>1, <2>4
  <2>5. CASE k \in (t + 1)..Len(es)
    <3>1. t + 1 \in Nat /\ 1 <= t + 1
      BY <1>1
    <3>2. PICK first, last : first = t + 1 /\ last = Len(es)
      OBVIOUS
    <3>3. \A m \in first..last : ~Summary(es[m]) =>
            \E j \in DOMAIN Kept(es, first, last) : Kept(es, first, last)[j] = es[m]
      <4>1. first \in Nat /\ last \in Nat /\ 1 <= first /\ last <= Len(es)
        BY <1>1, <3>1, <3>2
      <4> QED BY <1>1, <4>1, KeptIs
    <3>4. PICK j \in DOMAIN Kept(es, first, last) : Kept(es, first, last)[j] = es[k]
      BY <2>2, <2>5, <3>2, <3>3
    <3> QED BY <1>2, <2>1, <3>2, <3>4 DEF Places
  <2> QED BY <1>1, <2>3, <2>4, <2>5
<1> QED BY <1>3, <1>4, <1>5

-----------------------------------------------------------------------------
(* What the model is shown: the steps *)

\* The flags that are still to be stored; while they are, nobody else compresses.
Pending(S) ==
  \/ S = {} /\ \A b \in Actors : pc[b] # "mark"
  \/ \E b \in Actors :
       /\ pc[b] = "mark" /\ S = plan[b].marks
       /\ \A c \in Actors \ {b} : ~Compressing(c)

\* With the flags S, the head of the latest compression is found again.
Recorded(S) ==
  /\ \A n \in DOMAIN log : Latest(log, n) =>
       \E H : /\ HeadIs(log, H) /\ HeadFor(log, H, S, log[n].covers, n)
              /\ pc["run"] = "build" => input \notin H
  /\ (\A i \in DOMAIN log : ~log[i].summary) => Folding(log, S) = {}

Heads == clean => \E S : Pending(S) /\ Recorded(S)

\* What an actor has built, until it replaces it.
Contexts ==
  clean => \A a \in Actors : pc[a] \in {"decide", "store"} => Built(log, context[a], a, input)

\* What the summary that is about to be stored leaves in the head.
Planned ==
  clean => \A a \in Actors : pc[a] = "store" =>
    /\ a = "command" => Folding(log, plan[a].marks) # {}
    /\ \E H : HeadIs(log, H) /\ HeadFor(log, H, plan[a].marks, plan[a].covers, Len(log) + 1)

\* A context shows a line, or a summary of it.
Shows(lg, es, l) ==
  \E k \in DOMAIN es : /\ es[k].calls = {} /\ lg[es[k].at].role # "tool"
                       /\ es[k].at = l \/ l \in lg[es[k].at].covers

Plain(lg, es) == \A k \in DOMAIN es : es[k].calls \subseteq lg[es[k].at].calls

\* The lines are in what the run keeps or in what its summary covers; once the summary is
\* stored, in what it shows.
Shares ==
  clean /\ pc["run"] = "store" =>
    /\ Plain(log, plan["run"].head) /\ Plain(log, plan["run"].tail)
    /\ \A l \in DOMAIN log : Line(log, l) =>
         l \in Places(plan["run"].head) \union Places(plan["run"].tail) \union plan["run"].covers

Sends ==
  clean /\ pc["run"] \in {"mark", "calling"} =>
    \A l \in DOMAIN log : Line(log, l) => Shows(log, context["run"], l)

Keeps == Heads /\ Contexts /\ Planned /\ Shares /\ Sends

LEMMA KeepsInit == Init => Keeps
<1> SUFFICES ASSUME Init PROVE Keeps
  OBVIOUS
<1>1. /\ DOMAIN log = {} /\ \A a \in Actors : pc[a] = "idle"
      /\ "run" \in Actors
  BY DEF Init, Actors
<1>2. Pending({}) /\ Recorded({})
  BY <1>1 DEF Pending, Recorded, Folding
<1> QED BY <1>1, <1>2 DEF Keeps, Heads, Contexts, Planned, Shares, Sends

LEMMA CleanBefore ==
  ASSUME Types, [Next]_vars, clean'
  PROVE  clean
<1>1. CASE Ask \/ Command \/ WriteCalls \/ WriteResult \/ WriteFinal \/ Stop \/ Restart \/ UNCHANGED vars
  BY <1>1 DEF Ask, Command, WriteCalls, WriteResult, WriteFinal, Stop, Restart, vars
<1>2. ASSUME NEW a \in Actors,
             Build(a) \/ Skip(a) \/ Summarize(a) \/ StoreSummary(a) \/ StoreFails(a) \/ Mark(a)
      PROVE  clean
  BY <1>2 DEF Build, Skip, Summarize, StoreSummary, StoreFails, Mark
<1> QED BY <1>1, <1>2 DEF Next

\* The latest summary stays the latest while none is stored.
LEMMA LatestGrows ==
  ASSUME NEW lg, NEW lg2, Grows(lg, lg2), \A i \in DOMAIN lg2 \ DOMAIN lg : ~lg2[i].summary
  PROVE  \A n : Latest(lg2, n) <=> Latest(lg, n)
<1>1. \A i \in DOMAIN lg : lg2[i].summary = lg[i].summary
  BY DEF Grows
<1>2. \A i \in DOMAIN lg2 : lg2[i].summary => i \in DOMAIN lg
  OBVIOUS
<1>3. \A i \in DOMAIN lg : i \in DOMAIN lg2
  BY DEF Grows
<1> QED BY <1>1, <1>2, <1>3 DEF Latest

\* The flags that are outstanding stay so while others wait.
LEMMA PendingWaits ==
  ASSUME Types, Waits, clean', NEW S, Pending(S)
  PROVE  Pending(S)'
<1>0. pc \in [Actors -> States] /\ Actors = {"run", "command"} /\ DOMAIN plan = Actors
  BY DEF Types, Actors
<1>1. CASE UNCHANGED vars
  BY <1>1 DEF Pending, vars, Compressing
<1>2. CASE Command
  <2>1. /\ pc["command"] = "idle" /\ pc'["command"] = "build" /\ pc'["run"] = pc["run"]
        /\ plan' = plan
    BY <1>0, <1>2 DEF Command
  <2> QED BY <1>0, <2>1 DEF Pending, Compressing
<1>3. CASE Stop
  <2>1. /\ pc["run"] # "mark" /\ pc'["run"] = "idle" /\ pc'["command"] = pc["command"]
        /\ plan'["command"] = plan["command"]
    BY <1>0, <1>3 DEF Stop, EndRun
  <2> QED BY <1>0, <2>1 DEF Pending, Compressing
<1>4. CASE Restart
  <2>1. \A b \in Actors : pc[b] # "mark" /\ pc'[b] = "idle"
    BY <1>0, <1>4 DEF Restart
  <2> QED BY <2>1 DEF Pending
<1>5. ASSUME NEW a \in Actors, Build(a) \/ Skip(a) \/ Summarize(a) \/ StoreFails(a)
      PROVE  Pending(S)'
  <2>1. /\ Build(a) => \A b \in Actors : pc[b] # "mark"
        /\ Skip(a) \/ Summarize(a) \/ StoreFails(a) => Compressing(a) /\ pc[a] # "mark"
    BY DEF Build, Skip, Summarize, StoreFails, Compressing
  <2>2. S = {} /\ \A b \in Actors : pc[b] # "mark"
    BY <1>5, <2>1 DEF Pending
  <2>3. \A b \in Actors : pc'[b] # "mark"
    BY <1>0, <1>5, <2>2 DEF Build, Skip, Summarize, StoreFails, Done
  <2> QED BY <2>2, <2>3 DEF Pending
<1> QED BY <1>1, <1>2, <1>3, <1>4, <1>5 DEF Waits

\* The head stays on record while messages of a turn are stored.
LEMMA RecordedKept ==
  ASSUME LogOK(log), LogOK(log'), Steady(log, log'), NEW S, S \subseteq DOMAIN log, Recorded(S),
         \A i \in DOMAIN log' \ DOMAIN log : ~log'[i].summary,
         pc'["run"] = "build" => input' \notin DOMAIN log \/ (pc["run"] = "build" /\ input' = input)
  PROVE  Recorded(S)'
<1>1. Alike(log, log') /\ Grows(log, log')
  BY SteadyAlike DEF Alike
<1>2. \A n : Latest(log', n) <=> Latest(log, n)
  BY <1>1, LatestGrows
<1>3. Folding(log', S) = Folding(log, S)
  BY FoldingSteady
<1>4. ASSUME NEW n \in DOMAIN log', Latest(log', n)
      PROVE  \E H : /\ HeadIs(log', H) /\ HeadFor(log', H, S, log'[n].covers, n)
                    /\ pc'["run"] = "build" => input' \notin H
  <2>1. Latest(log, n) /\ n \in DOMAIN log /\ n \in Nat /\ log'[n].covers = log[n].covers
    BY <1>1, <1>2, <1>4 DEF Latest, Grows, LogOK
  <2>2. PICK H : /\ HeadIs(log, H) /\ HeadFor(log, H, S, log[n].covers, n)
                 /\ pc["run"] = "build" => input \notin H
    BY <2>1 DEF Recorded
  <2>3. H \subseteq DOMAIN log
    BY <2>2 DEF HeadIs
  <2>4. \A l \in DOMAIN log' \ DOMAIN log : ~(l < n)
    <3>1. \A l \in DOMAIN log' \ DOMAIN log : n < l /\ l \in Nat
      BY <2>1 DEF Steady, LogOK
    <3> QED BY <2>1, <3>1
  <2>5. HeadFor(log', H, S, log[n].covers, n)
    <3>1. PICK cov : cov = log[n].covers
      OBVIOUS
    <3>2. HeadFor(log, H, S, cov, n) /\ n <= n
      BY <2>1, <2>2, <3>1
    <3>3. HeadFor(log', H, S, cov, n)
      BY <2>1, <2>3, <2>4, <3>2, HeadForSteady
    <3> QED BY <3>1, <3>3
  <2>6. HeadIs(log', H)
    BY <1>1, <2>2, HeadGrows
  <2> QED BY <2>1, <2>2, <2>3, <2>5, <2>6
<1>5. (\A i \in DOMAIN log' : ~log'[i].summary) => Folding(log', S) = {}
  <2>1. ASSUME \A i \in DOMAIN log' : ~log'[i].summary PROVE \A i \in DOMAIN log : ~log[i].summary
    BY <1>1, <2>1 DEF Grows
  <2> QED BY <1>3, <2>1 DEF Recorded
<1> QED BY <1>4, <1>5 DEF Recorded

\* The summary that is stored is the latest, and leaves the head it was planned with.
LEMMA RecordedSummary ==
  ASSUME Types, Logs, Keeps, clean, NEW a \in Actors, StoreSummary(a)
  PROVE  \E S : S = plan[a].marks /\ Recorded(S)'
<1>0. /\ LogOK(log) /\ Ordered(log) /\ Turn /\ pc \in [Actors -> States] /\ Actors = {"run", "command"}
      /\ pc[a] = "store" /\ pc'[a] = "mark" /\ plan'[a] = plan[a] /\ input' = input
      /\ \A b \in Actors \ {a} : pc'[b] = pc[b]
      /\ plan[a].marks \subseteq DOMAIN log
  BY DEF Types, Logs, Actors, StoreSummary, PlanOK
<1>1. PICK m : Stores(m) /\ m.summary /\ m.covers = plan[a].covers
  BY <1>0, SummaryIsSteady
<1>2. PICK last, S, cov : last = Len(log) + 1 /\ S = plan[a].marks /\ cov = plan[a].covers
  OBVIOUS
<1>3. /\ LogOK(log') /\ Steady(log, log') /\ DOMAIN log' = DOMAIN log \union {last}
      /\ last \in Nat /\ last \notin DOMAIN log /\ log'[last] = m /\ \A i \in DOMAIN log : i < last
  <2>1. /\ LogOK(log') /\ Steady(log, log') /\ DOMAIN log' = DOMAIN log \union {Len(log) + 1}
        /\ Len(log) \in Nat /\ Len(log) + 1 \notin DOMAIN log /\ log'[Len(log) + 1] = m
        /\ \A i \in DOMAIN log : i < Len(log) + 1
    BY <1>0, <1>1, StoresIs
  <2> QED BY <1>2, <2>1
<1>4. PICK H : HeadIs(log, H) /\ HeadFor(log, H, S, cov, last)
  BY <1>0, <1>2 DEF Keeps, Planned
<1>5. HeadIs(log', H)
  BY <1>0, <1>3, <1>4, SteadyAlike, HeadGrows
<1>6. HeadFor(log', H, S, cov, last)
  <2>1. H \subseteq DOMAIN log /\ S \subseteq DOMAIN log /\ last <= last
    BY <1>0, <1>2, <1>3, <1>4 DEF HeadIs
  <2>2. \A l \in DOMAIN log' \ DOMAIN log : ~Line(log', l)
    BY <1>1, <1>3 DEF Line
  <2> QED BY <1>3, <1>4, <2>1, <2>2, HeadForSteady
<1>7. pc'["run"] = "build" => input' \notin H
  <2> SUFFICES ASSUME pc'["run"] = "build", input \in H PROVE FALSE
    BY <1>0
  <2>1. a = "command" /\ pc["run"] = "build"
    BY <1>0
  <2>2. PICK b \in Folding(log, S) : TRUE
    BY <1>0, <1>2, <2>1 DEF Keeps, Planned
  <2>3. input < b /\ b \in DOMAIN log /\ ~log[b].summary
    BY <1>4, <2>2 DEF HeadFor, Folding
  <2> QED BY <1>0, <2>1, <2>3 DEF Turn
<1>8. \A n \in DOMAIN log' : Latest(log', n) => n = last
  <2>1. \A n \in DOMAIN log : n < last /\ n \in Nat
    BY <1>0, <1>3 DEF LogOK
  <2>2. \A n \in DOMAIN log' : Latest(log', n) => last <= n
    BY <1>1, <1>3 DEF Latest
  <2> QED BY <1>3, <2>1, <2>2
<1>9. log'[last].summary /\ log'[last].covers = cov /\ last \in DOMAIN log'
  BY <1>1, <1>2, <1>3
<1>10. Recorded(S)'
  BY <1>5, <1>6, <1>7, <1>8, <1>9 DEF Recorded
<1> QED BY <1>2, <1>10

\* Once the flags are stored none are outstanding.
LEMMA RecordedMark ==
  ASSUME Types, Heads, clean', NEW a \in Actors, Mark(a)
  PROVE  Pending({})' /\ Recorded({})' /\ \A b \in Actors \ {a} : ~Compressing(b)
<1>0. /\ LogOK(log) /\ pc \in [Actors -> States] /\ Actors = {"run", "command"}
      /\ pc[a] = "mark" /\ pc'[a] # "mark" /\ pc'[a] # "build" /\ input' = input
      /\ \A b \in Actors \ {a} : pc'[b] = pc[b]
  <2>1. pc \in [Actors -> States] /\ LogOK(log)
    BY DEF Types
  <2> QED BY <2>1 DEF Actors, Mark, Done
<1>1. LogOK(log') /\ Grows(log, log') /\ DOMAIN log' = DOMAIN log /\ clean
      /\ Flagged(log, plan[a].marks, log')
  BY MarkIs
<1>2. PICK S : Pending(S) /\ Recorded(S)
  BY <1>1 DEF Heads
<1>3. S = plan[a].marks /\ \A b \in Actors \ {a} : ~Compressing(b)
  BY <1>0, <1>2 DEF Pending, Compressing
<1>4. Pending({})'
  <2>1. \A b \in Actors : pc'[b] # "mark"
    BY <1>0, <1>3 DEF Compressing
  <2> QED BY <2>1 DEF Pending
<1>5. Flagged(log, S, log') /\ Folding(log', {}) = Folding(log, S)
  BY <1>1, <1>3, FoldingMarked
<1>6. \A n : Latest(log', n) <=> Latest(log, n)
  BY <1>1, LatestGrows
<1>7. ASSUME NEW n \in DOMAIN log', Latest(log', n)
      PROVE  \E H : /\ HeadIs(log', H) /\ HeadFor(log', H, {}, log'[n].covers, n)
                    /\ pc'["run"] = "build" => input' \notin H
  <2>1. Latest(log, n) /\ n \in DOMAIN log /\ log'[n].covers = log[n].covers
    BY <1>1, <1>6, <1>7 DEF Grows
  <2>2. PICK H : /\ HeadIs(log, H) /\ HeadFor(log, H, S, log[n].covers, n)
                 /\ pc["run"] = "build" => input \notin H
    BY <1>2, <2>1 DEF Recorded
  <2>3. HeadIs(log', H)
    BY <1>0, <1>1, <2>2, MarkedAlike, HeadGrows
  <2>4. HeadFor(log', H, {}, log[n].covers, n)
    <3>1. PICK cov : cov = log[n].covers
      OBVIOUS
    <3>2. HeadFor(log', H, {}, cov, n)
      BY <1>1, <1>5, <2>2, <3>1, HeadForMarked
    <3> QED BY <3>1, <3>2
  <2>5. pc'["run"] = "build" => pc["run"] = "build"
    BY <1>0
  <2> QED BY <1>0, <2>1, <2>2, <2>3, <2>4, <2>5
<1>8. (\A i \in DOMAIN log' : ~log'[i].summary) => Folding(log', {}) = {}
  <2>1. (\A i \in DOMAIN log' : ~log'[i].summary) => \A i \in DOMAIN log : ~log[i].summary
    BY <1>1 DEF Grows
  <2> QED BY <1>2, <1>5, <2>1 DEF Recorded
<1>9. Recorded({})'
  BY <1>7, <1>8 DEF Recorded
<1> QED BY <1>3, <1>4, <1>9

\* A message of the turn is stored: no summary, and who waits with a compression is the command.
Speaks(m) ==
  /\ Stores(m) /\ ~m.summary /\ clean' = clean
  /\ pc["run"] \in {"idle", "calling", "writing"} /\ pc'["run"] \in {"build", "writing", "idle"}
  /\ pc'["run"] = "build" => input' = Len(log) + 1
  /\ pc'["command"] = pc["command"] /\ plan'["command"] = plan["command"]
  /\ context'["command"] = context["command"]

LEMMA TurnSpeaks ==
  ASSUME Types, Logs, Ask \/ WriteCalls \/ WriteResult \/ WriteFinal
  PROVE  \E m : Speaks(m)
<1>0. /\ Ordered(log) /\ Turn /\ pc \in [Actors -> States] /\ DOMAIN context = Actors
      /\ DOMAIN plan = Actors /\ Actors = {"run", "command"}
  BY DEF Types, Logs, Actors
<1>1. CASE Ask
  <2>1. PICK m : Stores(m) /\ ~m.summary
    BY <1>0, <1>1, TurnStores
  <2> QED BY <1>0, <1>1, <2>1 DEF Speaks, Ask
<1>2. CASE WriteCalls
  <2>1. PICK m : Stores(m) /\ ~m.summary
    BY <1>0, <1>2, TurnStores
  <2> QED BY <1>0, <1>2, <2>1 DEF Speaks, WriteCalls
<1>3. CASE WriteResult
  <2>1. PICK m : Stores(m) /\ ~m.summary
    BY <1>0, <1>3, ResultIsSteady
  <2> QED BY <1>0, <1>3, <2>1 DEF Speaks, WriteResult
<1>4. CASE WriteFinal
  <2>1. PICK m : Stores(m) /\ ~m.summary
    BY <1>0, <1>4, TurnStores
  <2> QED BY <1>0, <1>4, <2>1 DEF Speaks, WriteFinal, EndRun
<1> QED BY <1>1, <1>2, <1>3, <1>4

LEMMA SpeaksIs ==
  ASSUME LogOK(log), NEW m, Speaks(m)
  PROVE  /\ LogOK(log') /\ Steady(log, log') /\ DOMAIN log' = DOMAIN log \union {Len(log) + 1}
         /\ Len(log) \in Nat /\ Len(log') = Len(log) + 1 /\ Len(log) + 1 \notin DOMAIN log
         /\ \A i \in DOMAIN log : i < Len(log) + 1
         /\ \A i \in DOMAIN log' \ DOMAIN log : ~log'[i].summary
<1>1. Stores(m) /\ ~m.summary
  BY DEF Speaks
<1>2. /\ LogOK(log') /\ Steady(log, log') /\ DOMAIN log' = DOMAIN log \union {Len(log) + 1}
      /\ Len(log) \in Nat /\ Len(log') = Len(log) + 1 /\ Len(log) + 1 \notin DOMAIN log
      /\ \A i \in DOMAIN log : i < Len(log) + 1
      /\ log'[Len(log) + 1] = m
  BY <1>1, StoresIs
<1> QED BY <1>1, <1>2

LEMMA PendingWithin ==
  ASSUME Types, NEW S, Pending(S)
  PROVE  S \subseteq DOMAIN log
<1>1. \A b \in Actors : plan[b].marks \subseteq DOMAIN log
  BY DEF Types, PlanOK
<1> QED BY <1>1 DEF Pending

LEMMA HeadsStep ==
  ASSUME Types, Logs, Keeps, [Next]_vars, clean'
  PROVE  Heads'
<1>0. /\ LogOK(log) /\ pc \in [Actors -> States] /\ Actors = {"run", "command"} /\ clean
      /\ DOMAIN plan = Actors
  BY CleanBefore DEF Types, Actors
<1>1. PICK S : Pending(S) /\ Recorded(S)
  BY <1>0 DEF Keeps, Heads
<1>2. S \subseteq DOMAIN log
  BY <1>1, PendingWithin
<1>3. CASE Waits
  <2>1. log' = log
    BY <1>3, WaitsKeepsLog
  <2>2. Steady(log, log') /\ LogOK(log') /\ \A i \in DOMAIN log' \ DOMAIN log : ~log'[i].summary
    BY <1>0, <2>1, SteadySame
  <2>3. pc'["run"] = "build" => pc["run"] = "build" /\ input' = input
    BY <1>0, <1>3 DEF Waits, Command, Stop, EndRun, Restart, Build, Skip, Summarize, StoreFails,
                      Done, vars
  <2>4. Recorded(S)'
    BY <1>0, <1>1, <1>2, <2>2, <2>3, RecordedKept
  <2>5. Pending(S)'
    BY <1>1, <1>3, PendingWaits
  <2> QED BY <2>4, <2>5 DEF Heads
<1>4. CASE Ask \/ WriteCalls \/ WriteResult \/ WriteFinal
  <2>1. PICK m : Speaks(m)
    BY <1>4, TurnSpeaks
  <2>2. /\ LogOK(log') /\ Steady(log, log') /\ Len(log) + 1 \notin DOMAIN log
        /\ \A i \in DOMAIN log' \ DOMAIN log : ~log'[i].summary
    BY <1>0, <2>1, SpeaksIs
  <2>3. pc'["run"] = "build" => input' \notin DOMAIN log
    BY <2>1, <2>2 DEF Speaks
  <2>4. Recorded(S)'
    BY <1>0, <1>1, <1>2, <2>2, <2>3, RecordedKept
  <2>5. Pending(S)'
    <3>1. /\ pc["run"] # "mark" /\ pc'["run"] \notin {"decide", "store", "mark"}
          /\ pc'["command"] = pc["command"] /\ plan'["command"] = plan["command"]
      BY <2>1 DEF Speaks
    <3> QED BY <1>0, <1>1, <3>1 DEF Pending, Compressing
  <2> QED BY <2>4, <2>5 DEF Heads
<1>5. ASSUME NEW a \in Actors, StoreSummary(a) PROVE Heads'
  <2>1. PICK T : T = plan[a].marks /\ Recorded(T)'
    BY <1>0, <1>5, RecordedSummary
  <2>2. /\ pc'[a] = "mark" /\ plan' = plan /\ \A c \in Actors \ {a} : ~Compressing(c) /\ pc'[c] = pc[c]
    BY <1>0, <1>5 DEF StoreSummary
  <2>3. Pending(T)'
    BY <1>0, <2>1, <2>2 DEF Pending, Compressing
  <2> QED BY <2>1, <2>3 DEF Heads
<1>6. ASSUME NEW a \in Actors, Mark(a) PROVE Heads'
  <2>1. Pending({})' /\ Recorded({})'
    BY <1>6, RecordedMark DEF Keeps
  <2> QED BY <2>1 DEF Heads
<1> QED BY <1>3, <1>4, <1>5, <1>6, NextIs

\* How the log moves while an actor waits with what it built: not at all, or the command
\* waits and a message of a turn is stored.
LEMMA Waiting ==
  ASSUME Types, Logs, Keeps, [Next]_vars, clean', NEW b \in Actors,
         pc[b] \in {"decide", "store"}, pc'[b] \in {"decide", "store"}
  PROVE  /\ b = "run" => input' = input
         /\ log' = log \/ (b = "command" /\ \E m : Speaks(m))
<1>0. pc \in [Actors -> States] /\ Actors = {"run", "command"} /\ clean
  BY CleanBefore DEF Types, Actors
<1>1. CASE Waits
  <2>1. log' = log
    BY <1>1, WaitsKeepsLog
  <2>2. b = "run" => input' = input
    BY <1>0, <1>1 DEF Waits, Command, Stop, EndRun, Restart, Build, Skip, Summarize, StoreFails,
                      Done, vars
  <2> QED BY <2>1, <2>2
<1>2. CASE Ask \/ WriteCalls \/ WriteResult \/ WriteFinal
  <2>1. PICK m : Speaks(m)
    BY <1>2, TurnSpeaks
  <2>2. b # "run"
    BY <2>1 DEF Speaks
  <2> QED BY <1>0, <2>1, <2>2
<1>3. ASSUME NEW a \in Actors, StoreSummary(a) PROVE FALSE
  <2>1. pc'[a] = "mark" /\ \A c \in Actors \ {a} : ~Compressing(c)
    BY <1>0, <1>3 DEF StoreSummary
  <2> QED BY <2>1 DEF Compressing
<1>4. ASSUME NEW a \in Actors, Mark(a) PROVE FALSE
  <2>1. \A c \in Actors \ {a} : ~Compressing(c)
    BY <1>4, RecordedMark DEF Keeps
  <2>2. pc[a] = "mark"
    BY <1>4 DEF Mark
  <2> QED BY <2>1, <2>2 DEF Compressing
<1> QED BY <1>1, <1>2, <1>3, <1>4, NextIs

LEMMA BuildIsBuilt ==
  ASSUME Types, Logs, Keeps, clean', NEW a \in Actors, Build(a)
  PROVE  Built(log, context'[a], a, input)
<1>0. /\ LogOK(log) /\ Ordered(log) /\ Turn /\ DOMAIN context = Actors
      /\ pc[a] = "build" /\ clean /\ \A b \in Actors : pc[b] # "mark"
  BY DEF Types, Logs, Build
<1>1. PICK own, es, c, q, f, r :
        /\ own = IF a = "run" THEN {input} ELSE {}
        /\ own \subseteq DOMAIN log
        /\ \A i \in own : log[i].role # "tool" /\ log[i].calls = {} /\ ~log[i].summary
        /\ Parts(es, own, c, q, f, r)
        /\ context' = [context EXCEPT ![a] = es]
  BY BuildBuilds
<1>2. context'[a] = es
  BY <1>0, <1>1
<1>3. Frame(own, c)
  <2>1. c \in Seq(Entries) /\ Arranged(c, DOMAIN log \ own)
    BY <1>1 DEF Parts
  <2>2. \A i \in own : Line(log, i)
    BY <1>1 DEF Line
  <2>3. \A i \in own : \A j \in DOMAIN log : i < j => log[j].summary
    BY <1>0, <1>1 DEF Turn
  <2> QED BY <1>0, <1>1, <2>1, <2>2, <2>3 DEF Frame
<1>4. PICK n : n = Len(q) /\ From(es, own, c, n, f)
  BY <1>1, PartsFrom
<1>5. Builds(es, own, c, n, f)
  <2>1. \A i \in own : log[i].role # "tool" /\ log[i].calls = {}
    BY <1>1
  <2>2. Within(log, es) /\ Paired(log, es) /\ Single(log, es)
    BY <1>0, <1>1, <2>1, BuiltIs
  <2> QED BY <1>3, <1>4, <2>2 DEF Builds
<1>6. Recent(own)
  <2>1. PICK S : Pending(S) /\ Recorded(S)
    BY <1>0 DEF Keeps, Heads
  <2>2. S = {}
    BY <1>0, <2>1 DEF Pending
  <2>3. ASSUME NEW s \in DOMAIN log, Latest(log, s)
        PROVE  \E H : /\ HeadIs(log, H) /\ HeadFor(log, H, {}, log[s].covers, s)
                      /\ \A i \in own : i \notin H
    <3>1. PICK H : /\ HeadIs(log, H) /\ HeadFor(log, H, {}, log[s].covers, s)
                   /\ pc["run"] = "build" => input \notin H
      BY <2>1, <2>2, <2>3 DEF Recorded
    <3>2. \A i \in own : i \notin H
      BY <1>0, <1>1, <3>1
    <3> QED BY <3>1, <3>2
  <2> QED BY <2>1, <2>2, <2>3 DEF Recent, Recorded
<1>7. InSequence(log, es) /\ UpToDate(log, es, a) /\ HeadShown(log, es)
  BY <1>5, <1>6, BuildsInSequence, BuildsUpToDate, BuildsHead
<1>8. ASSUME a = "run" PROVE Len(es) \in DOMAIN es /\ es[Len(es)].at = input
  <2>1. DOMAIN es = 1..Len(es) /\ Len(es) \in Nat /\ n \in Nat
    BY <1>5, BuildsIs
  <2>2. PICK k \in DOMAIN es : n < k
    BY <1>1, <1>4, <1>8 DEF From
  <2>3. Len(es) \in DOMAIN es /\ n < Len(es)
    BY <2>1, <2>2
  <2>4. es[Len(es)].at \in own
    BY <1>4, <2>3 DEF From
  <2> QED BY <1>1, <1>8, <2>3, <2>4
<1> QED BY <1>2, <1>7, <1>8 DEF Built

LEMMA ContextsStep ==
  ASSUME Types, Logs, Keeps, [Next]_vars, clean'
  PROVE  Contexts'
<1>0. LogOK(log) /\ clean /\ \A a \in Actors : Within(log, context[a])
  BY CleanBefore DEF Types
<1> SUFFICES ASSUME NEW b \in Actors, pc'[b] \in {"decide", "store"}
             PROVE  Built(log', context'[b], b, input')
  BY DEF Contexts
<1>1. CASE Build(b)
  <2>1. log' = log /\ input' = input
    BY <1>1 DEF Build
  <2> QED BY <1>1, <2>1, BuildIsBuilt
<1>2. CASE pc[b] \in {"decide", "store"} /\ context'[b] = context[b]
  <2>1. /\ b = "run" => input' = input
        /\ log' = log \/ (b = "command" /\ \E m : Speaks(m))
    BY <1>2, Waiting
  <2>2. PICK es : es = context[b] /\ Within(log, es)
    BY <1>0
  <2>3. Built(log, es, b, input)
    BY <1>0, <1>2, <2>2 DEF Keeps, Contexts
  <2>4. Built(log, es, b, input')
    BY <2>1, <2>3 DEF Built, Actors
  <2>5. CASE log' = log
    BY <1>2, <2>2, <2>4, <2>5
  <2>6. CASE b = "command" /\ \E m : Speaks(m)
    <3>1. PICK m : Speaks(m)
      BY <2>6
    <3>2. /\ LogOK(log') /\ Steady(log, log') /\ \A l \in DOMAIN log' \ DOMAIN log : ~log'[l].summary
      BY <1>0, <3>1, SpeaksIs
    <3>3. PICK i : i = input'
      OBVIOUS
    <3>4. Built(log', es, b, i)
      BY <1>0, <2>2, <2>4, <2>6, <3>2, <3>3, BuiltSteady
    <3> QED BY <1>2, <2>2, <3>3, <3>4
  <2> QED BY <2>1, <2>5, <2>6
<1> QED BY <1>1, <1>2, ActorMoves

LEMMA SummarizeIs ==
  ASSUME Types, Pairs, Keeps, clean, NEW a \in Actors, Summarize(a)
  PROVE  /\ Covered /\ log' = log
         /\ \E es, own, p, h, t, from :
              es = context[a] /\ Plans(es, a, input, own, p, h, t, from) /\ plan'[a] = p
<1>0. /\ LogOK(log) /\ DOMAIN plan = Actors /\ pc[a] = "decide" /\ log' = log
      /\ Within(log, context[a])
  BY DEF Types, Summarize
<1>1. Covered
  <2>1. PICK S : Pending(S) /\ Recorded(S)
    BY DEF Keeps, Heads
  <2>2. S = {}
    BY <1>0, <2>1 DEF Pending, Compressing
  <2>3. ASSUME NEW s \in DOMAIN log, Latest(log, s), NEW b \in Folding(log, {}), Line(log, b)
        PROVE  b \in log[s].covers
    <3>1. PICK H : HeadFor(log, H, {}, log[s].covers, s)
      BY <2>1, <2>2, <2>3 DEF Recorded
    <3>2. PICK cov : cov = log[s].covers
      OBVIOUS
    <3>3. HeadFor(log, H, {}, cov, s)
      BY <3>1, <3>2
    <3> QED BY <2>3, <3>2, <3>3 DEF HeadFor
  <2> QED BY <2>1, <2>2, <2>3 DEF Covered, Recorded
<1>2. PICK es, ids, p, h, t, from :
        /\ es = context[a]
        /\ ids = Places(es) \ (IF a = "run" THEN {input} ELSE {})
        /\ plan' = [plan EXCEPT ![a] = p]
        /\ Compresses(p, es, ids, h, t, from)
        /\ Paired(log, es) /\ Exclusive(es) => Safe(log, es, h) /\ Safe(log, es, t)
  BY SummarizePlans
<1>3. Within(log, es) /\ Paired(log, es) /\ Single(log, es)
  BY <1>0, <1>2 DEF Pairs
<1>4. Safe(log, es, h)
  BY <1>0, <1>2, <1>3, SingleIsExclusive
<1>5. Built(log, es, a, input)
  BY <1>0, <1>2 DEF Keeps, Contexts
<1>6. PICK own : own = IF a = "run" THEN {input} ELSE {}
  OBVIOUS
<1>7. Plans(es, a, input, own, p, h, t, from)
  BY <1>0, <1>2, <1>3, <1>4, <1>5, <1>6 DEF Plans
<1>8. plan'[a] = p
  BY <1>0, <1>2
<1> QED BY <1>0, <1>1, <1>2, <1>7, <1>8

LEMMA PlannedStep ==
  ASSUME Types, Pairs, Logs, Keeps, [Next]_vars, clean'
  PROVE  Planned'
<1>0. LogOK(log) /\ clean /\ \A a \in Actors : plan[a].marks \subseteq DOMAIN log
  BY CleanBefore DEF Types, PlanOK
<1> SUFFICES ASSUME NEW b \in Actors, pc'[b] = "store"
             PROVE  /\ b = "command" => Folding(log', plan'[b].marks) # {}
                    /\ \E H : /\ HeadIs(log', H)
                              /\ HeadFor(log', H, plan'[b].marks, plan'[b].covers, Len(log') + 1)
  BY DEF Planned
<1>1. CASE Summarize(b)
  <2>1. Covered /\ log' = log
    BY <1>0, <1>1, SummarizeIs
  <2>2. PICK es, own, p, h, t, from :
          es = context[b] /\ Plans(es, b, input, own, p, h, t, from) /\ plan'[b] = p
    BY <1>0, <1>1, SummarizeIs
  <2>3. PICK H, i : H = {es[k].at : k \in 1..h} /\ i = input
    OBVIOUS
  <2>4. Plans(es, b, i, own, p, h, t, from)
    BY <2>2, <2>3
  <2>5. HeadIs(log, H)
    BY <2>3, <2>4, PlansHeadIs
  <2>6. /\ HeadFor(log, H, p.marks, p.covers, Len(log) + 1)
        /\ b = "command" => Folding(log, p.marks) # {}
    BY <2>1, <2>3, <2>4, PlansHeadFor
  <2> QED BY <2>1, <2>2, <2>5, <2>6
<1>2. CASE pc[b] = "store" /\ context'[b] = context[b] /\ plan'[b] = plan[b]
  <2>1. log' = log \/ (b = "command" /\ \E m : Speaks(m))
    BY <1>2, Waiting
  <2>2. PICK S, cov : S = plan[b].marks /\ cov = plan[b].covers /\ S \subseteq DOMAIN log
    BY <1>0
  <2>3. PICK H : HeadIs(log, H) /\ HeadFor(log, H, S, cov, Len(log) + 1)
    BY <1>0, <1>2, <2>2 DEF Keeps, Planned
  <2>4. b = "command" => Folding(log, S) # {}
    BY <1>0, <1>2, <2>2 DEF Keeps, Planned
  <2>5. CASE log' = log
    BY <1>2, <2>2, <2>3, <2>4, <2>5
  <2>6. CASE b = "command" /\ \E m : Speaks(m)
    <3>1. PICK m : Speaks(m)
      BY <2>6
    <3>2. /\ LogOK(log') /\ Steady(log, log') /\ Len(log) \in Nat /\ Len(log') = Len(log) + 1
          /\ \A i \in DOMAIN log : i < Len(log) + 1
      BY <1>0, <3>1, SpeaksIs
    <3>3. PICK n, n2 : n = Len(log) + 1 /\ n2 = Len(log') + 1
      OBVIOUS
    <3>4. n \in Nat /\ n2 \in Nat /\ n <= n2 /\ \A l \in DOMAIN log : l < n
      BY <3>2, <3>3
    <3>5. HeadIs(log', H)
      BY <1>0, <2>3, <3>2, SteadyAlike, HeadGrows
    <3>6. HeadFor(log', H, S, cov, n2)
      <4>1. HeadFor(log, H, S, cov, n) /\ H \subseteq DOMAIN log
        BY <2>3, <3>3 DEF HeadIs
      <4> QED BY <2>2, <2>4, <2>6, <3>2, <3>4, <4>1, HeadForSteady
    <3>7. Folding(log', S) # {}
      BY <2>2, <2>4, <2>6, <3>2, FoldingSteady
    <3> QED BY <1>2, <2>2, <3>3, <3>5, <3>6, <3>7
  <2> QED BY <2>1, <2>5, <2>6
<1> QED BY <1>1, <1>2, ActorMoves

LEMMA SharesStep ==
  ASSUME Types, Pairs, Logs, Keeps, [Next]_vars, clean'
  PROVE  Shares'
<1>0. clean /\ "run" \in Actors
  BY CleanBefore DEF Actors
<1> SUFFICES ASSUME pc'["run"] = "store"
             PROVE  /\ Plain(log', plan'["run"].head) /\ Plain(log', plan'["run"].tail)
                    /\ \A l \in DOMAIN log' : Line(log', l) =>
                         l \in Places(plan'["run"].head) \union Places(plan'["run"].tail)
                               \union plan'["run"].covers
  BY DEF Shares, Places
<1>1. CASE Summarize("run")
  <2>1. Covered /\ log' = log
    BY <1>0, <1>1, SummarizeIs
  <2>2. PICK es, own, p, h, t, from :
          es = context["run"] /\ Plans(es, "run", input, own, p, h, t, from) /\ plan'["run"] = p
    BY <1>0, <1>1, SummarizeIs
  <2>3. PICK i : i = input
    OBVIOUS
  <2>4. Plans(es, "run", i, own, p, h, t, from)
    BY <2>2, <2>3
  <2>5. \A l \in DOMAIN log : Line(log, l) => l \in Places(p.head) \union Places(p.tail) \union p.covers
    BY <2>1, <2>4, PlansShown
  <2>6. Plain(log, p.head) /\ Plain(log, p.tail)
    <3>1. /\ es \in Seq(Entries) /\ h \in Nat /\ t \in Nat /\ h <= Len(es) /\ t <= Len(es)
          /\ Len(es) \in Nat
      BY <2>4, PlansHead
    <3>2. p.head = Kept(es, 1, h) /\ p.tail = Kept(es, t + 1, Len(es))
      BY <2>4, PlansFolds
    <3>3. \A k \in DOMAIN es : es[k].calls \subseteq log[es[k].at].calls
      BY <2>4 DEF Plans, Single
    <3>4. ASSUME NEW first \in Nat, NEW last \in Nat, 1 <= first, last <= Len(es)
          PROVE  Plain(log, Kept(es, first, last))
      <4>1. \A j \in DOMAIN Kept(es, first, last) :
              \E k \in DOMAIN es : Kept(es, first, last)[j] = es[k]
        BY <3>1, <3>4, KeptIs
      <4> QED BY <3>3, <4>1 DEF Plain
    <3>5. 1 \in Nat /\ 1 <= 1 /\ t + 1 \in Nat /\ 1 <= t + 1 /\ Len(es) <= Len(es)
      BY <3>1
    <3>6. Plain(log, Kept(es, 1, h))
      BY <3>1, <3>4, <3>5
    <3>7. Plain(log, Kept(es, t + 1, Len(es)))
      BY <3>1, <3>4, <3>5
    <3> QED BY <3>2, <3>6, <3>7
  <2> QED BY <2>1, <2>2, <2>5, <2>6
<1>2. CASE pc["run"] = "store" /\ context'["run"] = context["run"] /\ plan'["run"] = plan["run"]
  <2>1. log' = log
    BY <1>0, <1>2, Waiting
  <2> QED BY <1>0, <1>2, <2>1 DEF Keeps, Shares
<1> QED BY <1>0, <1>1, <1>2, ActorMoves

\* What is built shows every line, those that are folded by the latest summary.
LEMMA ContextShows ==
  ASSUME LogOK(log), NEW S, Recorded(S), NEW es, Within(log, es), Single(log, es), NEW i,
         Built(log, es, "run", i), NEW l \in DOMAIN log, Line(log, l)
  PROVE  Shows(log, es, l)
<1>1. \A k \in DOMAIN es : es[k].at \in DOMAIN log /\ es[k].calls \subseteq log[es[k].at].calls
  BY DEF Within, Single
<1>2. CASE \E k \in DOMAIN es : es[k].at = l
  BY <1>1, <1>2 DEF Shows, Line
<1>3. CASE log[l].summarized
  <2>1. l \in Folding(log, S)
    BY <1>3 DEF Folding, Line
  <2>2. PICK s \in DOMAIN log : log[s].summary
    BY <2>1 DEF Recorded
  <2>3. PICK n \in DOMAIN log : Latest(log, n)
    BY <2>2, LatestExists
  <2>4. PICK H : HeadFor(log, H, S, log[n].covers, n)
    BY <2>3 DEF Recorded
  <2>5. l \in log[n].covers
    <3>1. PICK cov : cov = log[n].covers
      OBVIOUS
    <3>2. HeadFor(log, H, S, cov, n)
      BY <2>4, <3>1
    <3> QED BY <2>1, <3>1, <3>2 DEF HeadFor
  <2>6. PICK k \in DOMAIN es : es[k].at = n
    BY <2>3 DEF Built, UpToDate
  <2>7. log[n].role = "user" /\ log[n].calls = {}
    BY <2>3 DEF Latest, LogOK, MessageOK
  <2>8. es[k].calls = {} /\ log[es[k].at].role # "tool"
    BY <1>1, <2>6, <2>7
  <2> QED BY <2>5, <2>6, <2>8 DEF Shows
<1> QED BY <1>2, <1>3 DEF Built, UpToDate

LEMMA ShowsGrows ==
  ASSUME NEW lg, NEW lg2, Grows(lg, lg2), NEW es, Within(lg, es), NEW l, Shows(lg, es, l)
  PROVE  Shows(lg2, es, l)
BY DEF Grows, Within, Shows

\* The sanitizer drops no line and no summary.
LEMMA SanitizedShows ==
  ASSUME NEW es, Within(log, es), NEW l, Shows(log, es, l)
  PROVE  Shows(log, Sanitized(es), l)
<1>0. es \in Seq(Entries)
  BY DEF Within
<1>1. PICK k \in DOMAIN es : /\ es[k].calls = {} /\ log[es[k].at].role # "tool"
                             /\ es[k].at = l \/ l \in log[es[k].at].covers
  BY DEF Shows
<1>2. Stays(es, k)
  BY <1>0, <1>1, OtherStays DEF IsTool
<1>3. PICK q, f : q = Sanitized(es) /\ SanitizedFrom(q, es, f)
  BY <1>0, SanitizedIs
<1>4. PICK j \in DOMAIN q : f[j] = k
  BY <1>2, <1>3 DEF SanitizedFrom
<1>5. q[j].at = es[k].at /\ q[j].calls = {}
  BY <1>1, <1>3, <1>4 DEF SanitizedFrom
<1>6. Shows(log, q, l)
  BY <1>1, <1>5 DEF Shows
<1> QED BY <1>3, <1>6

\* The summary the run stores, with what it keeps, shows every line.
LEMMA SummaryShows ==
  ASSUME Types, Logs, Keeps, clean, StoreSummary("run"), NEW l \in DOMAIN log', Line(log', l)
  PROVE  Shows(log', context'["run"], l)
<1>0. /\ LogOK(log) /\ Ordered(log) /\ "run" \in Actors /\ pc["run"] = "store" /\ DOMAIN context = Actors
      /\ PlanOK(log, plan["run"])
  BY DEF Types, Logs, Actors, StoreSummary
<1>1. PICK m : Stores(m) /\ m.summary /\ m.covers = plan["run"].covers /\ m.role # "tool"
  BY <1>0, SummaryIsSteady
<1>2. PICK last : last = Len(log) + 1
  OBVIOUS
<1>3. DOMAIN log' = DOMAIN log \union {last} /\ log'[last] = m /\ Grows(log, log')
  BY <1>0, <1>1, <1>2, StoresIs, SteadyAlike DEF Alike
<1>4. l \in DOMAIN log /\ Line(log, l)
  <2>1. l # last
    BY <1>1, <1>3 DEF Line
  <2> QED BY <1>3, <2>1, AlikeLine
<1>5. PICK A, B, cov : A = plan["run"].head /\ B = plan["run"].tail /\ cov = plan["run"].covers
  OBVIOUS
<1>6. PICK es, e : /\ context' = [context EXCEPT !["run"] = es]
                   /\ e.at = Len(log) + 1 /\ e.calls = {}
                   /\ Joined(es, plan["run"].head, e, plan["run"].tail)
  BY <1>0, SummaryContext
<1>7. context'["run"] = es /\ Joined(es, A, e, B) /\ e.at = last /\ e.calls = {}
  BY <1>0, <1>2, <1>5, <1>6
<1>8. Plain(log, A) /\ Plain(log, B) /\ (l \in Places(A) \union Places(B) \union cov)
  BY <1>0, <1>4, <1>5 DEF Keeps, Shares
<1>9. log'[l].role # "tool" /\ log[l].calls = {}
  BY <1>3, <1>4 DEF Grows, Line
<1>10. CASE l \in Places(A)
  <2>1. PICK j \in DOMAIN A : A[j].at = l
    BY <1>10 DEF Places
  <2>2. PICK k \in DOMAIN es : es[k] = A[j]
    BY <1>7 DEF Joined
  <2>3. es[k].calls = {}
    BY <1>8, <1>9, <2>1, <2>2 DEF Plain
  <2> QED BY <1>7, <1>9, <2>1, <2>2, <2>3 DEF Shows
<1>11. CASE l \in Places(B)
  <2>1. PICK j \in DOMAIN B : B[j].at = l
    BY <1>11 DEF Places
  <2>2. PICK k \in DOMAIN es : es[k] = B[j]
    BY <1>7 DEF Joined
  <2>3. es[k].calls = {}
    BY <1>8, <1>9, <2>1, <2>2 DEF Plain
  <2> QED BY <1>7, <1>9, <2>1, <2>2, <2>3 DEF Shows
<1>12. CASE l \in cov
  <2>1. PICK k \in DOMAIN es : es[k] = e
    BY <1>7 DEF Joined
  <2> QED BY <1>1, <1>3, <1>5, <1>7, <1>12, <2>1 DEF Shows
<1> QED BY <1>8, <1>10, <1>11, <1>12

LEMMA SendsStep ==
  ASSUME Types, Pairs, Logs, Keeps, [Next]_vars, clean'
  PROVE  Sends'
<1>0. /\ LogOK(log) /\ Ordered(log) /\ clean /\ "run" \in Actors /\ Actors = {"run", "command"}
      /\ pc \in [Actors -> States] /\ DOMAIN context = Actors /\ Within(log, context["run"])
  BY CleanBefore DEF Types, Logs, Actors
<1> SUFFICES ASSUME pc'["run"] \in {"mark", "calling"}, NEW l \in DOMAIN log', Line(log', l)
             PROVE  Shows(log', context'["run"], l)
  BY DEF Sends
<1>1. PICK es : es = context["run"] /\ Within(log, es)
  BY <1>0
<1>2. ASSUME pc["run"] \in {"mark", "calling"}, l \in DOMAIN log, Line(log, l)
      PROVE  Shows(log, es, l)
  BY <1>0, <1>1, <1>2 DEF Keeps, Sends
<1>3. CASE Waits
  <2>1. log' = log
    BY <1>3, WaitsKeepsLog
  <2>2. context'["run"] = es /\ pc["run"] \in {"decide", "store", "mark", "calling"}
    BY <1>0, <1>1, <1>3 DEF Waits, Command, Stop, EndRun, Restart, Build, Skip, Summarize, StoreFails,
                            Done, vars
  <2>3. CASE pc["run"] \in {"mark", "calling"}
    BY <1>2, <2>1, <2>2, <2>3
  <2>4. CASE pc["run"] \in {"decide", "store"}
    <3>1. PICK S, i : Recorded(S) /\ i = input
      BY <1>0 DEF Keeps, Heads
    <3>2. Single(log, es)
      BY <1>0, <1>1, <2>4 DEF Pairs
    <3>3. Built(log, es, "run", i)
      BY <1>0, <1>1, <2>4, <3>1 DEF Keeps, Contexts
    <3>4. Shows(log, es, l)
      BY <1>0, <1>1, <2>1, <3>1, <3>2, <3>3, ContextShows
    <3> QED BY <2>1, <2>2, <3>4
  <2> QED BY <2>2, <2>3, <2>4
<1>4. CASE Ask \/ WriteCalls \/ WriteResult \/ WriteFinal
  <2>1. PICK m : Speaks(m)
    BY <1>4, TurnSpeaks
  <2> QED BY <2>1 DEF Speaks
<1>5. ASSUME NEW a \in Actors, StoreSummary(a) PROVE Shows(log', context'["run"], l)
  <2>1. CASE a = "run"
    BY <1>0, <1>5, <2>1, SummaryShows
  <2>2. CASE a = "command"
    <3>1. pc'["run"] = pc["run"] /\ context'["run"] = es
      BY <1>0, <1>1, <1>5, <2>2 DEF StoreSummary
    <3>2. PICK m : Stores(m) /\ m.summary
      BY <1>0, <1>5, SummaryIsSteady
    <3>3. DOMAIN log' = DOMAIN log \union {Len(log) + 1} /\ log'[Len(log) + 1] = m /\ Grows(log, log')
      BY <1>0, <3>2, StoresIs, SteadyAlike DEF Alike
    <3>4. l \in DOMAIN log
      BY <3>2, <3>3 DEF Line
    <3>5. Shows(log, es, l)
      BY <1>2, <3>1, <3>3, <3>4, AlikeLine
    <3> QED BY <1>1, <3>1, <3>3, <3>5, ShowsGrows
  <2> QED BY <1>0, <2>1, <2>2
<1>6. ASSUME NEW a \in Actors, Mark(a) PROVE Shows(log', context'["run"], l)
  <2>1. Grows(log, log') /\ DOMAIN log' = DOMAIN log
    BY <1>6, MarkIs
  <2>2. l \in DOMAIN log /\ Line(log, l)
    BY <2>1, AlikeLine
  <2>3. CASE a = "run"
    <3>1. pc["run"] = "mark" /\ context'["run"] = Sanitized(context["run"])
      BY <1>0, <1>6, <2>3 DEF Mark
    <3>2. PICK q : q = Sanitized(es) /\ context'["run"] = q
      BY <1>1, <3>1
    <3>3. Shows(log, q, l)
      BY <1>1, <1>2, <2>2, <3>1, <3>2, SanitizedShows
    <3>4. Within(log, q)
      <4>1. q \in Seq(Entries) /\ \E f : SanitizedFrom(q, es, f)
        BY <1>1, <3>2, SanitizedIs DEF Within
      <4> QED BY <1>1, <4>1 DEF Within, SanitizedFrom
    <3> QED BY <2>1, <3>2, <3>3, <3>4, ShowsGrows
  <2>4. CASE a = "command"
    <3>1. pc'["run"] = pc["run"] /\ context'["run"] = es
      BY <1>0, <1>1, <1>6, <2>4 DEF Mark, Done
    <3>2. Shows(log, es, l)
      BY <1>2, <2>2, <3>1
    <3> QED BY <1>1, <2>1, <3>1, <3>2, ShowsGrows
  <2> QED BY <1>0, <2>3, <2>4
<1> QED BY <1>3, <1>4, <1>5, <1>6, NextIs

LEMMA KeepsStep == Types /\ Pairs /\ Logs /\ Keeps /\ [Next]_vars => Keeps'
<1> SUFFICES ASSUME Types, Pairs, Logs, Keeps, [Next]_vars PROVE Keeps'
  OBVIOUS
<1>1. CASE clean'
  BY <1>1, HeadsStep, ContextsStep, PlannedStep, SharesStep, SendsStep DEF Keeps
<1>2. CASE ~clean'
  BY <1>2 DEF Keeps, Heads, Contexts, Planned, Shares, Sends
<1> QED BY <1>1, <1>2

\* A question or an answer the model is not told of was left out by a summary the program put
\* together itself, when the summary model answered with nothing or failed: however long the
\* session is and however often it is compressed, nothing is lost at the boundaries, nor
\* between a summary and the one that continues it, as long as no compression lost its flags
\* or overlapped another (compress_prepared_context, ContextCompressor.compress).
THEOREM NoLineIsLost == Spec => []NothingIsLost
<1>1. Types /\ Keeps => NothingIsLost
  <2> SUFFICES ASSUME Types, Keeps, clean, pc["run"] = "calling", NEW l \in Lines, l \notin Told
               PROVE  l \in Omitted
    BY DEF NothingIsLost
  <2>1. l \in DOMAIN log /\ Line(log, l)
    BY DEF Lines, Line
  <2>2. Shows(log, context["run"], l)
    BY <2>1 DEF Keeps, Sends
  <2>3. PICK k \in DOMAIN context["run"] :
          context["run"][k].at = l \/ l \in log[context["run"][k].at].covers
    BY <2>2 DEF Shows
  <2>4. PICK at : at = context["run"][k].at
    OBVIOUS
  <2>5. at \in Places(context["run"])
    BY <2>4 DEF Places
  <2>6. l # at
    BY <2>5 DEF Told
  <2>7. l \in log[at].covers /\ l \notin log[at].covers \ log[at].omits
    BY <2>3, <2>4, <2>5, <2>6 DEF Told
  <2> QED BY <2>5, <2>7 DEF Omitted
<1>2. Init => Types /\ Pairs /\ Logs /\ Keeps
  BY TypesInit, PairsInit, LogsInit, KeepsInit
<1>3. Types /\ Pairs /\ Logs /\ Keeps /\ [Next]_vars => (Types /\ Pairs /\ Logs /\ Keeps)'
  BY TypesStep, PairsStep, LogsStep, KeepsStep
<1> QED BY <1>1, <1>2, <1>3, PTL DEF Spec

=============================================================================
