---------------------------- MODULE ShellProofs ----------------------------
(***************************************************************************)
(* Proofs about Shell, for any arguments and any bound on the paths.       *)
(***************************************************************************)
EXTENDS Shell, SequenceTheorems, WellFoundedInduction, TLAPS

-----------------------------------------------------------------------------
(* Numbers.                                                                *)

LEMMA LeastExists ==
    ASSUME NEW S \in SUBSET Nat, S # {}
    PROVE  \E m \in S : \A k \in S : m <= k
  <1> DEFINE R == OpToRel(<, Nat)
  <1>1. IsWellFoundedOn(R, Nat)
    BY NatLessThanWellFounded
  <1>2. \A x, y \in Nat : <<y, x>> \in R <=> y < x
    BY DEF OpToRel
  <1> HIDE DEF R
  <1>3. PICK m \in S : \A k \in S : <<k, m>> \notin R
    BY <1>1, WFMin
  <1>4. ASSUME NEW k \in S
        PROVE  m <= k
    <2>1. m \in Nat /\ k \in Nat /\ <<k, m>> \notin R
      BY <1>3
    <2>2. ~(k < m)
      BY <1>2, <2>1
    <2> QED
      BY <2>1, <2>2
  <1> QED
    BY <1>4

\* Induction, for a set of numbers.
LEMMA UpTo ==
    ASSUME NEW n \in Nat, NEW S, 0 \in S, \A k \in 0 .. n - 1 : k \in S => k + 1 \in S
    PROVE  \A k \in 0 .. n : k \in S
  <1> SUFFICES ASSUME (0 .. n) \ S # {} PROVE FALSE
    OBVIOUS
  <1> DEFINE T == (0 .. n) \ S
  <1>0. T \in SUBSET Nat /\ T # {}
    OBVIOUS
  <1> HIDE DEF T
  <1>t. PICK m \in T : \A k \in T : m <= k
    BY <1>0, LeastExists
  <1>1. m \in (0 .. n) \ S /\ \A k \in (0 .. n) \ S : m <= k
    BY <1>t DEF T
  <1>2. m # 0 /\ m - 1 \in 0 .. n - 1 /\ m - 1 \in 0 .. n
    BY <1>1
  <1>3. m - 1 \in S
    BY <1>1, <1>2
  <1>4. (m - 1) + 1 \in S
    BY <1>2, <1>3
  <1>5. (m - 1) + 1 = m
    BY <1>1
  <1> QED
    BY <1>1, <1>4, <1>5

LEMMA MinFacts ==
    ASSUME NEW S \in SUBSET Nat, S # {}
    PROVE  Min(S) \in S /\ \A k \in S : Min(S) <= k
  BY LeastExists DEF Min

LEMMA MaxFacts ==
    ASSUME NEW n \in Nat, NEW S \in SUBSET (0 .. n), S # {}
    PROVE  Max(S) \in S /\ \A k \in S : k <= Max(S)
  <1> DEFINE T == {n - k : k \in S}
  <1>0. S \subseteq 0 .. n
    OBVIOUS
  <1>1. T \in SUBSET Nat /\ T # {}
    <2>1. ASSUME NEW x \in T PROVE x \in Nat
      <3>1. PICK k \in S : x = n - k
        OBVIOUS
      <3>2. k \in 0 .. n
        BY <1>0
      <3> QED
        BY <3>1, <3>2
    <2>2. T # {}
      OBVIOUS
    <2> QED
      BY <2>1, <2>2
  <1>2. PICK t \in T : \A k \in T : t <= k
    BY <1>1, LeastExists
  <1>3. PICK m \in S : t = n - m
    BY <1>2
  <1>4. \A k \in S : k <= m
    BY <1>2, <1>3
  <1> QED
    BY <1>4 DEF Max

LEMMA MaxIs ==
    ASSUME NEW n \in Nat, NEW S \in SUBSET (0 .. n), NEW m \in S, \A k \in S : k <= m
    PROVE  Max(S) = m
  <1>1. Max(S) \in S /\ \A k \in S : k <= Max(S)
    BY MaxFacts
  <1>2. Max(S) \in 0 .. n /\ m \in 0 .. n /\ m <= Max(S) /\ Max(S) <= m
    BY <1>1
  <1> QED
    BY <1>2

-----------------------------------------------------------------------------
(* Folds.                                                                  *)

\* g runs from b through n steps of F.
Runs(g, n, b, F) == g[0] = b /\ \A k \in 1 .. n : g[k] = F[k][g[k - 1]]

LEMMA Recursion ==
    ASSUME NEW n \in Nat, NEW A, NEW b \in A, NEW F \in [1 .. n -> [A -> A]]
    PROVE  \E g \in [0 .. n -> A] : Runs(g, n, b, F)
  <1> DEFINE S == {m \in 0 .. n : \E g \in [0 .. m -> A] : Runs(g, m, b, F)}
  <1>1. 0 \in S
    <2> DEFINE g == [k \in 0 .. 0 |-> b]
    <2>1. g \in [0 .. 0 -> A] /\ Runs(g, 0, b, F) /\ 0 \in 0 .. n
      BY DEF Runs
    <2> HIDE DEF g
    <2> QED
      BY <2>1
  <1>2. ASSUME NEW m \in 0 .. n - 1, m \in S
        PROVE  m + 1 \in S
    <2>1. PICK g \in [0 .. m -> A] : Runs(g, m, b, F)
      BY <1>2
    <2> DEFINE h == [k \in 0 .. m + 1 |-> IF k = m + 1 THEN F[m + 1][g[m]] ELSE g[k]]
    <2>2. F[m + 1][g[m]] \in A
      <3>1. g[m] \in A /\ m + 1 \in 1 .. n
        BY <2>1
      <3> QED
        BY <3>1
    <2>3. h \in [0 .. m + 1 -> A]
      BY <2>1, <2>2
    <2>4. h[0] = b
      BY <2>1 DEF Runs
    <2>5. ASSUME NEW k \in 1 .. m + 1
          PROVE  h[k] = F[k][h[k - 1]]
      <3>1. CASE k = m + 1
        <4>1. h[k] = F[m + 1][g[m]] /\ h[k - 1] = g[m]
          BY <3>1
        <4> QED
          BY <3>1, <4>1
      <3>2. CASE k # m + 1
        <4>1. k \in 1 .. m /\ h[k] = g[k] /\ h[k - 1] = g[k - 1]
          BY <3>2
        <4> QED
          BY <2>1, <4>1 DEF Runs
      <3> QED
        BY <3>1, <3>2
    <2>6. m + 1 \in 0 .. n
      OBVIOUS
    <2> HIDE DEF h
    <2>7. Runs(h, m + 1, b, F)
      BY <2>4, <2>5 DEF Runs
    <2> QED
      BY <2>3, <2>6, <2>7
  <1> HIDE DEF S
  <1>3. \A m \in 0 .. n : m \in S
    BY <1>1, <1>2, UpTo
  <1> QED
    BY <1>3 DEF S

LEMMA RunsUnique ==
    ASSUME NEW n \in Nat, NEW b, NEW F, NEW g, NEW h, Runs(g, n, b, F), Runs(h, n, b, F)
    PROVE  \A k \in 0 .. n : g[k] = h[k]
  <1> DEFINE S == {k \in 0 .. n : g[k] = h[k]}
  <1>1. ASSUME NEW k \in 0 .. n - 1, k \in S
        PROVE  k + 1 \in S
    <2>1. k + 1 \in 1 .. n /\ (k + 1) - 1 = k
      OBVIOUS
    <2>2. g[k + 1] = F[k + 1][g[k]] /\ h[k + 1] = F[k + 1][h[k]]
      BY <2>1 DEF Runs
    <2> QED
      BY <1>1, <2>1, <2>2
  <1>2. 0 \in S
    BY DEF Runs
  <1> HIDE DEF S
  <1>3. \A k \in 0 .. n : k \in S
    BY <1>1, <1>2, UpTo
  <1> QED
    BY <1>3 DEF S

\* h folds the steps of F over the subsets of 1 .. n, the largest one last.
Folds(h, n, b, F) ==
    \A s \in SUBSET (1 .. n) : h[s] = IF s = {} THEN b ELSE F[Max(s)][h[s \ {Max(s)}]]

\* The function behind a fold over 1 .. n exists.
LEMMA FoldExists ==
    ASSUME NEW n \in Nat, NEW A, NEW b \in A, NEW F \in [1 .. n -> [A -> A]]
    PROVE  \E h \in [SUBSET (1 .. n) -> A] : Folds(h, n, b, F)
  <1> DEFINE G == [SUBSET (1 .. n) -> A]
             H == [k \in 1 .. n |-> [x \in G |->
                      [s \in SUBSET (1 .. n) |-> IF k \in s THEN F[k][x[s]] ELSE x[s]]]]
             c == [s \in SUBSET (1 .. n) |-> b]
  <1>1. c \in G /\ H \in [1 .. n -> [G -> G]]
    <2>1. ASSUME NEW k \in 1 .. n, NEW x \in G, NEW s \in SUBSET (1 .. n)
          PROVE  (IF k \in s THEN F[k][x[s]] ELSE x[s]) \in A
      <3>1. x[s] \in A /\ F[k] \in [A -> A]
        OBVIOUS
      <3> QED
        BY <3>1
    <2>2. ASSUME NEW k \in 1 .. n, NEW x \in G
          PROVE  [s \in SUBSET (1 .. n) |-> IF k \in s THEN F[k][x[s]] ELSE x[s]] \in G
      BY <2>1
    <2> HIDE DEF G
    <2>3. H \in [1 .. n -> [G -> G]]
      BY <2>2
    <2> QED
      BY <2>3 DEF G
  <1> HIDE DEF G, H, c
  <1>2. PICK g \in [0 .. n -> G] : Runs(g, n, c, H)
    BY <1>1, Recursion
  <1>3. ASSUME NEW k \in 1 .. n, NEW s \in SUBSET (1 .. n)
        PROVE  g[k][s] = IF k \in s THEN F[k][g[k - 1][s]] ELSE g[k - 1][s]
    <2>1. g[k - 1] \in G
      BY <1>2
    <2>2. H[k][g[k - 1]] = [t \in SUBSET (1 .. n) |->
              IF k \in t THEN F[k][g[k - 1][t]] ELSE g[k - 1][t]]
      BY <2>1 DEF H
    <2> QED
      BY <1>2, <2>2 DEF Runs
  \* Up to k, only the elements up to k count.
  <1>4. ASSUME NEW s \in SUBSET (1 .. n), NEW t \in SUBSET (1 .. n), NEW m \in 0 .. n,
               \A k \in 1 .. m : k \in s <=> k \in t
        PROVE  g[m][s] = g[m][t]
    <2> DEFINE S == {k \in 0 .. m : g[k][s] = g[k][t]}
    <2>0. m \in Nat
      OBVIOUS
    <2>1. 0 \in S
      <3>1. g[0] = c /\ c[s] = c[t]
        BY <1>2 DEF c, Runs
      <3> QED
        BY <2>0, <3>1
    <2>2. ASSUME NEW k \in 0 .. m - 1, k \in S
          PROVE  k + 1 \in S
      <3>1. k + 1 \in 1 .. n /\ (k + 1) - 1 = k /\ (k + 1 \in s <=> k + 1 \in t)
        BY <1>4
      <3>2. /\ g[k + 1][s] = IF k + 1 \in s THEN F[k + 1][g[k][s]] ELSE g[k][s]
            /\ g[k + 1][t] = IF k + 1 \in t THEN F[k + 1][g[k][t]] ELSE g[k][t]
        BY <1>3, <3>1
      <3> QED
        BY <2>2, <3>1, <3>2
    <2> HIDE DEF S
    <2>3. \A k \in 0 .. m : k \in S
      BY <2>0, <2>1, <2>2, UpTo
    <2> QED
      BY <2>0, <2>3 DEF S
  \* Beyond the last element, nothing happens.
  <1>5. ASSUME NEW s \in SUBSET (1 .. n), NEW m \in 0 .. n, \A k \in s : k <= m
        PROVE  g[n][s] = g[m][s]
    <2> DEFINE S == {k \in 0 .. n - m : g[m + k][s] = g[m][s]}
    <2>1. 0 \in S
      OBVIOUS
    <2>2. ASSUME NEW k \in 0 .. n - m - 1, k \in S
          PROVE  k + 1 \in S
      <3>1. /\ m + (k + 1) \in 1 .. n /\ (m + (k + 1)) - 1 = m + k
            /\ m + (k + 1) \notin s
        BY <1>5
      <3>2. g[m + (k + 1)][s] = g[m + k][s]
        BY <1>3, <3>1
      <3> QED
        BY <2>2, <3>2
    <2> HIDE DEF S
    <2>3. n - m \in Nat
      OBVIOUS
    <2>4. \A k \in 0 .. n - m : k \in S
      BY <2>1, <2>2, <2>3, UpTo
    <2>5. n - m \in S /\ m + (n - m) = n
      BY <2>3, <2>4
    <2> QED
      BY <2>5 DEF S
  <1>6. ASSUME NEW s \in SUBSET (1 .. n)
        PROVE  g[n][s] = IF s = {} THEN b ELSE F[Max(s)][g[n][s \ {Max(s)}]]
    <2>1. CASE s = {}
      <3>1. g[n][s] = g[0][s]
        BY <1>5, <2>1
      <3> QED
        BY <1>2, <2>1, <3>1 DEF c, Runs
    <2>2. CASE s # {}
      <3> DEFINE m == Max(s)
      <3>0. s \in SUBSET (0 .. n)
        OBVIOUS
      <3>1. m \in s /\ \A k \in s : k <= m
        BY <2>2, <3>0, MaxFacts
      <3> HIDE DEF m
      <3>2. m \in 1 .. n /\ m \in 0 .. n /\ m - 1 \in 0 .. n /\ s \ {m} \in SUBSET (1 .. n)
        BY <3>1
      <3>3. g[n][s] = g[m][s] /\ g[m][s] = F[m][g[m - 1][s]]
        BY <1>3, <1>5, <3>1, <3>2
      <3>4. g[m - 1][s] = g[m - 1][s \ {m}]
        <4>1. \A k \in 1 .. m - 1 : k \in s <=> k \in s \ {m}
          BY <3>2
        <4> QED
          BY <1>4, <3>2, <4>1
      <3>5. \A k \in s \ {m} : k <= m - 1
        BY <3>1, <3>2
      <3>6. g[n][s \ {m}] = g[m - 1][s \ {m}]
        BY <1>5, <3>2, <3>5
      <3> QED
        BY <2>2, <3>3, <3>4, <3>6 DEF m
    <2> QED
      BY <2>1, <2>2
  <1>7. g[n] \in [SUBSET (1 .. n) -> A]
    <2>1. n \in 0 .. n
      OBVIOUS
    <2> QED
      BY <1>2, <2>1 DEF G
  <1>8. Folds(g[n], n, b, F)
    BY <1>6 DEF Folds
  <1> QED
    BY <1>7, <1>8

\* The prefixes of 1 .. n run through the fold.
Steps(c, n, A, F) ==
    \A k \in 1 .. n : c[1 .. k - 1] \in A => c[1 .. k] = F[k][c[1 .. k - 1]]

LEMMA PrefixRuns ==
    ASSUME NEW n \in Nat, NEW A, NEW b \in A, NEW F \in [1 .. n -> [A -> A]], NEW c,
           c[{}] = b, Steps(c, n, A, F)
    PROVE  \E g \in [0 .. n -> A] : Runs(g, n, b, F) /\ c[1 .. n] = g[n]
  <1> DEFINE g == [k \in 0 .. n |-> c[1 .. k]]
             S == {k \in 0 .. n : c[1 .. k] \in A}
  <1>0. 1 .. 0 = {}
    OBVIOUS
  <1>1. 0 \in S
    BY <1>0
  <1>2. ASSUME NEW k \in 0 .. n - 1, k \in S
        PROVE  k + 1 \in S
    <2>1. k + 1 \in 1 .. n /\ k + 1 \in 0 .. n /\ (k + 1) - 1 = k
      OBVIOUS
    <2>2. c[1 .. k + 1] = F[k + 1][c[1 .. k]] /\ c[1 .. k] \in A
      BY <1>2, <2>1 DEF Steps
    <2> QED
      BY <2>1, <2>2
  <1> HIDE DEF S
  <1>3. \A k \in 0 .. n : k \in S
    BY <1>1, <1>2, UpTo
  <1>4. \A k \in 0 .. n : c[1 .. k] \in A
    BY <1>3 DEF S
  <1>5. g \in [0 .. n -> A]
    BY <1>4
  <1>6. g[0] = b
    BY <1>0
  <1>7. ASSUME NEW k \in 1 .. n
        PROVE  g[k] = F[k][g[k - 1]]
    <2>1. k \in 0 .. n /\ k - 1 \in 0 .. n
      OBVIOUS
    <2> QED
      BY <1>4, <2>1 DEF Steps
  <1>8. g[n] = c[1 .. n]
    OBVIOUS
  <1> HIDE DEF g
  <1>9. Runs(g, n, b, F)
    BY <1>6, <1>7 DEF Runs
  <1> QED
    BY <1>5, <1>8, <1>9

LEMMA MaxOfPrefix ==
    ASSUME NEW k \in Nat \ {0}
    PROVE  Max(1 .. k) = k /\ (1 .. k) \ {k} = 1 .. k - 1
  <1>1. 1 .. k \in SUBSET (0 .. k) /\ k \in 1 .. k /\ \A j \in 1 .. k : j <= k
    OBVIOUS
  <1>2. Max(1 .. k) = k
    BY <1>1, MaxIs
  <1> QED
    BY <1>2

-----------------------------------------------------------------------------
(* Words and slashes.                                                      *)

Text  == Seq(Char)
Words == {w \in Text : w # <<>> /\ \A k \in 1 .. Len(w) : w[k] # "/"}
Clean == Words \ {<<".">>, <<".", ".">>}
Abs   == {p \in Text : p # <<>> /\ p[1] = "/"}

LEMMA WordIs ==
    ASSUME NEW s \in Text, NEW k \in 1 .. Len(s) + 1, NEW e \in k - 1 .. Len(s),
           \A j \in k .. e : s[j] # "/", e = Len(s) \/ s[e + 1] = "/"
    PROVE  Word(s, k) = SubSeq(s, k, e)
  <1> DEFINE ends == {j \in k .. Len(s) : s[j] = "/"}
  <1>0. Len(s) \in Nat /\ k \in Nat
    BY DEF Text
  <1>1. CASE e = Len(s)
    <2>1. ends = {}
      BY <1>0, <1>1
    <2> QED
      BY <1>1, <2>1 DEF Word
  <1>2. CASE e # Len(s)
    <2>1. e + 1 \in ends /\ \A j \in ends : e + 1 <= j
      BY <1>0, <1>2
    <2>2. ends \in SUBSET Nat /\ ends # {} /\ e + 1 \in Nat
      BY <1>0, <2>1
    <2> HIDE DEF ends
    <2>3. Min(ends) \in ends /\ Min(ends) <= e + 1 /\ e + 1 <= Min(ends)
      BY <2>1, <2>2, MinFacts
    <2>3a. Min(ends) \in Nat
      BY <2>2, <2>3
    <2>4. Min(ends) = e + 1
      BY <2>2, <2>3, <2>3a
    <2>5. Min(ends) - 1 = e
      BY <1>0, <2>4
    <2> QED
      BY <2>2, <2>5 DEF Word, ends
  <1> QED
    BY <1>1, <1>2

\* Every word ends somewhere.
LEMMA WordEnds ==
    ASSUME NEW s \in Text, NEW k \in 1 .. Len(s) + 1
    PROVE  \E e \in k - 1 .. Len(s) :
               (\A j \in k .. e : s[j] # "/") /\ (e = Len(s) \/ s[e + 1] = "/")
  <1> DEFINE ends == {j \in k .. Len(s) : s[j] = "/"}
  <1>0. Len(s) \in Nat /\ k \in Nat \ {0}
    BY DEF Text
  <1>1. CASE ends = {}
    BY <1>0, <1>1
  <1>2. CASE ends # {}
    <2>1. ends \in SUBSET Nat
      BY <1>0
    <2> HIDE DEF ends
    <2>2. PICK m \in ends : \A j \in ends : m <= j
      BY <1>2, <2>1, LeastExists
    <2>3. m - 1 \in k - 1 .. Len(s) /\ s[(m - 1) + 1] = "/"
      BY <1>0, <2>2 DEF ends
    <2>4. \A j \in k .. m - 1 : s[j] # "/"
      BY <1>0, <2>2 DEF ends
    <2> QED
      BY <2>3, <2>4
  <1> QED
    BY <1>1, <1>2

LEMMA WordFacts ==
    ASSUME NEW s \in Text, NEW k \in 1 .. Len(s), s[k] # "/"
    PROVE  Word(s, k) \in Words
  <1>0. Len(s) \in Nat /\ k \in 1 .. Len(s) + 1
    BY DEF Text
  <1>1. PICK e \in k - 1 .. Len(s) :
            (\A j \in k .. e : s[j] # "/") /\ (e = Len(s) \/ s[e + 1] = "/")
    BY <1>0, WordEnds
  <1>2. Word(s, k) = SubSeq(s, k, e)
    BY <1>0, <1>1, WordIs
  <1>3. e >= k /\ e \in Nat
    BY <1>0, <1>1
  <1>4. \A i \in k .. e : s[i] \in Char
    BY <1>0, <1>3 DEF Text
  <1>5. /\ SubSeq(s, k, e) \in Text
        /\ Len(SubSeq(s, k, e)) = e - k + 1
        /\ \A i \in 1 .. e - k + 1 : SubSeq(s, k, e)[i] = s[k + i - 1]
    BY <1>0, <1>3, <1>4, SubSeqProperties DEF Text
  <1>6. ASSUME NEW i \in 1 .. e - k + 1
        PROVE  SubSeq(s, k, e)[i] # "/"
    BY <1>0, <1>1, <1>3, <1>5
  <1>7. SubSeq(s, k, e) # <<>>
    BY <1>0, <1>3, <1>5
  <1> QED
    BY <1>2, <1>5, <1>6, <1>7 DEF Words

LEMMA LastSlashIs ==
    ASSUME NEW p \in Text, NEW m \in 1 .. Len(p), p[m] = "/",
           \A k \in m + 1 .. Len(p) : p[k] # "/"
    PROVE  LastSlash(p) = m
  <1> DEFINE S == {k \in DOMAIN p : p[k] = "/"} \cup {0}
  <1>1. Len(p) \in Nat /\ DOMAIN p = 1 .. Len(p)
    BY DEF Text
  <1>2. S \in SUBSET (0 .. Len(p)) /\ m \in S /\ \A k \in S : k <= m
    BY <1>1
  <1> HIDE DEF S
  <1>3. Max(S) = m
    BY <1>1, <1>2, MaxIs
  <1> QED
    BY <1>3 DEF LastSlash, S

LEMMA LastSlashFacts ==
    ASSUME NEW p \in Abs
    PROVE  /\ LastSlash(p) \in 1 .. Len(p)
           /\ p[LastSlash(p)] = "/"
           /\ \A k \in LastSlash(p) + 1 .. Len(p) : p[k] # "/"
  <1> DEFINE S == {k \in DOMAIN p : p[k] = "/"} \cup {0}
  <1>1. /\ p \in Text /\ Len(p) \in Nat /\ DOMAIN p = 1 .. Len(p)
        /\ p # <<>> /\ p[1] = "/"
    BY DEF Abs, Text
  <1>2. 1 \in 1 .. Len(p)
    BY <1>1 DEF Text
  <1>3. S \in SUBSET (0 .. Len(p)) /\ 1 \in S
    BY <1>1, <1>2
  <1>4. \A k \in S : k # 0 => p[k] = "/"
    OBVIOUS
  <1>5. \A k \in 1 .. Len(p) : p[k] = "/" => k \in S
    BY <1>1
  <1> HIDE DEF S
  <1>6. Max(S) \in S /\ \A k \in S : k <= Max(S)
    BY <1>1, <1>3, MaxFacts
  <1>7. Max(S) \in 1 .. Len(p)
    <2>1. Max(S) \in 0 .. Len(p)
      BY <1>3, <1>6
    <2>2. 1 <= Max(S)
      BY <1>3, <1>6
    <2> QED
      BY <1>1, <2>1, <2>2
  <1>8. LastSlash(p) = Max(S)
    BY DEF LastSlash, S
  <1> QED
    BY <1>1, <1>4, <1>5, <1>6, <1>7, <1>8

-----------------------------------------------------------------------------
(* The steps of a path, and the folds that walk along them.                *)

LEMMA ConcatAbs ==
    ASSUME NEW p \in Abs, NEW t \in Text
    PROVE  p \o t \in Abs
  <1>1. p \in Text /\ t \in Text /\ Len(p) \in Nat \ {0} /\ Len(t) \in Nat /\ p[1] = "/"
    BY EmptySeq DEF Abs, Text
  <1>2. p \o t \in Text /\ Len(p \o t) = Len(p) + Len(t) /\ (p \o t)[1] = p[1]
    BY <1>1, ConcatProperties DEF Text
  <1>3. p \o t # <<>>
    BY <1>1, <1>2
  <1> QED
    BY <1>1, <1>2, <1>3 DEF Abs

LEMMA PrefixAbs ==
    ASSUME NEW p \in Abs, NEW e \in 1 .. Len(p)
    PROVE  SubSeq(p, 1, e) \in Abs /\ Len(SubSeq(p, 1, e)) = e
  <1>1. p \in Text /\ Len(p) \in Nat /\ p[1] = "/" /\ e \in Nat \ {0}
    BY DEF Abs, Text
  <1>2. \A i \in 1 .. e : p[i] \in Char
    BY <1>1 DEF Text
  <1>3. /\ SubSeq(p, 1, e) \in Text /\ Len(SubSeq(p, 1, e)) = e
        /\ SubSeq(p, 1, e)[1] = p[1]
    BY <1>1, <1>2, SubSeqProperties DEF Text
  <1>4. SubSeq(p, 1, e) # <<>>
    BY <1>1, <1>3
  <1> QED
    BY <1>1, <1>3, <1>4 DEF Abs

LEMMA RootAbs == Root \in Abs /\ Root \in Text /\ Len(Root) = 1 /\ Root[1] = "/"
  <1>1. Root \in Text
    BY ShellAssumption DEF Root, Text
  <1>2. Len(Root) = 1 /\ Root[1] = "/" /\ Root # <<>>
    BY DEF Root
  <1> QED
    BY <1>1, <1>2 DEF Abs

LEMMA PwdAbs ==
    ASSUME NEW p \in Abs
    PROVE  Pwd(p) \in Abs
  BY LastSlashFacts, PrefixAbs DEF Pwd, Abs, Text

LEMMA StepAbs ==
    ASSUME NEW p \in Abs, NEW w \in Words
    PROVE  Step(p, w) \in Abs
  <1>1. SubSeq(p, 1, IF LastSlash(p) = 1 THEN 1 ELSE LastSlash(p) - 1) \in Abs
    BY PwdAbs DEF Pwd
  <1>2. (IF Last(p) = "/" THEN p ELSE p \o Root) \o w \in Abs
    BY ConcatAbs, RootAbs DEF Words
  <1> QED
    BY <1>1, <1>2 DEF Step

LEMMA WalkType ==
    ASSUME NEW ns \in Seq(Clean), NEW w \in Words
    PROVE  Walk(ns, w) \in Seq(Clean)
  <1>1. SubSeq(ns, 1, Len(ns) - 1) \in Seq(Clean)
    <2>1. Len(ns) \in Nat /\ \A i \in 1 .. Len(ns) - 1 : ns[i] \in Clean
      OBVIOUS
    <2> QED
      BY <2>1, SubSeqProperties
  <1>2. w \notin {<<".">>, <<".", ".">>} => w \in Clean
    BY DEF Clean
  <1> QED
    BY <1>1, <1>2 DEF Walk

Stepping(q) == [k \in 1 .. Len(q) |-> [p \in Abs |-> Step(p, q[k])]]

LEMMA StepFold ==
    ASSUME NEW b \in Abs, NEW q \in Seq(Words)
    PROVE  \E g \in [0 .. Len(q) -> Abs] :
               Runs(g, Len(q), b, Stepping(q)) /\ FoldLeft(Step, b, q) = g[Len(q)]
  <1> DEFINE n       == Len(q)
             op(x, k) == Step(x, q[k])
             E(h)    == [s \in SUBSET (1 .. n) |->
                            IF s = {} THEN b ELSE op(h[s \ {Max(s)}], Max(s))]
             c       == CHOOSE h : h = E(h)
  <1>1. n \in Nat /\ DOMAIN q = 1 .. n
    BY DEF Text
  <1>2. ASSUME NEW k \in 1 .. n, NEW x \in Abs
        PROVE  op(x, k) \in Abs
    BY <1>1, <1>2, StepAbs
  <1>3. Stepping(q) \in [1 .. n -> [Abs -> Abs]]
    BY <1>2 DEF Stepping
  <1>4. ASSUME NEW k \in 1 .. n, NEW x \in Abs
        PROVE  Stepping(q)[k][x] = op(x, k)
    BY <1>4 DEF Stepping
  <1>5. b \in Abs
    OBVIOUS
  <1>9. FoldLeft(Step, b, q) = c[1 .. n]
    BY <1>1 DEF FoldLeft, MapThenFoldSet
  <1> HIDE DEF n, op
  <1>6. PICK h \in [SUBSET (1 .. n) -> Abs] : Folds(h, n, b, Stepping(q))
    BY <1>1, <1>3, <1>5, FoldExists
  <1>7. h = E(h)
    <2>1. ASSUME NEW s \in SUBSET (1 .. n)
          PROVE  h[s] = IF s = {} THEN b ELSE op(h[s \ {Max(s)}], Max(s))
      <3>1. CASE s = {}
        BY <1>6, <3>1 DEF Folds
      <3>2. CASE s # {}
        <4>1. s \in SUBSET (0 .. n)
          OBVIOUS
        <4>2. Max(s) \in 1 .. n /\ s \ {Max(s)} \in SUBSET (1 .. n)
          BY <1>1, <3>2, <4>1, MaxFacts
        <4>3. h[s \ {Max(s)}] \in Abs
          BY <1>6, <4>2
        <4>4. h[s] = Stepping(q)[Max(s)][h[s \ {Max(s)}]]
          BY <1>6, <3>2 DEF Folds
        <4> QED
          BY <1>4, <3>2, <4>2, <4>3, <4>4
      <3> QED
        BY <3>1, <3>2
    <2> QED
      BY <1>6, <2>1
  <1>8. c = E(c)
    BY <1>7
  <1> HIDE DEF c
  <1>10. c[{}] = b
    BY <1>8
  <1>11. ASSUME NEW k \in 1 .. n, c[1 .. k - 1] \in Abs
         PROVE  c[1 .. k] = Stepping(q)[k][c[1 .. k - 1]]
    <2>0. n \in Nat /\ k \in 1 .. n
      BY <1>1
    <2>1. k \in Nat \ {0} /\ \A j \in 1 .. k : j \in 1 .. n
      BY <2>0
    <2>1a. 1 .. k \in SUBSET (1 .. n)
      BY <2>1
    <2>1b. 1 .. k # {}
      BY <2>1
    <2>2. Max(1 .. k) = k /\ (1 .. k) \ {k} = 1 .. k - 1
      BY <2>1, MaxOfPrefix
    <2>3. c[1 .. k] = op(c[(1 .. k) \ {Max(1 .. k)}], Max(1 .. k))
      BY <1>8, <2>1a, <2>1b
    <2> QED
      BY <1>4, <1>11, <2>2, <2>3
  <1>12. Steps(c, n, Abs, Stepping(q))
    BY <1>11 DEF Steps
  <1>13. \E g \in [0 .. n -> Abs] : Runs(g, n, b, Stepping(q)) /\ c[1 .. n] = g[n]
    BY <1>1, <1>3, <1>5, <1>10, <1>12, PrefixRuns
  <1> QED
    BY <1>9, <1>13 DEF n

Walking(q) == [k \in 1 .. Len(q) |-> [ns \in Seq(Clean) |-> Walk(ns, q[k])]]

LEMMA WalkFold ==
    ASSUME NEW b \in Seq(Clean), NEW q \in Seq(Words)
    PROVE  \E g \in [0 .. Len(q) -> Seq(Clean)] :
               Runs(g, Len(q), b, Walking(q)) /\ FoldLeft(Walk, b, q) = g[Len(q)]
  <1> DEFINE n       == Len(q)
             op(x, k) == Walk(x, q[k])
             E(h)    == [s \in SUBSET (1 .. n) |->
                            IF s = {} THEN b ELSE op(h[s \ {Max(s)}], Max(s))]
             c       == CHOOSE h : h = E(h)
  <1>1. n \in Nat /\ DOMAIN q = 1 .. n
    BY DEF Text
  <1>2. ASSUME NEW k \in 1 .. n, NEW x \in Seq(Clean)
        PROVE  op(x, k) \in Seq(Clean)
    BY <1>1, <1>2, WalkType
  <1>3. Walking(q) \in [1 .. n -> [Seq(Clean) -> Seq(Clean)]]
    BY <1>2 DEF Walking
  <1>4. ASSUME NEW k \in 1 .. n, NEW x \in Seq(Clean)
        PROVE  Walking(q)[k][x] = op(x, k)
    BY <1>4 DEF Walking
  <1>5. b \in Seq(Clean)
    OBVIOUS
  <1>9. FoldLeft(Walk, b, q) = c[1 .. n]
    BY <1>1 DEF FoldLeft, MapThenFoldSet
  <1> HIDE DEF n, op
  <1>6. PICK h \in [SUBSET (1 .. n) -> Seq(Clean)] : Folds(h, n, b, Walking(q))
    BY <1>1, <1>3, <1>5, FoldExists
  <1>7. h = E(h)
    <2>1. ASSUME NEW s \in SUBSET (1 .. n)
          PROVE  h[s] = IF s = {} THEN b ELSE op(h[s \ {Max(s)}], Max(s))
      <3>1. CASE s = {}
        BY <1>6, <3>1 DEF Folds
      <3>2. CASE s # {}
        <4>1. s \in SUBSET (0 .. n)
          OBVIOUS
        <4>2. Max(s) \in 1 .. n /\ s \ {Max(s)} \in SUBSET (1 .. n)
          BY <1>1, <3>2, <4>1, MaxFacts
        <4>3. h[s \ {Max(s)}] \in Seq(Clean)
          BY <1>6, <4>2
        <4>4. h[s] = Walking(q)[Max(s)][h[s \ {Max(s)}]]
          BY <1>6, <3>2 DEF Folds
        <4> QED
          BY <1>4, <3>2, <4>2, <4>3, <4>4
      <3> QED
        BY <3>1, <3>2
    <2> QED
      BY <1>6, <2>1
  <1>8. c = E(c)
    BY <1>7
  <1> HIDE DEF c
  <1>10. c[{}] = b
    BY <1>8
  <1>11. ASSUME NEW k \in 1 .. n, c[1 .. k - 1] \in Seq(Clean)
         PROVE  c[1 .. k] = Walking(q)[k][c[1 .. k - 1]]
    <2>0. n \in Nat /\ k \in 1 .. n
      BY <1>1
    <2>1. k \in Nat \ {0} /\ \A j \in 1 .. k : j \in 1 .. n
      BY <2>0
    <2>1a. 1 .. k \in SUBSET (1 .. n)
      BY <2>1
    <2>1b. 1 .. k # {}
      BY <2>1
    <2>2. Max(1 .. k) = k /\ (1 .. k) \ {k} = 1 .. k - 1
      BY <2>1, MaxOfPrefix
    <2>3. c[1 .. k] = op(c[(1 .. k) \ {Max(1 .. k)}], Max(1 .. k))
      BY <1>8, <2>1a, <2>1b
    <2> QED
      BY <1>4, <1>11, <2>2, <2>3
  <1>12. Steps(c, n, Seq(Clean), Walking(q))
    BY <1>11 DEF Steps
  <1>13. \E g \in [0 .. n -> Seq(Clean)] : Runs(g, n, b, Walking(q)) /\ c[1 .. n] = g[n]
    BY <1>1, <1>3, <1>5, <1>10, <1>12, PrefixRuns, SMTT(30)
  <1> QED
    BY <1>9, <1>13 DEF n

\* The characters of a list of names.
Flat(ns) == FoldLeft(LAMBDA path, name : path \o Root \o name, <<>>, ns)

Spelling(q) == [k \in 1 .. Len(q) |-> [p \in Text |-> p \o Root \o q[k]]]

LEMMA FlatFold ==
    ASSUME NEW q \in Seq(Words)
    PROVE  \E g \in [0 .. Len(q) -> Text] :
               Runs(g, Len(q), <<>>, Spelling(q)) /\ Flat(q) = g[Len(q)]
  <1> DEFINE n       == Len(q)
             op(x, k) == x \o Root \o q[k]
             E(h)    == [s \in SUBSET (1 .. n) |->
                            IF s = {} THEN <<>> ELSE op(h[s \ {Max(s)}], Max(s))]
             c       == CHOOSE h : h = E(h)
  <1>1. n \in Nat /\ DOMAIN q = 1 .. n
    BY DEF Text
  <1>2. ASSUME NEW k \in 1 .. n, NEW x \in Text
        PROVE  op(x, k) \in Text
    BY <1>1, <1>2, RootAbs DEF Words, Text
  <1>3. Spelling(q) \in [1 .. n -> [Text -> Text]]
    BY <1>2 DEF Spelling
  <1>4. ASSUME NEW k \in 1 .. n, NEW x \in Text
        PROVE  Spelling(q)[k][x] = op(x, k)
    BY <1>4 DEF Spelling
  <1>5. <<>> \in Text
    BY EmptySeq DEF Text
  <1>9. Flat(q) = c[1 .. n]
    BY <1>1 DEF Flat, FoldLeft, MapThenFoldSet
  <1> HIDE DEF n, op
  <1>6. PICK h \in [SUBSET (1 .. n) -> Text] : Folds(h, n, <<>>, Spelling(q))
    BY <1>1, <1>3, <1>5, FoldExists
  <1>7. h = E(h)
    <2>1. ASSUME NEW s \in SUBSET (1 .. n)
          PROVE  h[s] = IF s = {} THEN <<>> ELSE op(h[s \ {Max(s)}], Max(s))
      <3>1. CASE s = {}
        BY <1>6, <3>1 DEF Folds
      <3>2. CASE s # {}
        <4>1. s \in SUBSET (0 .. n)
          OBVIOUS
        <4>2. Max(s) \in 1 .. n /\ s \ {Max(s)} \in SUBSET (1 .. n)
          BY <1>1, <3>2, <4>1, MaxFacts
        <4>3. h[s \ {Max(s)}] \in Text
          BY <1>6, <4>2
        <4>4. h[s] = Spelling(q)[Max(s)][h[s \ {Max(s)}]]
          BY <1>6, <3>2 DEF Folds
        <4> QED
          BY <1>4, <3>2, <4>2, <4>3, <4>4
      <3> QED
        BY <3>1, <3>2
    <2> QED
      BY <1>6, <2>1
  <1>8. c = E(c)
    BY <1>7
  <1> HIDE DEF c
  <1>10. c[{}] = <<>>
    BY <1>8
  <1>11. ASSUME NEW k \in 1 .. n, c[1 .. k - 1] \in Text
         PROVE  c[1 .. k] = Spelling(q)[k][c[1 .. k - 1]]
    <2>0. n \in Nat /\ k \in 1 .. n
      BY <1>1
    <2>1. k \in Nat \ {0} /\ \A j \in 1 .. k : j \in 1 .. n
      BY <2>0
    <2>1a. 1 .. k \in SUBSET (1 .. n)
      BY <2>1
    <2>1b. 1 .. k # {}
      BY <2>1
    <2>2. Max(1 .. k) = k /\ (1 .. k) \ {k} = 1 .. k - 1
      BY <2>1, MaxOfPrefix
    <2>3. c[1 .. k] = op(c[(1 .. k) \ {Max(1 .. k)}], Max(1 .. k))
      BY <1>8, <2>1a, <2>1b
    <2> QED
      BY <1>4, <1>11, <2>2, <2>3
  <1>12. Steps(c, n, Text, Spelling(q))
    BY <1>11 DEF Steps
  <1>13. \E g \in [0 .. n -> Text] : Runs(g, n, <<>>, Spelling(q)) /\ c[1 .. n] = g[n]
    BY <1>1, <1>3, <1>5, <1>10, <1>12, PrefixRuns, SMTT(30)
  <1> QED
    BY <1>9, <1>13 DEF n

\* The lists of words.
Lists == Seq(Words)

Naming(q) == [k \in 1 .. Len(q) |-> [ns \in Lists |->
                 IF Starts(q, k) THEN Append(ns, Word(q, k)) ELSE ns]]

LEMMA NamesFold ==
    ASSUME NEW q \in Text
    PROVE  \E g \in [0 .. Len(q) -> Lists] :
               Runs(g, Len(q), <<>>, Naming(q)) /\ str_process(q) = g[Len(q)]
  <1> DEFINE n       == Len(q)
             idx     == [i \in DOMAIN q |-> i]
             op(x, k) == IF Starts(q, idx[k]) THEN Append(x, Word(q, idx[k])) ELSE x
             E(h)    == [s \in SUBSET (1 .. n) |->
                            IF s = {} THEN <<>> ELSE op(h[s \ {Max(s)}], Max(s))]
             c       == CHOOSE h : h = E(h)
  <1>1. n \in Nat /\ DOMAIN q = 1 .. n
    BY DEF Text
  <1>1a. DOMAIN idx = 1 .. n /\ \A k \in 1 .. n : idx[k] = k
    BY <1>1
  <1>1b. str_process(q) = FoldLeft(LAMBDA argv, k :
             IF Starts(q, k) THEN Append(argv, Word(q, k)) ELSE argv, <<>>, idx)
    BY DEF str_process, FoldLeftDomain
  <1> HIDE DEF idx
  <1>2. ASSUME NEW k \in 1 .. n, NEW x \in Lists
        PROVE  op(x, k) \in Lists
    BY <1>1, <1>1a, <1>2, WordFacts DEF Starts, Text, Lists
  <1>3. Naming(q) \in [1 .. n -> [Lists -> Lists]]
    BY <1>1a, <1>2 DEF Naming
  <1>4. ASSUME NEW k \in 1 .. n, NEW x \in Lists
        PROVE  Naming(q)[k][x] = op(x, k)
    BY <1>1a, <1>4 DEF Naming
  <1>5. <<>> \in Lists
    BY DEF Lists
  <1>9. str_process(q) = c[1 .. n]
    BY <1>1a, <1>1b DEF FoldLeft, MapThenFoldSet
  <1> HIDE DEF n, op
  <1>6. PICK h \in [SUBSET (1 .. n) -> Lists] : Folds(h, n, <<>>, Naming(q))
    BY <1>1, <1>3, <1>5, FoldExists
  <1>7. h = E(h)
    <2>1. ASSUME NEW s \in SUBSET (1 .. n)
          PROVE  h[s] = IF s = {} THEN <<>> ELSE op(h[s \ {Max(s)}], Max(s))
      <3>1. CASE s = {}
        BY <1>6, <3>1 DEF Folds
      <3>2. CASE s # {}
        <4>1. s \in SUBSET (0 .. n)
          OBVIOUS
        <4>2. Max(s) \in 1 .. n /\ s \ {Max(s)} \in SUBSET (1 .. n)
          BY <1>1, <3>2, <4>1, MaxFacts
        <4>3. h[s \ {Max(s)}] \in Lists
          BY <1>6, <4>2
        <4>4. h[s] = Naming(q)[Max(s)][h[s \ {Max(s)}]]
          BY <1>6, <3>2 DEF Folds
        <4> QED
          BY <1>4, <3>2, <4>2, <4>3, <4>4
      <3> QED
        BY <3>1, <3>2
    <2> QED
      BY <1>6, <2>1
  <1>8. c = E(c)
    BY <1>7
  <1> HIDE DEF c
  <1>10. c[{}] = <<>>
    BY <1>8
  <1>11. ASSUME NEW k \in 1 .. n, c[1 .. k - 1] \in Lists
         PROVE  c[1 .. k] = Naming(q)[k][c[1 .. k - 1]]
    <2>0. n \in Nat /\ k \in 1 .. n
      BY <1>1
    <2>1. k \in Nat \ {0} /\ \A j \in 1 .. k : j \in 1 .. n
      BY <2>0
    <2>1a. 1 .. k \in SUBSET (1 .. n)
      BY <2>1
    <2>1b. 1 .. k # {}
      BY <2>1
    <2>2. Max(1 .. k) = k /\ (1 .. k) \ {k} = 1 .. k - 1
      BY <2>1, MaxOfPrefix
    <2>3. c[1 .. k] = op(c[(1 .. k) \ {Max(1 .. k)}], Max(1 .. k))
      BY <1>8, <2>1a, <2>1b
    <2> QED
      BY <1>4, <1>11, <2>2, <2>3
  <1>12. Steps(c, n, Lists, Naming(q))
    BY <1>11 DEF Steps
  <1>13. \E g \in [0 .. n -> Lists] : Runs(g, n, <<>>, Naming(q)) /\ c[1 .. n] = g[n]
    BY <1>1, <1>3, <1>5, <1>10, <1>12, PrefixRuns, SMTT(30)
  <1> QED
    BY <1>9, <1>13 DEF n

\* The first m steps of G and F are the same.
Agree(F, G, m, A) == \A k \in 1 .. m : \A x \in A : G[k][x] = F[k][x]

\* A run is settled by its steps, and so are its first steps.
LEMMA RunsPrefix ==
    ASSUME NEW n \in Nat, NEW m \in 0 .. n, NEW A, NEW b, NEW F, NEW G,
           NEW g \in [0 .. n -> A], NEW h,
           Runs(g, n, b, G), Runs(h, m, b, F),
           Agree(F, G, m, A)
    PROVE  \A k \in 0 .. m : g[k] = h[k]
  <1>0. m \in Nat
    OBVIOUS
  <1>1. ASSUME NEW k \in 1 .. m
        PROVE  g[k] = F[k][g[k - 1]]
    <2>1. k \in 1 .. n /\ k - 1 \in 0 .. n
      BY <1>0
    <2> QED
      BY <2>1 DEF Runs, Agree
  <1>2. g[0] = b
    BY DEF Runs
  <1>3. Runs(g, m, b, F)
    BY <1>1, <1>2 DEF Runs
  <1> QED
    BY <1>0, <1>3, RunsUnique

-----------------------------------------------------------------------------
(* Spelling.                                                               *)

LEMMA FlatEmpty == Flat(<<>>) = <<>>
  <1>1. <<>> \in Seq(Words) /\ Len(<<>>) = 0
    OBVIOUS
  <1>2. PICK g \in [0 .. Len(<<>>) -> Text] :
            Runs(g, Len(<<>>), <<>>, Spelling(<<>>)) /\ Flat(<<>>) = g[Len(<<>>)]
    BY <1>1, FlatFold
  <1> QED
    BY <1>1, <1>2 DEF Runs

LEMMA FlatAppend ==
    ASSUME NEW ns \in Seq(Words), NEW w \in Words
    PROVE  Flat(ns) \in Text /\ Flat(Append(ns, w)) = Flat(ns) \o Root \o w
  <1> DEFINE q == Append(ns, w)
             n == Len(ns)
  <1>1. /\ q \in Seq(Words) /\ Len(q) = n + 1 /\ n \in Nat
        /\ q[n + 1] = w /\ \A k \in 1 .. n : q[k] = ns[k]
    OBVIOUS
  <1>2. PICK g \in [0 .. Len(q) -> Text] :
            Runs(g, Len(q), <<>>, Spelling(q)) /\ Flat(q) = g[Len(q)]
    BY <1>1, FlatFold
  <1>3. PICK h \in [0 .. n -> Text] :
            Runs(h, n, <<>>, Spelling(ns)) /\ Flat(ns) = h[n]
    BY FlatFold
  <1> HIDE DEF q, n
  <1>4. Agree(Spelling(ns), Spelling(q), n, Text)
    <2>1. ASSUME NEW k \in 1 .. n, NEW x \in Text
          PROVE  Spelling(q)[k][x] = Spelling(ns)[k][x]
      <3>1. k \in 1 .. Len(q) /\ q[k] = ns[k]
        BY <1>1
      <3>2. Spelling(q)[k][x] = x \o Root \o q[k]
        BY <3>1 DEF Spelling
      <3>3. Spelling(ns)[k][x] = x \o Root \o ns[k]
        BY <3>1 DEF Spelling, n
      <3> QED
        BY <3>1, <3>2, <3>3
    <2> QED
      BY <2>1 DEF Agree
  <1>5. Len(q) \in Nat /\ n \in 0 .. Len(q) /\ n \in 0 .. n /\ n + 1 \in 1 .. n + 1
    BY <1>1
  <1>6. g[n] = h[n]
    BY <1>2, <1>3, <1>4, <1>5, RunsPrefix
  <1>7. g[n + 1] = Spelling(q)[n + 1][g[(n + 1) - 1]] /\ (n + 1) - 1 = n
    BY <1>1, <1>2, <1>5 DEF Runs
  <1>8. h[n] \in Text
    BY <1>3, <1>5
  <1>9. Spelling(q)[n + 1][h[n]] = h[n] \o Root \o w
    BY <1>1, <1>5, <1>8 DEF Spelling
  <1> QED
    BY <1>1, <1>2, <1>3, <1>6, <1>7, <1>8, <1>9 DEF q

\* A slash between two parts.
LEMMA Slashed ==
    ASSUME NEW p \in Text, NEW w \in Text
    PROVE  /\ p \o Root \o w \in Text
           /\ Len(p \o Root \o w) = Len(p) + 1 + Len(w)
           /\ \A k \in 1 .. Len(p) : (p \o Root \o w)[k] = p[k]
           /\ (p \o Root \o w)[Len(p) + 1] = "/"
           /\ \A k \in 1 .. Len(w) : (p \o Root \o w)[Len(p) + 1 + k] = w[k]
  <1>1. /\ p \in Seq(Char) /\ w \in Seq(Char) /\ Root \in Seq(Char)
        /\ Len(Root) = 1 /\ Root[1] = "/" /\ Len(p) \in Nat /\ Len(w) \in Nat
    BY RootAbs DEF Text
  <1> DEFINE r == p \o Root
  <1>2. /\ r \in Seq(Char)
        /\ Len(r) = Len(p) + Len(Root)
        /\ \A k \in 1 .. Len(p) + Len(Root) :
               r[k] = IF k <= Len(p) THEN p[k] ELSE Root[k - Len(p)]
    BY <1>1, ConcatProperties
  <1>3. Len(r) = Len(p) + 1 /\ r[Len(p) + 1] = "/" /\ \A k \in 1 .. Len(p) : r[k] = p[k]
    <2>1. Len(p) + 1 \in 1 .. Len(p) + Len(Root) /\ ~(Len(p) + 1 <= Len(p))
          /\ (Len(p) + 1) - Len(p) = 1
      BY <1>1
    <2>2. r[Len(p) + 1] = "/"
      BY <1>1, <1>2, <2>1
    <2>3. ASSUME NEW k \in 1 .. Len(p) PROVE r[k] = p[k]
      <3>1. k \in 1 .. Len(p) + Len(Root) /\ k <= Len(p)
        BY <1>1
      <3> QED
        BY <1>2, <3>1
    <2> QED
      BY <1>1, <1>2, <2>2, <2>3
  <1> HIDE DEF r
  <1>4. /\ r \o w \in Seq(Char)
        /\ Len(r \o w) = Len(r) + Len(w)
        /\ \A k \in 1 .. Len(r) + Len(w) :
               (r \o w)[k] = IF k <= Len(r) THEN r[k] ELSE w[k - Len(r)]
    <2>1. r \in Seq(Char) /\ w \in Seq(Char)
      BY <1>1, <1>2
    <2> QED
      BY <2>1, ConcatProperties
  <1>5. (r \o w)[Len(p) + 1] = "/" /\ \A k \in 1 .. Len(p) : (r \o w)[k] = p[k]
    BY <1>1, <1>3, <1>4
  <1>6. \A k \in 1 .. Len(w) : (r \o w)[Len(p) + 1 + k] = w[k]
    BY <1>1, <1>3, <1>4
  <1> QED
    BY <1>3, <1>4, <1>5, <1>6 DEF r, Text

\* What comes before a slash and a word is read as if nothing came after it.
LEMMA NamesAppend ==
    ASSUME NEW p \in Text, NEW w \in Words
    PROVE  str_process(p \o Root \o w) = Append(str_process(p), w)
  <1> DEFINE q == p \o Root \o w
             n == Len(p)
             m == Len(w)
  <1>1. /\ q \in Text /\ n \in Nat /\ m \in Nat \ {0} /\ Len(q) = n + 1 + m
        /\ \A k \in 1 .. n : q[k] = p[k]
        /\ q[n + 1] = "/"
        /\ \A k \in 1 .. m : q[n + 1 + k] = w[k]
    <2>1. w \in Text /\ p \in Seq(Char) /\ w \in Seq(Char) /\ w # <<>>
      BY DEF Words, Text
    <2>2. n \in Nat /\ m \in Nat \ {0}
      BY <2>1, EmptySeq
    <2> QED
      BY <2>1, <2>2, Slashed
  <1> HIDE DEF q, n, m
  <1>2. PICK g \in [0 .. Len(q) -> Lists] :
            Runs(g, Len(q), <<>>, Naming(q)) /\ str_process(q) = g[Len(q)]
    BY <1>1, NamesFold
  <1>3. PICK h \in [0 .. n -> Lists] :
            Runs(h, n, <<>>, Naming(p)) /\ str_process(p) = h[n]
    BY NamesFold DEF n
  <1>4. ASSUME NEW k \in 1 .. n
        PROVE  /\ Starts(q, k) <=> Starts(p, k)
               /\ Word(q, k) = Word(p, k)
    <2>1. Starts(q, k) <=> Starts(p, k)
      BY <1>1 DEF Starts
    <2>2. k \in 1 .. Len(p) + 1 /\ Len(p) = n
      BY <1>1 DEF n
    <2>3. PICK e \in k - 1 .. Len(p) :
              (\A j \in k .. e : p[j] # "/") /\ (e = Len(p) \/ p[e + 1] = "/")
      BY <2>2, WordEnds
    <2>4. Word(p, k) = SubSeq(p, k, e)
      BY <2>2, <2>3, WordIs
    <2>5. e \in k - 1 .. Len(q) /\ k \in 1 .. Len(q) + 1 /\ e \in Nat
      BY <1>1, <2>2, <2>3
    <2>6. \A j \in k .. e : q[j] # "/"
      BY <1>1, <2>2, <2>3, <2>5
    <2>7. q[e + 1] = "/"
      BY <1>1, <2>2, <2>3, <2>5
    <2>8. Word(q, k) = SubSeq(q, k, e)
      BY <1>1, <2>5, <2>6, <2>7, WordIs
    <2>9. SubSeq(q, k, e) = SubSeq(p, k, e)
      <3>1. /\ Len(SubSeq(q, k, e)) = e - k + 1
            /\ Len(SubSeq(p, k, e)) = e - k + 1
            /\ SubSeq(q, k, e) \in Seq(Char) /\ SubSeq(p, k, e) \in Seq(Char)
        BY <1>1, <2>2, <2>3, <2>5, SubSeqProperties DEF Text
      <3>2. ASSUME NEW i \in 1 .. e - k + 1
            PROVE  SubSeq(q, k, e)[i] = SubSeq(p, k, e)[i]
        <4>1. k + i - 1 \in 1 .. n
          BY <1>1, <2>2, <2>3, <2>5
        <4>2. SubSeq(q, k, e)[i] = q[k + i - 1] /\ SubSeq(p, k, e)[i] = p[k + i - 1]
          BY <1>1, <2>2, <2>3, <2>5, SubSeqProperties DEF Text
        <4> QED
          BY <1>1, <4>1, <4>2
      <3> QED
        BY <3>1, <3>2, SeqEqual
    <2> QED
      BY <2>1, <2>4, <2>8, <2>9
  <1>5. Agree(Naming(p), Naming(q), n, Lists)
    <2>1. ASSUME NEW k \in 1 .. n, NEW x \in Lists
          PROVE  Naming(q)[k][x] = Naming(p)[k][x]
      <3>1. k \in 1 .. Len(q) /\ k \in 1 .. Len(p)
        BY <1>1 DEF n
      <3> QED
        BY <1>4, <3>1 DEF Naming
    <2> QED
      BY <2>1 DEF Agree
  <1>6. Len(q) \in Nat /\ n \in 0 .. Len(q) /\ n \in 0 .. n /\ n + 1 \in 1 .. Len(q)
        /\ n + 2 \in 1 .. Len(q) /\ n + 1 \in 0 .. Len(q)
    BY <1>1
  <1>7. g[n] = str_process(p)
    BY <1>1, <1>2, <1>3, <1>5, <1>6, RunsPrefix
  <1>8. \A k \in 1 .. Len(q) :
            g[k] = IF Starts(q, k) THEN Append(g[k - 1], Word(q, k)) ELSE g[k - 1]
    <2>1. ASSUME NEW k \in 1 .. Len(q)
          PROVE  g[k] = IF Starts(q, k) THEN Append(g[k - 1], Word(q, k)) ELSE g[k - 1]
      <3>1. k - 1 \in 0 .. Len(q)
        BY <1>6
      <3>2. g[k - 1] \in Lists
        BY <1>2, <3>1
      <3>3. g[k] = Naming(q)[k][g[k - 1]]
        BY <1>2 DEF Runs
      <3> QED
        BY <3>2, <3>3 DEF Naming
    <2> QED
      BY <2>1
  <1>9. g[n + 1] = g[n]
    <2>1. ~Starts(q, n + 1) /\ (n + 1) - 1 = n
      BY <1>1 DEF Starts
    <2> QED
      BY <1>6, <1>8, <2>1
  <1>10. g[n + 2] = Append(g[n + 1], w)
    <2>1. (n + 2) - 1 = n + 1 /\ n + 2 # 1 /\ n + 2 = n + 1 + 1
      BY <1>1
    <2>2. \A j \in n + 2 .. Len(q) : q[j] # "/"
      <3>1. ASSUME NEW j \in n + 2 .. Len(q)
            PROVE  q[j] # "/"
        <4>1. j - n - 1 \in 1 .. m /\ n + 1 + (j - n - 1) = j
          BY <1>1
        <4>2. q[n + 1 + (j - n - 1)] = w[j - n - 1] /\ w[j - n - 1] # "/"
          BY <1>1, <4>1 DEF Words, m
        <4> QED
          BY <4>1, <4>2
      <3> QED
        BY <3>1
    <2>3. Starts(q, n + 2)
      BY <1>1, <1>6, <2>1, <2>2 DEF Starts
    <2>4. Word(q, n + 2) = SubSeq(q, n + 2, Len(q))
      <3>1. n + 2 \in 1 .. Len(q) + 1 /\ Len(q) \in (n + 2) - 1 .. Len(q)
        BY <1>1
      <3> QED
        BY <1>1, <2>2, <3>1, WordIs
    <2>5. SubSeq(q, n + 2, Len(q)) = w
      <3>1. w \in Seq(Char) /\ q \in Seq(Char)
        BY <1>1 DEF Words, Text
      <3>2. /\ SubSeq(q, n + 2, Len(q)) \in Seq(Char)
            /\ Len(SubSeq(q, n + 2, Len(q))) = m
        BY <1>1, <3>1, SubSeqProperties
      <3>3. ASSUME NEW i \in 1 .. m
            PROVE  SubSeq(q, n + 2, Len(q))[i] = w[i]
        <4>1. SubSeq(q, n + 2, Len(q))[i] = q[n + 2 + i - 1]
          BY <1>1, <3>1, SubSeqProperties
        <4>2. n + 2 + i - 1 = n + 1 + i
          BY <1>1
        <4> QED
          BY <1>1, <4>1, <4>2
      <3> QED
        BY <3>1, <3>2, <3>3, SeqEqual DEF m
    <2> QED
      BY <1>6, <1>8, <2>1, <2>3, <2>4, <2>5
  <1>11. \A k \in 0 .. m - 1 : g[n + 2 + k] = g[n + 2]
    <2> DEFINE S == {k \in 0 .. m - 1 : g[n + 2 + k] = g[n + 2]}
    <2>0. m - 1 \in Nat
      BY <1>1
    <2>1. 0 \in S
      BY <1>1
    <2>2. ASSUME NEW k \in 0 .. (m - 1) - 1, k \in S
          PROVE  k + 1 \in S
      <3>1. /\ n + 2 + (k + 1) \in 1 .. Len(q) /\ n + 2 + (k + 1) # 1
            /\ (n + 2 + (k + 1)) - 1 = n + 2 + k
            /\ k + 1 \in 1 .. m /\ n + 1 + (k + 1) = n + 2 + k /\ k + 1 \in 0 .. m - 1
        BY <1>1
      <3>2. q[n + 2 + k] = w[k + 1] /\ w[k + 1] # "/"
        BY <1>1, <3>1 DEF Words, m
      <3>3. ~Starts(q, n + 2 + (k + 1))
        BY <3>1, <3>2 DEF Starts
      <3>4. g[n + 2 + (k + 1)] = g[n + 2 + k]
        BY <1>8, <3>1, <3>3
      <3> QED
        BY <2>2, <3>1, <3>4
    <2> HIDE DEF S
    <2>3. \A k \in 0 .. m - 1 : k \in S
      BY <2>0, <2>1, <2>2, UpTo
    <2> QED
      BY <2>3 DEF S
  <1>12. g[Len(q)] = g[n + 2]
    <2>1. m - 1 \in 0 .. m - 1 /\ n + 2 + (m - 1) = Len(q)
      BY <1>1
    <2> QED
      BY <1>11, <2>1
  <1> QED
    BY <1>2, <1>7, <1>9, <1>10, <1>12 DEF q

LEMMA NamesEmpty == str_process(<<>>) = <<>> /\ str_process(Root) = <<>>
  <1>1. str_process(<<>>) = <<>>
    <2>1. <<>> \in Text /\ Len(<<>>) = 0
      BY DEF Text
    <2>2. PICK g \in [0 .. Len(<<>>) -> Lists] :
              Runs(g, Len(<<>>), <<>>, Naming(<<>>)) /\ str_process(<<>>) = g[Len(<<>>)]
      BY <2>1, NamesFold
    <2> QED
      BY <2>1, <2>2 DEF Runs
  <1>2. str_process(Root) = <<>>
    <2>1. PICK g \in [0 .. 1 -> Lists] :
              Runs(g, 1, <<>>, Naming(Root)) /\ str_process(Root) = g[1]
      BY RootAbs, NamesFold
    <2>2. g[0] = <<>> /\ g[1] = Naming(Root)[1][g[0]]
      BY <2>1 DEF Runs
    <2>3. g[0] \in Lists /\ ~Starts(Root, 1)
      BY <2>1, RootAbs DEF Starts
    <2> QED
      BY <2>1, <2>2, <2>3, RootAbs DEF Naming
  <1> QED
    BY <1>1, <1>2

LEMMA NamesType ==
    ASSUME NEW p \in Text
    PROVE  str_process(p) \in Seq(Words)
  <1>1. Len(p) \in 0 .. Len(p)
    BY DEF Text
  <1> QED
    BY <1>1, NamesFold DEF Lists

\* The names of the characters are the names that were spelled.
LEMMA FlatNames ==
    ASSUME NEW ns \in Seq(Words)
    PROVE  /\ Flat(ns) \in Text
           /\ str_process(Flat(ns)) = ns
           /\ ns # <<>> => Flat(ns) \in Abs
  <1> DEFINE P(q) == /\ Flat(q) \in Text
                     /\ str_process(Flat(q)) = q
                     /\ q # <<>> => Flat(q) \in Abs
             S == {n \in Nat : \A q \in Seq(Words) : Len(q) = n => P(q)}
  <1>1. 0 \in S
    <2>1. ASSUME NEW q \in Seq(Words), Len(q) = 0
          PROVE  q = <<>>
      BY <2>1, EmptySeq
    <2>2. P(<<>>)
      <3>1. <<>> \in Text
        BY DEF Text
      <3> QED
        BY <3>1, FlatEmpty, NamesEmpty
    <2> QED
      BY <2>1, <2>2
  <1>2. ASSUME NEW n \in Nat, n \in S
        PROVE  n + 1 \in S
    <2>1. ASSUME NEW q \in Seq(Words), Len(q) = n + 1
          PROVE  P(q)
      <3> DEFINE r == SubSeq(q, 1, n)
                 w == q[n + 1]
      <3>1. r \in Seq(Words) /\ Len(r) = n /\ w \in Words /\ q = Append(r, w)
        BY <2>1
      <3>2. P(r)
        BY <1>2, <3>1
      <3> HIDE DEF r, w
      <3>3. Flat(q) = Flat(r) \o Root \o w
        BY <3>1, FlatAppend
      <3>4. str_process(Flat(q)) = q
        BY <3>1, <3>2, <3>3, NamesAppend
      <3>5. w \in Text
        BY <3>1 DEF Words
      <3>6. Flat(q) \in Text
        BY <3>2, <3>3, <3>5, Slashed
      <3>7. Flat(q) \in Abs
        <4>1. Len(Flat(r)) \in Nat /\ Len(w) \in Nat
          BY <3>2, <3>5 DEF Text
        <4>2. /\ Len(Flat(q)) = Len(Flat(r)) + 1 + Len(w)
              /\ Flat(q)[Len(Flat(r)) + 1] = "/"
          <5>1. /\ Len(Flat(r) \o Root \o w) = Len(Flat(r)) + 1 + Len(w)
                /\ (Flat(r) \o Root \o w)[Len(Flat(r)) + 1] = "/"
            BY <3>2, <3>5, Slashed
          <5> QED
            BY <3>3, <5>1
        <4>3. Flat(q) # <<>>
          BY <4>1, <4>2
        <4>4. CASE Flat(r) = <<>>
          <5>1. Len(Flat(r)) = 0
            BY <4>4
          <5> QED
            BY <3>6, <4>2, <4>3, <5>1 DEF Abs
        <4>5. CASE Flat(r) # <<>>
          <5>1. r # <<>>
            BY <4>5, FlatEmpty
          <5>2. Flat(r)[1] = "/" /\ 1 \in 1 .. Len(Flat(r))
            <6>1. Len(Flat(r)) # 0
              BY <3>2, <4>5, EmptySeq DEF Text
            <6> QED
              BY <3>2, <4>1, <5>1, <6>1 DEF Abs
          <5>3. Flat(q)[1] = "/"
            BY <3>2, <3>3, <3>5, <5>2, Slashed
          <5> QED
            BY <3>6, <4>3, <5>3 DEF Abs
        <4> QED
          BY <4>4, <4>5
      <3> QED
        BY <3>4, <3>6, <3>7
    <2> QED
      BY <2>1
  <1> HIDE DEF S
  <1>3. \A k \in 0 .. Len(ns) : k \in S
    <2>1. Len(ns) \in Nat /\ \A k \in 0 .. Len(ns) - 1 : k \in S => k + 1 \in S
      BY <1>2
    <2> QED
      BY <1>1, <2>1, UpTo
  <1>4. Len(ns) \in S
    BY <1>3
  <1> QED
    BY <1>4 DEF S

\* The same for the path, the root included.
LEMMA SpellFacts ==
    ASSUME NEW ns \in Seq(Words)
    PROVE  /\ Spell(ns) \in Abs
           /\ Names(Spell(ns)) = ns
           /\ ns # <<>> => Spell(ns) = Flat(ns)
  <1>1. ns # <<>> => Spell(ns) = Flat(ns)
    BY DEF Spell, Flat
  <1>2. CASE ns = <<>>
    BY <1>2, NamesEmpty, RootAbs DEF Spell, Names
  <1>3. CASE ns # <<>>
    BY <1>1, <1>3, FlatNames DEF Names
  <1> QED
    BY <1>1, <1>2, <1>3

\* A path is in normal form when it is spelled from names that are neither "."
\* nor "..".
LEMMA NormalSpelled ==
    ASSUME NEW p \in Text
    PROVE  Normal(p) <=> \E ns \in Seq(Clean) : p = Spell(ns)
  <1>1. ASSUME Normal(p)
        PROVE  \E ns \in Seq(Clean) : p = Spell(ns)
    <2>1. Names(p) \in Seq(Words)
      BY NamesType DEF Names
    <2> DEFINE q == Names(p)
    <2>2. \A n \in 1 .. Len(q) : q[n] \in Clean
      BY <1>1, <2>1 DEF Normal, Clean
    <2>3. q \in Seq(Clean)
      BY <2>1, <2>2
    <2> QED
      BY <1>1, <2>3 DEF Normal
  <1>2. ASSUME NEW ns \in Seq(Clean), p = Spell(ns)
        PROVE  Normal(p)
    <2>1. ns \in Seq(Words)
      BY DEF Clean
    <2>2. Names(p) = ns
      BY <1>2, <2>1, SpellFacts
    <2>3. \A n \in DOMAIN ns : ns[n] \notin {<<".">>, <<".", ".">>}
      BY DEF Clean
    <2> QED
      BY <1>2, <2>2, <2>3 DEF Normal
  <1> QED
    BY <1>1, <1>2

\* q is p, a slash and w, and its last slash is the one between them.
Apart(q, p, w) ==
    /\ q \in Text
    /\ LastSlash(q) = Len(p) + 1
    /\ SubSeq(q, LastSlash(q) + 1, Len(q)) = w
    /\ SubSeq(q, 1, Len(p)) = p
    /\ p = <<>> => SubSeq(q, 1, 1) = Root
    /\ Last(q) # "/"

LEMMA TakenApart ==
    ASSUME NEW p \in Text, NEW w \in Words, NEW q, q = p \o Root \o w
    PROVE  Apart(q, p, w)
  <1> DEFINE n == Len(p)
             m == Len(w)
  <1>1. /\ q \in Text /\ n \in Nat /\ m \in Nat \ {0} /\ Len(q) = n + 1 + m
        /\ \A k \in 1 .. n : q[k] = p[k]
        /\ q[n + 1] = "/"
        /\ \A k \in 1 .. m : q[n + 1 + k] = w[k] /\ w[k] # "/"
    <2>1. w \in Text /\ p \in Seq(Char) /\ w \in Seq(Char) /\ w # <<>>
          /\ \A k \in 1 .. m : w[k] # "/"
      BY DEF Words, Text
    <2>2. n \in Nat /\ m \in Nat \ {0}
      BY <2>1, EmptySeq
    <2> QED
      BY <2>1, <2>2, Slashed
  <1>2. p \in Seq(Char) /\ w \in Seq(Char)
    BY DEF Words, Text
  <1>2a. q \in Seq(Char)
    BY <1>1 DEF Text
  <1>3. \A k \in n + 2 .. Len(q) : q[k] # "/"
    <2>1. ASSUME NEW k \in n + 2 .. Len(q)
          PROVE  q[k] # "/"
      <3>1. k - n - 1 \in 1 .. m /\ n + 1 + (k - n - 1) = k
        BY <1>1
      <3>2. q[n + 1 + (k - n - 1)] # "/"
        BY <1>1, <3>1
      <3> QED
        BY <3>1, <3>2
    <2> QED
      BY <2>1
  <1>4. LastSlash(q) = n + 1
    <2>1. n + 1 \in 1 .. Len(q) /\ (n + 1) + 1 = n + 2
      BY <1>1
    <2> QED
      BY <1>1, <1>3, <2>1, LastSlashIs, ZenonT(30)
  <1>5. SubSeq(q, n + 2, Len(q)) = w
    <2>1. /\ SubSeq(q, n + 2, Len(q)) \in Seq(Char)
          /\ Len(SubSeq(q, n + 2, Len(q))) = m
      BY <1>1, <1>2a, SubSeqProperties
    <2>2. ASSUME NEW i \in 1 .. m
          PROVE  SubSeq(q, n + 2, Len(q))[i] = w[i]
      <3>1. SubSeq(q, n + 2, Len(q))[i] = q[n + 2 + i - 1]
        BY <1>1, <1>2a, SubSeqProperties
      <3>2. n + 2 + i - 1 = n + 1 + i
        BY <1>1
      <3> QED
        BY <1>1, <3>1, <3>2
    <2> QED
      BY <1>2, <2>1, <2>2, SeqEqual
  <1>6. SubSeq(q, 1, n) = p
    <2>1. SubSeq(q, 1, n) \in Seq(Char) /\ Len(SubSeq(q, 1, n)) = n
      BY <1>1, <1>2a, SubSeqProperties
    <2>2. ASSUME NEW i \in 1 .. n
          PROVE  SubSeq(q, 1, n)[i] = p[i]
      <3>1. SubSeq(q, 1, n)[i] = q[1 + i - 1] /\ 1 + i - 1 = i
        BY <1>1, <1>2a, SubSeqProperties
      <3> QED
        BY <1>1, <3>1
    <2> QED
      BY <1>2, <2>1, <2>2, SeqEqual
  <1>7. ASSUME p = <<>>
        PROVE  SubSeq(q, 1, 1) = Root
    <2>1. n = 0 /\ q[1] = "/"
      BY <1>1, <1>7
    <2>2. /\ SubSeq(q, 1, 1) \in Seq(Char) /\ Len(SubSeq(q, 1, 1)) = 1
          /\ SubSeq(q, 1, 1)[1] = q[1]
      BY <1>1, <1>2a, SubSeqProperties
    <2> QED
      BY <2>1, <2>2, RootAbs, SeqEqual DEF Text
  <1>8. Last(q) # "/"
    <2>1. Last(q) = q[Len(q)] /\ Len(q) \in n + 2 .. Len(q)
      BY <1>1 DEF Last
    <2> QED
      BY <1>3, <2>1
  <1>9. LastSlash(q) + 1 = n + 2
    BY <1>1, <1>4
  <1> QED
    BY <1>1, <1>4, <1>5, <1>6, <1>7, <1>8, <1>9 DEF Apart

LEMMA RootFacts ==
    /\ LastSlash(Root) = 1
    /\ Pwd(Root) = Root
    /\ Name(Root) = <<>>
    /\ Join(Pwd(Root), Name(Root)) = Root
  <1>1. LastSlash(Root) = 1
    <2>1. Root \in Text /\ 1 \in 1 .. Len(Root) /\ Root[1] = "/"
          /\ \A k \in 1 + 1 .. Len(Root) : Root[k] # "/"
      BY RootAbs
    <2> QED
      BY <2>1, LastSlashIs
  <1>2. Pwd(Root) = Root
    <2>1. SubSeq(Root, 1, 1) = Root
      BY RootAbs, SubSeqFull DEF Text
    <2> QED
      BY <1>1, <2>1 DEF Pwd
  <1>3. Name(Root) = <<>>
    BY <1>1, RootAbs, SubSeqEmpty DEF Name
  <1>4. Root \o <<>> = Root
    BY RootAbs, ConcatEmptySeq DEF Text
  <1> QED
    BY <1>1, <1>2, <1>3, <1>4 DEF Join

\* The directory of a path that is spelled from names is spelled from all but
\* the last.
LEMMA PwdOfSpelled ==
    ASSUME NEW ns \in Seq(Words), ns # <<>>
    PROVE  /\ Pwd(Spell(ns)) = Spell(SubSeq(ns, 1, Len(ns) - 1))
           /\ Name(Spell(ns)) = ns[Len(ns)]
           /\ Join(Pwd(Spell(ns)), Name(Spell(ns))) = Spell(ns)
           /\ Last(Flat(ns)) # "/"
  <1> DEFINE r == SubSeq(ns, 1, Len(ns) - 1)
             w == ns[Len(ns)]
             p == Flat(r)
             q == Spell(ns)
  <1>1. r \in Seq(Words) /\ w \in Words /\ ns = Append(r, w)
    OBVIOUS
  <1> HIDE DEF r, w
  <1>2. q = p \o Root \o w /\ q = Flat(ns) /\ p \in Text
    BY <1>1, FlatAppend, SpellFacts
  <1> HIDE DEF p, q
  <1>2a. Apart(q, p, w)
    BY <1>1, <1>2, TakenApart
  <1>3. /\ q \in Text
        /\ LastSlash(q) = Len(p) + 1
        /\ SubSeq(q, LastSlash(q) + 1, Len(q)) = w
        /\ SubSeq(q, 1, Len(p)) = p
        /\ p = <<>> => SubSeq(q, 1, 1) = Root
        /\ Last(q) # "/"
    BY <1>2a DEF Apart
  <1>4. Name(q) = w
    BY <1>3 DEF Name
  <1>5. Pwd(q) = Spell(r) /\ Join(Pwd(q), w) = q
    <2>0. Len(p) \in Nat
      BY <1>2 DEF Text
    <2>1. CASE r = <<>>
      <3>1. p = <<>> /\ Len(p) = 0 /\ Spell(r) = Root
        BY <2>1, FlatEmpty DEF p, Spell
      <3>2. Pwd(q) = Root
        BY <1>3, <3>1 DEF Pwd
      <3>3. p \o Root = Root
        BY <3>1, RootAbs, ConcatEmptySeq DEF Text
      <3> QED
        BY <1>2, <3>1, <3>2, <3>3 DEF Join
    <2>2. CASE r # <<>>
      <3>1. p \in Abs /\ Spell(r) = p
        BY <1>1, <2>2, FlatNames, SpellFacts DEF p
      <3>2. Len(p) # 0
        BY <3>1, EmptySeq DEF Abs, Text
      <3>3. Pwd(q) = p
        BY <1>3, <2>0, <3>2 DEF Pwd
      <3>4. p # Root
        <4>1. str_process(p) = r
          BY <1>1, FlatNames DEF p
        <4> QED
          BY <2>2, <4>1, NamesEmpty
      <3> QED
        BY <1>2, <3>1, <3>3, <3>4 DEF Join
    <2> QED
      BY <2>1, <2>2
  <1> QED
    BY <1>2, <1>3, <1>4, <1>5 DEF q, r, w

\* Paths are walked as their names are.
LEMMA StepSpell ==
    ASSUME NEW ns \in Seq(Clean), NEW w \in Words
    PROVE  Step(Spell(ns), w) = Spell(Walk(ns, w))
  <1>0. ns \in Seq(Words) /\ Clean \subseteq Words
    BY DEF Clean
  <1>1. CASE w = <<".">>
    BY <1>1 DEF Step, Walk
  <1>2. CASE w = <<".", ".">>
    <2>1. w # <<".">>
      BY <1>2
    <2>2. Step(Spell(ns), w) = Pwd(Spell(ns))
      BY <1>2, <2>1 DEF Step, Pwd
    <2>3. Walk(ns, w) = SubSeq(ns, 1, Len(ns) - 1)
      BY <1>2, <2>1 DEF Walk
    <2>4. CASE ns = <<>>
      <3>1. SubSeq(ns, 1, Len(ns) - 1) = <<>>
        BY <2>4, SubSeqEmpty
      <3>2. Spell(ns) = Root /\ Spell(<<>>) = Root
        BY <2>4 DEF Spell
      <3>3. Pwd(Root) = Root
        BY RootFacts
      <3> QED
        BY <2>2, <2>3, <3>1, <3>2, <3>3
    <2>5. CASE ns # <<>>
      <3> QED
        BY <1>0, <2>2, <2>3, <2>5, PwdOfSpelled
    <2> QED
      BY <2>4, <2>5
  <1>3. CASE w \notin {<<".">>, <<".", ".">>}
    <2>1. Walk(ns, w) = Append(ns, w) /\ Append(ns, w) # <<>> /\ Append(ns, w) \in Seq(Words)
      BY <1>0, <1>3 DEF Walk
    <2>2. Spell(Walk(ns, w)) = Flat(ns) \o Root \o w
      BY <1>0, <2>1, FlatAppend, SpellFacts
    <2>3. Step(Spell(ns), w) =
              (IF Last(Spell(ns)) = "/" THEN Spell(ns) ELSE Spell(ns) \o Root) \o w
      BY <1>3 DEF Step
    <2>4. CASE ns = <<>>
      <3>1. Spell(ns) = Root /\ Last(Root) = "/"
        BY <2>4 DEF Spell, Root, Last
      <3>2. <<>> \o Root = Root
        BY RootAbs, ConcatEmptySeq DEF Text
      <3>3. Flat(ns) = <<>>
        BY <2>4, FlatEmpty
      <3> QED
        BY <2>2, <2>3, <3>1, <3>2, <3>3
    <2>5. CASE ns # <<>>
      <3>1. Spell(ns) = Flat(ns) /\ Last(Flat(ns)) # "/"
        BY <1>0, <2>5, SpellFacts, PwdOfSpelled
      <3> QED
        BY <2>2, <2>3, <3>1
    <2> QED
      BY <2>4, <2>5
  <1> QED
    BY <1>1, <1>2, <1>3

LEMMA FoldedSteps ==
    ASSUME NEW ns \in Seq(Clean), NEW q \in Seq(Words)
    PROVE  /\ FoldLeft(Walk, ns, q) \in Seq(Clean)
           /\ FoldLeft(Step, Spell(ns), q) = Spell(FoldLeft(Walk, ns, q))
  <1> DEFINE n == Len(q)
             b == Spell(ns)
  <1>1. n \in Nat /\ b \in Abs
    <2>1. ns \in Seq(Words)
      BY DEF Clean
    <2> QED
      BY <2>1, SpellFacts
  <1> HIDE DEF b
  <1>2. PICK g \in [0 .. n -> Abs] :
            Runs(g, n, b, Stepping(q)) /\ FoldLeft(Step, b, q) = g[n]
    BY <1>1, StepFold
  <1>3. PICK h \in [0 .. n -> Seq(Clean)] :
            Runs(h, n, ns, Walking(q)) /\ FoldLeft(Walk, ns, q) = h[n]
    BY WalkFold
  <1> DEFINE S == {k \in 0 .. n : g[k] = Spell(h[k])}
  <1>4. 0 \in S
    BY <1>1, <1>2, <1>3 DEF Runs, b
  <1>5. ASSUME NEW k \in 0 .. n - 1, k \in S
        PROVE  k + 1 \in S
    <2>1. k + 1 \in 1 .. n /\ (k + 1) - 1 = k /\ k \in 0 .. n /\ k + 1 \in 0 .. n
      BY <1>1
    <2>2. g[k + 1] = Stepping(q)[k + 1][g[k]] /\ h[k + 1] = Walking(q)[k + 1][h[k]]
      BY <1>2, <1>3, <2>1 DEF Runs
    <2>3. g[k] \in Abs /\ h[k] \in Seq(Clean) /\ q[k + 1] \in Words
      BY <1>2, <1>3, <2>1
    <2>4. g[k + 1] = Step(g[k], q[k + 1]) /\ h[k + 1] = Walk(h[k], q[k + 1])
      BY <2>1, <2>2, <2>3 DEF Stepping, Walking
    <2> QED
      BY <1>5, <2>1, <2>3, <2>4, StepSpell
  <1> HIDE DEF S
  <1>6. \A k \in 0 .. n : k \in S
    BY <1>1, <1>4, <1>5, UpTo
  <1>7. n \in 0 .. n
    BY <1>1
  <1>8. g[n] = Spell(h[n]) /\ h[n] \in Seq(Clean)
    BY <1>3, <1>6, <1>7 DEF S
  <1> QED
    BY <1>2, <1>3, <1>8 DEF b

-----------------------------------------------------------------------------
(* What is stored.                                                         *)

\* A path put together from its directory and its name is the path again,
\* unless it starts with two slashes and has no more.
LEMMA JoinIs ==
    ASSUME NEW p \in Abs
    PROVE  \/ Join(Pwd(p), Name(p)) = p
           \/ /\ Pwd(p) = Root
              /\ p = Root \o Root \o Name(p)
              /\ Name(p) = <<>> \/ Name(p) \in Words
  <1> DEFINE l == LastSlash(p)
             n == Len(p)
             c == Name(p)
  <1>1. /\ p \in Seq(Char) /\ n \in Nat /\ p[1] = "/"
        /\ l \in 1 .. n /\ p[l] = "/" /\ \A k \in l + 1 .. n : p[k] # "/"
    BY LastSlashFacts DEF Abs, Text
  <1> HIDE DEF l
  <1>2. /\ c \in Seq(Char) /\ Len(c) = n - l
        /\ \A i \in 1 .. n - l : c[i] = p[l + i]
    <2>1. c = SubSeq(p, l + 1, n)
      BY DEF Name, l
    <2>2. /\ SubSeq(p, l + 1, n) \in Seq(Char)
          /\ Len(SubSeq(p, l + 1, n)) = n - l
          /\ \A i \in 1 .. n - (l + 1) + 1 : SubSeq(p, l + 1, n)[i] = p[l + 1 + i - 1]
      BY <1>1, SubSeqProperties
    <2>3. \A i \in 1 .. n - l : l + 1 + i - 1 = l + i
      BY <1>1
    <2>4. n - (l + 1) + 1 = n - l
      BY <1>1
    <2> QED
      BY <2>1, <2>2, <2>3, <2>4
  <1> HIDE DEF c
  \* The part before the last slash, the slash, and the name.
  <1>3. ASSUME NEW a \in Seq(Char), Len(a) = l - 1, \A i \in 1 .. l - 1 : a[i] = p[i]
        PROVE  a \o Root \o c = p
    <2>1. /\ a \o Root \o c \in Text
          /\ Len(a \o Root \o c) = Len(a) + 1 + Len(c)
          /\ \A k \in 1 .. Len(a) : (a \o Root \o c)[k] = a[k]
          /\ (a \o Root \o c)[Len(a) + 1] = "/"
          /\ \A k \in 1 .. Len(c) : (a \o Root \o c)[Len(a) + 1 + k] = c[k]
      BY <1>2, <1>3, Slashed DEF Text
    <2> DEFINE q == a \o Root \o c
    <2> HIDE DEF q
    <2>2. /\ q \in Seq(Char) /\ Len(q) = n
          /\ \A k \in 1 .. l - 1 : q[k] = a[k]
          /\ q[l] = "/"
          /\ \A k \in 1 .. n - l : q[l + k] = c[k]
      BY <1>1, <1>2, <1>3, <2>1 DEF q, Text
    <2>3. ASSUME NEW k \in 1 .. n
          PROVE  q[k] = p[k]
      <3>1. CASE k \in 1 .. l - 1
        BY <1>3, <2>2, <3>1
      <3>2. CASE k = l
        BY <1>1, <2>2, <3>2
      <3>3. CASE k \in l + 1 .. n
        <4>1. k - l \in 1 .. n - l /\ l + (k - l) = k
          BY <1>1, <3>3
        <4>2. q[l + (k - l)] = c[k - l] /\ c[k - l] = p[l + (k - l)]
          BY <1>2, <2>2, <4>1
        <4> QED
          BY <4>1, <4>2
      <3> QED
        BY <1>1, <3>1, <3>2, <3>3
    <2> QED
      BY <1>1, <2>2, <2>3, SeqEqual DEF q
  <1>4. CASE l = 1
    <2>1. Pwd(p) = SubSeq(p, 1, 1)
      BY <1>4 DEF Pwd, l
    <2>2. SubSeq(p, 1, 1) \in Seq(Char) /\ Len(SubSeq(p, 1, 1)) = 1 /\ SubSeq(p, 1, 1)[1] = p[1]
      <3>1. 1 \in 1 .. Len(p)
        BY <1>1
      <3> QED
        BY <3>1, PrefixAbs DEF Abs, Text
    <2>3. Pwd(p) = Root
      BY <1>1, <2>1, <2>2, RootAbs, SeqEqual DEF Text
    <2>4. <<>> \o Root \o c = p
      <3>1. <<>> \in Seq(Char) /\ Len(<<>>) = l - 1 /\ \A i \in 1 .. l - 1 : <<>>[i] = p[i]
        BY <1>4
      <3> QED
        BY <1>3, <3>1
    <2>5. <<>> \o Root = Root
      BY RootAbs, ConcatEmptySeq DEF Text
    <2> QED
      BY <2>3, <2>4, <2>5 DEF Join, c
  <1>5. CASE l # 1
    <2> DEFINE a == SubSeq(p, 1, l - 1)
    <2>1. Pwd(p) = a
      BY <1>5 DEF Pwd, l
    <2>2. a \in Seq(Char) /\ Len(a) = l - 1 /\ \A i \in 1 .. l - 1 : a[i] = p[i]
      <3>1. \A i \in 1 .. l - 1 : p[i] \in Char /\ 1 + i - 1 = i
        BY <1>1
      <3>2. l - 1 \in Nat \ {0} /\ (l - 1) - 1 + 1 = l - 1
        BY <1>1, <1>5
      <3>3. /\ a \in Seq(Char) /\ Len(a) = l - 1
            /\ \A i \in 1 .. (l - 1) - 1 + 1 : a[i] = p[1 + i - 1]
        BY <3>1, <3>2, SubSeqProperties
      <3> QED
        BY <3>1, <3>2, <3>3
    <2> HIDE DEF a
    <2>3. a \o Root \o c = p
      BY <1>3, <2>2
    <2>4. CASE a = Root
      <3>1. c = <<>> \/ c \in Words
        <4>1. ASSUME NEW i \in 1 .. Len(c)
              PROVE  c[i] # "/"
          <5>1. i \in 1 .. n - l /\ l + i \in l + 1 .. n
            BY <1>1, <1>2
          <5> QED
            BY <1>1, <1>2, <5>1
        <4> QED
          BY <1>2, <4>1 DEF Words, Text
      <3> QED
        BY <2>1, <2>3, <2>4, <3>1 DEF c
    <2>5. CASE a # Root
      BY <2>1, <2>3, <2>5 DEF Join, c
    <2> QED
      BY <2>4, <2>5
  <1> QED
    BY <1>4, <1>5

LEMMA JoinAbs ==
    ASSUME NEW p \in Abs
    PROVE  Join(Pwd(p), Name(p)) \in Abs
  <1>1. CASE Join(Pwd(p), Name(p)) = p
    BY <1>1
  <1>2. CASE Pwd(p) = Root /\ (Name(p) = <<>> \/ Name(p) \in Words)
    <2>1. Name(p) \in Text
      <3>1. <<>> \in Text
        BY DEF Text
      <3> QED
        BY <1>2, <3>1 DEF Words
    <2> QED
      BY <1>2, <2>1, RootAbs, ConcatAbs DEF Join
  <1> QED
    BY <1>1, <1>2, JoinIs

\* The paths a table can hold.
Path == {p \in Abs : Len(p) <= PathMax}

LEMMA StoredIs ==
    ASSUME NEW p \in Abs
    PROVE  /\ Stored(Pwd(p), Name(p)) \in Path
           /\ Len(Join(Pwd(p), Name(p))) <= PathMax =>
                  Stored(Pwd(p), Name(p)) = Join(Pwd(p), Name(p))
  <1> DEFINE j == Join(Pwd(p), Name(p))
             m == Min({PathMax, Len(j)})
  <1>1. j \in Abs /\ j \in Seq(Char)
    BY JoinAbs DEF Abs, Text
  <1> HIDE DEF j
  <1>2. Len(j) \in Nat \ {0} /\ PathMax \in Nat \ {0}
    BY <1>1, ShellAssumption, EmptySeq DEF Abs
  <1>3. /\ {PathMax, Len(j)} \in SUBSET Nat /\ {PathMax, Len(j)} # {}
        /\ PathMax \in {PathMax, Len(j)} /\ Len(j) \in {PathMax, Len(j)}
    BY <1>2
  <1>4. m \in {PathMax, Len(j)} /\ m <= PathMax /\ m <= Len(j)
    BY <1>3, MinFacts
  <1> HIDE DEF m
  <1>5. m \in 1 .. Len(j) /\ m \in 1 .. PathMax
    BY <1>2, <1>4
  <1>6. Stored(Pwd(p), Name(p)) = SubSeq(j, 1, m)
    BY DEF Stored, j, m
  <1>7. SubSeq(j, 1, m) \in Path
    BY <1>1, <1>2, <1>5, PrefixAbs DEF Path
  <1>8. ASSUME Len(j) <= PathMax
        PROVE  SubSeq(j, 1, m) = j
    <2>1. m = Len(j)
      BY <1>2, <1>4, <1>8
    <2> QED
      BY <1>1, <2>1, SubSeqFull
  <1> QED
    BY <1>6, <1>7, <1>8 DEF j

\* A normal path is stored as it is, when it fits.
LEMMA NormalJoin ==
    ASSUME NEW p \in Abs, Normal(p)
    PROVE  Join(Pwd(p), Name(p)) = p
  <1>1. PICK ns \in Seq(Clean) : p = Spell(ns)
    BY NormalSpelled DEF Abs
  <1>2. ns \in Seq(Words)
    BY DEF Clean
  <1>3. CASE ns = <<>>
    BY <1>1, <1>3, RootFacts DEF Spell
  <1>4. CASE ns # <<>>
    BY <1>1, <1>2, <1>4, PwdOfSpelled
  <1> QED
    BY <1>3, <1>4

LEMMA RootNormal == Root \in Path /\ Normal(Root)
  <1>0. <<>> \in Seq(Clean)
    OBVIOUS
  <1>1. Spell(<<>>) = Root
    BY DEF Spell
  <1>2. Normal(Root)
    BY <1>0, <1>1, RootAbs, NormalSpelled
  <1> QED
    BY <1>2, RootAbs, ShellAssumption DEF Path

-----------------------------------------------------------------------------
(* The invariant.                                                          *)

Paths == dirs \cup files \cup {cur_path}

\* What the lines keep: the paths fit the table, and a line that has not been
\* redirected yet has written nothing.
Inv ==
    /\ Paths \cup written \subseteq Path
    /\ cmd \in Command \cup {"none"}
    /\ twice \subseteq dirs
    /\ {first, cur_output, literal, cut, spread} \subseteq BOOLEAN
    /\ ~Idle => written = {}
    /\ WritesOneFile
    /\ TableNormal

LEMMA AbsTyped ==
    ASSUME NEW s \in Typed, Inv
    PROVE  rel_to_abs(s) \in Abs
  <1>1. s \in Text /\ s # <<>>
    BY ShellAssumption DEF Text
  <1>2. CASE s[1] = "/"
    BY <1>1, <1>2 DEF rel_to_abs, Abs
  <1>3. CASE s[1] # "/"
    <2>1. cur_path \in Abs
      BY DEF Inv, Paths, Path
    <2>2. str_process(s) \in Seq(Words)
      BY <1>1, NamesType
    <2>3. PICK g \in [0 .. Len(str_process(s)) -> Abs] :
              FoldLeft(Step, cur_path, str_process(s)) = g[Len(str_process(s))]
      BY <2>1, <2>2, StepFold
    <2>4. Len(str_process(s)) \in 0 .. Len(str_process(s))
      BY <2>2
    <2> QED
      BY <1>3, <2>3, <2>4 DEF rel_to_abs
  <1> QED
    BY <1>2, <1>3

\* A relative path is walked from a current directory in normal form.
LEMMA RelativeWalks ==
    ASSUME NEW s \in Typed, s[1] # "/", Normal(cur_path), cur_path \in Abs
    PROVE  /\ rel_to_abs(s) = Spell(FoldLeft(Walk, Names(cur_path), str_process(s)))
           /\ Normal(rel_to_abs(s))
  <1>1. s \in Text /\ str_process(s) \in Seq(Words)
    BY ShellAssumption, NamesType DEF Text
  <1>2. PICK ns \in Seq(Clean) : cur_path = Spell(ns)
    BY NormalSpelled DEF Abs
  <1>3. ns \in Seq(Words)
    BY DEF Clean
  <1>4. Names(cur_path) = ns
    BY <1>2, <1>3, SpellFacts
  <1>5. rel_to_abs(s) = FoldLeft(Step, Spell(ns), str_process(s))
    BY <1>2 DEF rel_to_abs
  <1>6. /\ FoldLeft(Walk, ns, str_process(s)) \in Seq(Clean)
        /\ rel_to_abs(s) = Spell(FoldLeft(Walk, ns, str_process(s)))
    BY <1>1, <1>5, FoldedSteps
  <1>7. rel_to_abs(s) \in Text
    <2>1. FoldLeft(Walk, ns, str_process(s)) \in Seq(Words)
      BY <1>6 DEF Clean
    <2> QED
      BY <1>6, <2>1, SpellFacts DEF Abs
  <1> QED
    BY <1>4, <1>6, <1>7, NormalSpelled

\* What is typed leads to a normal path, as long as nothing else was typed.
LEMMA NormalTyped ==
    ASSUME NEW s \in Typed, Inv, ~literal, ~cut, s[1] = "/" => Normal(s)
    PROVE  Normal(rel_to_abs(s))
  <1>1. Normal(cur_path) /\ cur_path \in Abs
    BY DEF Inv, TableNormal, Paths, Path
  <1> QED
    BY <1>1, RelativeWalks DEF rel_to_abs

LEMMA InvInit == Init => Inv
  <1> SUFFICES ASSUME Init PROVE Inv
    OBVIOUS
  <1>1. Root \in Path
    BY RootNormal
  <1>2. Normal(Root)
    BY RootNormal
  <1>3. Paths = {Root} /\ written = {}
    BY DEF Init, Paths
  <1>4. TableNormal
    BY <1>2 DEF Init, TableNormal
  <1> QED
    BY <1>1, <1>3, <1>4 DEF Init, Inv, WritesOneFile

\* An action that adds no path keeps the paths.
LEMMA PathsKept ==
    ASSUME Inv, Paths' \subseteq Paths \cup {Root},
           literal => literal', cut => cut'
    PROVE  Paths' \subseteq Path /\ TableNormal'
  <1>1. Root \in Path /\ Normal(Root)
    BY RootNormal
  <1>2. Paths \subseteq Path
    BY DEF Inv
  <1>3. ASSUME ~literal', ~cut', NEW p \in Paths'
        PROVE  Normal(p)
    <2>1. p \in Paths \/ p = Root
      BY <1>3
    <2> QED
      BY <1>1, <1>3, <2>1 DEF Inv, TableNormal, Paths
  <1> QED
    BY <1>1, <1>2, <1>3 DEF TableNormal, Paths

\* An action that adds the path that is stored keeps them too.
LEMMA PathsAdded ==
    ASSUME NEW s \in Typed, Inv, Note(s), NEW new,
           new = Stored(Pwd(rel_to_abs(s)), Name(rel_to_abs(s))),
           Paths' \subseteq Paths \cup {new},
           cut' = (cut \/ Len(rel_to_abs(s)) > PathMax)
    PROVE  Paths' \subseteq Path /\ TableNormal'
  <1> DEFINE path == rel_to_abs(s)
  <1>1. path \in Abs
    BY AbsTyped
  <1> HIDE DEF path
  <1>2. new \in Path
    BY <1>1, StoredIs DEF path
  <1>3. Paths' \subseteq Path
    BY <1>2 DEF Inv
  <1>4. ASSUME ~literal', ~cut'
        PROVE  Normal(new)
    <2>1. ~literal /\ ~cut /\ (s[1] = "/" => Normal(s)) /\ ~(Len(path) > PathMax)
      BY <1>4 DEF Note, path
    <2>2. Normal(path)
      BY <2>1, NormalTyped DEF path
    <2>3. Len(path) <= PathMax
      BY <1>1, <2>1, ShellAssumption DEF Abs, Text
    <2>4. new = path
      BY <1>1, <2>2, <2>3, NormalJoin, StoredIs DEF path
    <2> QED
      BY <2>2, <2>4
  <1>5. ASSUME ~literal', ~cut', NEW p \in Paths'
        PROVE  Normal(p)
    <2>1. ~literal /\ ~cut
      BY <1>5 DEF Note
    <2> QED
      BY <1>4, <1>5, <2>1 DEF Inv, TableNormal, Paths
  <1> QED
    BY <1>3, <1>5 DEF TableNormal, Paths

\* Every step keeps the invariant.
LEMMA InvNext == Inv /\ [Next]_vars => Inv'
  <1> SUFFICES ASSUME Inv, [Next]_vars PROVE Inv'
    OBVIOUS
  <1> DEFINE Flags == {first, cur_output, literal, cut, spread} \subseteq BOOLEAN
  \* The part of the invariant that is not about the paths.
  <1>a. ASSUME NEW s \in Typed, NEW says \in BOOLEAN, Argument(s, says), cmd \in Command,
               Paths' \subseteq Path, TableNormal', twice' \subseteq dirs',
               {cut', spread'} \subseteq BOOLEAN
        PROVE  Inv'
    <2>1. cmd' = cmd /\ written' = written /\ first' = FALSE
          /\ cur_output' \in BOOLEAN /\ literal' \in BOOLEAN
      BY <1>a DEF Argument, Note, Inv
    <2>2. written = {}
      BY <1>a DEF Inv, Idle, Command
    <2> QED
      BY <1>a, <2>1, <2>2 DEF Inv, WritesOneFile, Idle
  <1>b. ASSUME NEW s \in Typed, Note(s)
        PROVE  literal => literal'
    BY <1>b DEF Note
  <1>1. ASSUME NEW c \in Command, Start(c)
        PROVE  Inv'
    <2>1. Paths' = Paths /\ literal' = literal /\ cut' = cut
      BY <1>1 DEF Start, table, Paths
    <2>2. Paths' \subseteq Path /\ TableNormal'
      BY <2>1, PathsKept
    <2> QED
      BY <1>1, <2>2 DEF Start, table, Inv, WritesOneFile, Idle
  <1>2. ASSUME NEW s \in Typed, mkdir1(s)
        PROVE  Inv'
    <2> DEFINE path == rel_to_abs(s)
               new  == Stored(Pwd(path), Name(path))
    <2>1. cmd \in Command /\ Argument(s, FALSE) /\ Note(s)
          /\ UNCHANGED <<files, cur_path>>
      BY <1>2 DEF mkdir1, Argument, Command
    <2>2. CASE create_dir(new) /\ Cut(path)
      <3>1. Paths' \subseteq Paths \cup {new}
        BY <2>1, <2>2 DEF Paths, create_dir
      <3>2. Paths' \subseteq Path /\ TableNormal'
        BY <2>1, <2>2, <3>1, PathsAdded DEF Cut
      <3>3. {cut', spread'} \subseteq BOOLEAN
        BY <2>2 DEF Cut, create_dir, Inv
      <3>4. twice' \subseteq dirs'
        BY <2>2 DEF create_dir, Inv
      <3> QED
        BY <1>a, <2>1, <3>2, <3>3, <3>4
    <2>3. CASE spread' = FALSE /\ UNCHANGED <<dirs, twice, cut>>
      <3>1. Paths' = Paths
        BY <2>1, <2>3 DEF Paths
      <3>2. Paths' \subseteq Path /\ TableNormal'
        BY <1>b, <2>1, <2>3, <3>1, PathsKept
      <3>3. {cut', spread'} \subseteq BOOLEAN /\ twice' \subseteq dirs'
        BY <2>3 DEF Inv
      <3> QED
        BY <1>a, <2>1, <3>2, <3>3
    <2> QED
      BY <1>2, <2>2, <2>3 DEF mkdir1
  <1>3. ASSUME NEW s \in Typed, touch(s)
        PROVE  Inv'
    <2> DEFINE path == rel_to_abs(s)
               new  == Stored(Pwd(path), Name(path))
    <2>1. cmd \in Command /\ Argument(s, FALSE) /\ Note(s)
          /\ UNCHANGED <<dirs, twice, cur_path, spread>>
      BY <1>3 DEF touch, Argument, Command
    <2>4. twice' \subseteq dirs'
      BY <2>1 DEF Inv
    <2>2. CASE files' = files \cup {new} /\ Cut(path)
      <3>1. Paths' \subseteq Paths \cup {new}
        BY <2>1, <2>2 DEF Paths
      <3>2. Paths' \subseteq Path /\ TableNormal'
        BY <2>1, <2>2, <3>1, PathsAdded DEF Cut
      <3>3. {cut', spread'} \subseteq BOOLEAN
        BY <2>1, <2>2 DEF Cut, Inv
      <3> QED
        BY <1>a, <2>1, <2>4, <3>2, <3>3
    <2>3. CASE UNCHANGED <<files, cut>>
      <3>1. Paths' = Paths
        BY <2>1, <2>3 DEF Paths
      <3>2. Paths' \subseteq Path /\ TableNormal'
        BY <1>b, <2>1, <2>3, <3>1, PathsKept
      <3>3. {cut', spread'} \subseteq BOOLEAN
        BY <2>1, <2>3 DEF Inv
      <3> QED
        BY <1>a, <2>1, <2>4, <3>2, <3>3
    <2> QED
      BY <1>3, <2>2, <2>3 DEF touch
  <1>4. ASSUME NEW s \in Typed, rm(s)
        PROVE  Inv'
    <2> DEFINE says == rel_to_abs(s) \notin files
    <2>1. cmd \in Command /\ Argument(s, says) /\ Note(s)
          /\ UNCHANGED <<dirs, twice, cur_path, cut, spread>> /\ files' \subseteq files
      BY <1>4 DEF rm, Argument, Command
    <2>2. Paths' \subseteq Paths \cup {Root}
      BY <2>1 DEF Paths
    <2>3. Paths' \subseteq Path /\ TableNormal'
      BY <1>b, <2>1, <2>2, PathsKept
    <2>4. {cut', spread'} \subseteq BOOLEAN /\ twice' \subseteq dirs' /\ says \in BOOLEAN
      BY <2>1 DEF Inv
    <2> HIDE DEF says
    <2> QED
      BY <1>a, <2>1, <2>3, <2>4
  <1>5. ASSUME NEW s \in Typed, rmdir1(s)
        PROVE  Inv'
    <2> DEFINE says == rel_to_abs(s) \notin dirs
    <2>1. cmd \in Command /\ Argument(s, says) /\ Note(s)
          /\ UNCHANGED <<files, cur_path, cut, spread>> /\ dirs' \subseteq dirs
          /\ twice' \subseteq dirs'
      BY <1>5 DEF rmdir1, Argument, Command, Inv
    <2>2. Paths' \subseteq Paths \cup {Root}
      BY <2>1 DEF Paths
    <2>3. Paths' \subseteq Path /\ TableNormal'
      BY <1>b, <2>1, <2>2, PathsKept
    <2>4. {cut', spread'} \subseteq BOOLEAN /\ twice' \subseteq dirs' /\ says \in BOOLEAN
      BY <2>1 DEF Inv
    <2> HIDE DEF says
    <2> QED
      BY <1>a, <2>1, <2>3, <2>4
  <1>6. ASSUME NEW s \in Typed, cd(s)
        PROVE  Inv'
    <2> DEFINE says == first /\ rel_to_abs(s) \notin dirs
    <2>1. cmd \in Command /\ Argument(s, says) /\ Note(s)
          /\ UNCHANGED <<dirs, files, twice, cut, spread>> /\ cur_path' \in dirs \cup {cur_path}
      BY <1>6 DEF cd, table, Argument, Command
    <2>2. Paths' \subseteq Paths \cup {Root}
      BY <2>1 DEF Paths
    <2>3. Paths' \subseteq Path /\ TableNormal'
      BY <1>b, <2>1, <2>2, PathsKept
    <2>4. {cut', spread'} \subseteq BOOLEAN /\ twice' \subseteq dirs' /\ says \in BOOLEAN
      BY <2>1 DEF Inv
    <2> HIDE DEF says
    <2> QED
      BY <1>a, <2>1, <2>3, <2>4
  <1>7. ASSUME NEW s \in Typed, Say(s)
        PROVE  Inv'
    <2> DEFINE says == cmd # "echo" \/ ~first \/ s # <<"\"", "\"">>
    <2>1. cmd \in Command /\ Argument(s, says) /\ Note(s)
          /\ UNCHANGED <<dirs, files, twice, cur_path, cut, spread>>
      BY <1>7 DEF Say, table, Argument, Command
    <2>2. Paths' \subseteq Paths \cup {Root}
      BY <2>1 DEF Paths
    <2>3. Paths' \subseteq Path /\ TableNormal'
      BY <1>b, <2>1, <2>2, PathsKept
    <2>4. {cut', spread'} \subseteq BOOLEAN /\ twice' \subseteq dirs' /\ says \in BOOLEAN
      BY <2>1 DEF Inv
    <2> HIDE DEF says
    <2> QED
      BY <1>a, <2>1, <2>3, <2>4
  <1>8. ASSUME NEW s \in Typed, Redirect(s)
        PROVE  Inv'
    <2>1. /\ UNCHANGED <<dirs, files, twice, cut>> /\ cur_path' \in {Root, cur_path}
          /\ EndLine /\ Note(s) /\ ~Idle
          /\ written' \subseteq written \cup {rel_to_abs(s)}
          /\ written' \subseteq written \cup files
      BY <1>8 DEF Redirect, table
    <2>2. Paths' \subseteq Paths \cup {Root}
      BY <2>1 DEF Paths
    <2>3. Paths' \subseteq Path /\ TableNormal'
      BY <1>b, <2>1, <2>2, PathsKept
    <2>4. written = {}
      BY <2>1 DEF Inv
    <2>5. written' \subseteq Path /\ WritesOneFile'
      BY <2>1, <2>4 DEF Inv, Paths, WritesOneFile
    <2>6. Flags' /\ Idle'
      BY <2>1 DEF EndLine, Note, Inv, Idle
    <2> QED
      BY <2>1, <2>3, <2>5, <2>6 DEF Inv, EndLine
  <1>9. ASSUME RedirectNowhere \/ Finish
        PROVE  Inv'
    <2>1. /\ UNCHANGED <<dirs, files, twice, written, literal, cut>>
          /\ cur_path' \in {Root, cur_path} /\ EndLine
      BY <1>9 DEF RedirectNowhere, Finish, table
    <2>2. Paths' \subseteq Paths \cup {Root}
      BY <2>1 DEF Paths
    <2>3. Paths' \subseteq Path /\ TableNormal'
      BY <2>1, <2>2, PathsKept
    <2> QED
      BY <2>1, <2>3 DEF Inv, EndLine, Idle, WritesOneFile
  <1>10. CASE UNCHANGED vars
    BY <1>10 DEF vars, table, lineVars, Inv, Paths, Idle, WritesOneFile, TableNormal
  <1> QED
    BY <1>1, <1>2, <1>3, <1>4, <1>5, <1>6, <1>7, <1>8, <1>9, <1>10 DEF Next

\* The invariant the theorems below follow from: the paths of the table fit it,
\* and a line writes only once it was redirected (commands.c, the loops over the
\* arguments).
THEOREM Invariance == Spec => []Inv
  BY InvInit, InvNext, PTL DEF Spec

-----------------------------------------------------------------------------
(* The theorems.                                                           *)

\* The paths of the table, of the current directory and of the files written
\* into fit the table and are never empty, whatever is typed (create_dir,
\* create_file, rel_to_abs).
THEOREM TypeCorrect == Spec => []TypeOK
  <1>1. Inv => TypeOK
    <2>1. ASSUME Inv, NEW p \in dirs \cup files \cup written \cup {cur_path}
          PROVE  Len(p) \in 1 .. PathMax
      <3>1. p \in Abs /\ Len(p) <= PathMax
        BY <2>1 DEF Inv, Paths, Path
      <3>2. Len(p) \in Nat /\ Len(p) # 0
        BY <3>1, EmptySeq DEF Abs, Text
      <3> QED
        BY <3>1, <3>2, ShellAssumption
    <2> QED
      BY <2>1 DEF Inv, TypeOK
  <1> QED
    BY <1>1, Invariance, PTL

\* As long as no odd absolute path was typed and no path was cut, the paths of
\* the table and the current directory are in normal form (str_process,
\* rel_to_abs, create_dir, create_file).
THEOREM NormalForm == Spec => []TableNormal
  <1>1. Inv => TableNormal
    BY DEF Inv
  <1> QED
    BY <1>1, Invariance, PTL

\* Every relative path then leads where its names lead, walked one by one
\* (str_process, rel_to_abs), however it is spelled.
THEOREM RelativePaths == Spec => []RelativeLeadsThere
  <1>1. Inv => RelativeLeadsThere
    <2>1. ASSUME Inv, ~literal, ~cut, NEW s \in Typed, s[1] # "/"
          PROVE  rel_to_abs(s) = Spell(FoldLeft(Walk, Names(cur_path), str_process(s)))
      <3>1. Normal(cur_path) /\ cur_path \in Abs
        BY <2>1 DEF Inv, TableNormal, Paths, Path
      <3> QED
        BY <2>1, <3>1, RelativeWalks
    <2> QED
      BY <2>1 DEF RelativeLeadsThere
  <1> QED
    BY <1>1, Invariance, PTL

\* A line writes into one file at most (main.c, the loop over the arguments).
THEOREM OneFileWritten == Spec => []WritesOneFile
  <1>1. Inv => WritesOneFile
    BY DEF Inv
  <1> QED
    BY <1>1, Invariance, PTL

\* Only an rmdir of the current directory, or a cd home to a root that was
\* removed, takes a session out of the directories there are (rmdir, cd).
THEOREM PwdLost == Spec => PwdLostOnlyByRmdir
  <1> DEFINE A == (cur_path \in dirs /\ cur_path' \notin dirs') =>
                      \/ cmd = "rmdir" /\ cur_path' = cur_path
                      \/ cmd = "cd" /\ cur_path' = Root
  <1>1. [Next]_vars => [A]_vars
    <2> SUFFICES ASSUME Next, cur_path \in dirs, cur_path' \notin dirs'
                 PROVE  \/ cmd = "rmdir" /\ cur_path' = cur_path
                        \/ cmd = "cd" /\ cur_path' = Root
      OBVIOUS
    <2>1. ASSUME NEW c \in Command, Start(c) PROVE FALSE
      BY <2>1 DEF Start, table
    <2>2. ASSUME NEW s \in Typed, mkdir1(s) PROVE FALSE
      BY <2>2 DEF mkdir1, create_dir
    <2>3. ASSUME NEW s \in Typed, touch(s) \/ rm(s) \/ Say(s) PROVE FALSE
      <3>1. ASSUME touch(s) PROVE FALSE
        BY <3>1 DEF touch
      <3>2. ASSUME rm(s) PROVE FALSE
        BY <3>2 DEF rm
      <3>3. ASSUME Say(s) PROVE FALSE
        BY <3>3 DEF Say, table
      <3> QED
        BY <2>3, <3>1, <3>2, <3>3
    <2>4. ASSUME NEW s \in Typed, rmdir1(s) PROVE cmd = "rmdir" /\ cur_path' = cur_path
      BY <2>4 DEF rmdir1
    <2>5. ASSUME NEW s \in Typed, cd(s) PROVE FALSE
      BY <2>5 DEF cd, table
    <2>6. ASSUME NEW s \in Typed, Redirect(s) PROVE cmd = "cd" /\ cur_path' = Root
      BY <2>6 DEF Redirect, table
    <2>7. ASSUME RedirectNowhere PROVE FALSE
      BY <2>7 DEF RedirectNowhere, table
    <2>8. ASSUME Finish PROVE cmd = "cd" /\ cur_path' = Root
      BY <2>8 DEF Finish, table
    <2> QED
      BY <2>1, <2>2, <2>3, <2>4, <2>5, <2>6, <2>7, <2>8 DEF Next
  <1> QED
    BY <1>1, PTL DEF Spec, PwdLostOnlyByRmdir

\* What search_dir finds in the root: every name of one that is stored there.
LEMMA FoundInRoot ==
    ASSUME NEW name, name = <<>> \/ name \in Words, Root \o name \in dirs, Root \in dirs
    PROVE  search_dir(Root, name)
  <1>1. CASE name = <<>>
    BY <1>1 DEF search_dir
  <1>2. CASE name \in Words
    <2> DEFINE q == Root \o name
               m == Len(name)
    <2>1. name \in Seq(Char) /\ m \in Nat \ {0} /\ name # <<>>
      BY <1>2, EmptySeq DEF Words, Text
    <2>2. q = <<>> \o Root \o name
      BY RootAbs, ConcatEmptySeq DEF Text
    <2>3. <<>> \in Text /\ Len(<<>>) = 0
      BY DEF Text
    <2> HIDE DEF q
    <2>4. /\ q \in Text
          /\ LastSlash(q) = 1
          /\ SubSeq(q, 2, Len(q)) = name
          /\ SubSeq(q, 1, 1) = Root
      <3> DEFINE e == <<>>
      <3>0. Len(e) = 0 /\ e = <<>>
        BY <2>3
      <3>0a. e \in Text /\ q = e \o Root \o name
        BY <2>2, <2>3
      <3> HIDE DEF e
      <3>1. Apart(q, e, name)
        BY <1>2, <3>0a, TakenApart
      <3>2. Len(e) + 1 = 1 /\ 1 + 1 = 2
        BY <3>0
      <3> QED
        BY <3>0, <3>1, <3>2 DEF Apart
    <2>5. q \in Abs /\ Len(q) = 1 + m
      <3>1. Root \in Seq(Char) /\ Len(Root) = 1
        BY RootAbs DEF Text
      <3>2. Len(q) = Len(Root) + m
        BY <2>1, <3>1, ConcatProperties, ZenonT(30) DEF q
      <3>3. q \in Abs
        BY <2>1, RootAbs, ConcatAbs DEF Text, q
      <3> QED
        BY <3>1, <3>2, <3>3
    <2>6. \A j \in 2 .. Len(q) : q[j] # "/"
      BY <2>4, <2>5, LastSlashFacts
    <2>7. Word(q, 1 + 1) = name
      <3>1. 2 \in 1 .. Len(q) + 1 /\ Len(q) \in 2 - 1 .. Len(q)
        BY <2>1, <2>5
      <3>2. Word(q, 2) = SubSeq(q, 2, Len(q))
        BY <2>4, <2>6, <3>1, WordIs
      <3>3. 1 + 1 = 2
        OBVIOUS
      <3> QED
        BY <2>4, <3>2, <3>3
    <2>8. IsPrefix(Root, q)
      BY <2>1, <2>4, <2>5, RootAbs DEF IsPrefix
    <2>9. name \in list_dir(Root)
      BY <2>1, <2>7, <2>8 DEF list_dir, q
    <2>10. 0 \in 0 .. Len(name) - Len(name) /\ SubSeq(name, 0 + 1, 0 + Len(name)) = name
      BY <2>1, SubSeqFull
    <2> QED
      BY <2>9, <2>10 DEF search_dir
  <1> QED
    BY <1>1, <1>2

\* A directory gets a second entry only where mkdir looked for another path than
\* it stores (create_dir, search_dir): when it was cut, or below a root that was
\* removed, through a path that starts with two slashes; or where there was no
\* free inode and several slots got the path.
THEOREM SecondEntry == Spec => SecondEntryHasCause
  <1> DEFINE A == ~(twice' \subseteq twice) => cut' \/ (literal' /\ Root \notin dirs) \/ spread'
  <1>1. Inv /\ [Next]_vars => [A]_vars
    <2> SUFFICES ASSUME Inv, Next, ~(twice' \subseteq twice)
                 PROVE  cut' \/ (literal' /\ Root \notin dirs) \/ spread'
      OBVIOUS
    <2>1. ASSUME NEW s \in Typed, mkdir1(s)
          PROVE  cut' \/ (literal' /\ Root \notin dirs) \/ spread'
      <3> DEFINE path == rel_to_abs(s)
                 new  == Stored(Pwd(path), Name(path))
                 j    == Join(Pwd(path), Name(path))
      <3>2. SUFFICES ASSUME ~cut', ~spread' PROVE literal' /\ Root \notin dirs
        OBVIOUS
      <3>1. /\ path \notin dirs /\ ~search_dir(Pwd(path), Name(path))
            /\ new \in dirs
            /\ cut' = (cut \/ Len(path) > PathMax)
            /\ Note(s)
        BY <2>1, <3>2 DEF mkdir1, create_dir, Cut, Argument
      <3>3. path \in Abs
        BY AbsTyped
      <3> HIDE DEF path
      <3>4. ~cut /\ Len(path) <= PathMax
        <4>1. Len(path) \in Nat /\ PathMax \in Nat
          BY <3>3, ShellAssumption DEF Abs, Text
        <4>2. ~cut /\ ~(Len(path) > PathMax)
          BY <3>1, <3>2
        <4> QED
          BY <4>1, <4>2
      <3>5. j # path
        BY <3>1, <3>3, <3>4, StoredIs
      <3>6. literal'
        <4>1. ~Normal(path)
          BY <3>3, <3>5, NormalJoin
        <4>2. literal \/ (s[1] = "/" /\ ~Normal(s))
          BY <3>4, <4>1, NormalTyped DEF path
        <4> QED
          BY <3>1, <4>2 DEF Note
      <3>7. /\ Pwd(path) = Root /\ path = Root \o Root \o Name(path)
            /\ Name(path) = <<>> \/ Name(path) \in Words
        BY <3>3, <3>5, JoinIs
      <3>8. new = Root \o Name(path)
        <4>1. j = Root \o Name(path)
          BY <3>7 DEF Join
        <4>2. Len(j) <= Len(path)
          <5>1. Name(path) \in Seq(Char)
            <6>1. <<>> \in Seq(Char)
              OBVIOUS
            <6> QED
              BY <3>7, <6>1 DEF Words, Text
          <5>2. Root \in Seq(Char) /\ Len(Root) = 1
            BY RootAbs DEF Text
          <5>3. Len(Root \o Name(path)) = 1 + Len(Name(path))
            BY <5>1, <5>2, ConcatProperties, ZenonT(30)
          <5>4. Len(Root \o Root \o Name(path)) = 1 + 1 + Len(Name(path))
            BY <5>1, <5>2, RootAbs, Slashed DEF Text
          <5>5. Len(Name(path)) \in Nat
            BY <5>1
          <5> QED
            BY <3>7, <4>1, <5>3, <5>4, <5>5
        <4>3. Len(j) <= PathMax
          <5>1. Len(j) \in Nat /\ Len(path) \in Nat
            BY <3>3, JoinAbs DEF Abs, Text
          <5> QED
            BY <3>4, <4>2, <5>1, ShellAssumption
        <4> QED
          BY <3>3, <4>1, <4>3, StoredIs
      <3> QED
        BY <3>1, <3>6, <3>7, <3>8, FoundInRoot
    <2>2. ASSUME NEW s \in Typed, touch(s) \/ rmdir1(s)
          PROVE  FALSE
      BY <2>2 DEF touch, rmdir1
    <2>3. twice' # twice
      OBVIOUS
    <2>4. ASSUME \/ \E c \in Command : Start(c)
                 \/ \E s \in Typed : rm(s) \/ cd(s) \/ Say(s) \/ Redirect(s)
                 \/ RedirectNowhere \/ Finish
          PROVE  FALSE
      BY <2>3, <2>4 DEF Start, rm, cd, Say, Redirect, RedirectNowhere, Finish, table
    <2> QED
      BY <2>1, <2>2, <2>4 DEF Next
  <1> QED
    BY <1>1, Invariance, PTL DEF Spec, SecondEntryHasCause
=============================================================================
