--------------------------- MODULE LargeFileProofs ---------------------------
(***************************************************************************)
(* Proofs about LargeFile, for any number of pointers, blocks and files.   *)
(***************************************************************************)
EXTENDS LargeFile, FiniteSetTheorems, WellFoundedInduction, TLAPS

-----------------------------------------------------------------------------
(* Numbers, and the free blocks in their order.                            *)

LEMMA LeastExists ==
    ASSUME NEW S \in SUBSET Nat, S # {}
    PROVE  \E m \in S : \A k \in S : m <= k
  <1> DEFINE R == OpToRel(<, Nat)
  <1>1. IsWellFoundedOn(R, Nat)
    BY NatLessThanWellFounded
  <1>2. \A x, y \in Nat : <<y, x>> \in R <=> y < x
    BY DEF OpToRel
  <1> HIDE DEF R
  <1>3. PICK m \in S : \A k \in S : <<k, m>> \notin R
    BY <1>1, WFMin
  <1>4. ASSUME NEW k \in S
        PROVE  m <= k
    <2>1. m \in Nat /\ k \in Nat /\ <<k, m>> \notin R
      BY <1>3
    <2>2. ~(k < m)
      BY <1>2, <2>1
    <2> QED
      BY <2>1, <2>2
  <1> QED
    BY <1>4

\* Induction, for a set of numbers.
LEMMA UpTo ==
    ASSUME NEW n \in Nat, NEW S, 0 \in S, \A k \in 0 .. n - 1 : k \in S => k + 1 \in S
    PROVE  \A k \in 0 .. n : k \in S
  <1> SUFFICES ASSUME (0 .. n) \ S # {} PROVE FALSE
    OBVIOUS
  <1> DEFINE T == (0 .. n) \ S
  <1>0. T \in SUBSET Nat /\ T # {}
    OBVIOUS
  <1> HIDE DEF T
  <1>t. PICK m \in T : \A k \in T : m <= k
    BY <1>0, LeastExists
  <1>1. m \in (0 .. n) \ S /\ \A k \in (0 .. n) \ S : m <= k
    BY <1>t DEF T
  <1>2. m # 0 /\ m - 1 \in 0 .. n - 1 /\ m - 1 \in 0 .. n
    BY <1>1
  <1>3. m - 1 \in S
    BY <1>1, <1>2
  <1>4. (m - 1) + 1 \in S
    BY <1>2, <1>3
  <1>5. (m - 1) + 1 = m
    BY <1>1
  <1> QED
    BY <1>1, <1>4, <1>5

LEMMA FirstFacts ==
    ASSUME NEW S \in SUBSET Nat, S # {}
    PROVE  First(S) \in S /\ \A k \in S : First(S) <= k
  BY LeastExists DEF First

\* How many elements of S are not above b.
Rank(S, b) == Cardinality({x \in S : x <= b})

\* In a finite set of numbers every place is taken.
LEMMA RankExists ==
    ASSUME NEW S \in SUBSET Nat, IsFiniteSet(S), NEW n \in 1 .. Cardinality(S)
    PROVE  \E b \in S : Rank(S, b) = n
  <1> DEFINE c == Cardinality(S)
             T == {i \in 0 .. c : i # 0 => \E b \in S : Rank(S, b) = i}
  <1>1. c \in Nat
    BY FS_CardinalityType
  <1>2. 0 \in T
    BY <1>1
  <1>3. ASSUME NEW i \in 0 .. c - 1, i \in T
        PROVE  i + 1 \in T
    <2>0. i + 1 \in 0 .. c /\ i \in Nat /\ i < c
      BY <1>1
    \* The set of the elements up to the i-th one.
    <2>1. PICK B \in SUBSET S : Cardinality(B) = i /\ \A x \in B : \A y \in S : y <= x => y \in B
      <3>1. CASE i = 0
        <4>1. Cardinality({}) = 0
          BY FS_EmptySet
        <4> QED
          BY <3>1, <4>1
      <3>2. CASE i # 0
        <4>1. PICK b \in S : Rank(S, b) = i
          BY <1>3, <3>2
        <4> DEFINE D == {x \in S : x <= b}
        <4>2. Cardinality(D) = i /\ D \in SUBSET S
          BY <4>1 DEF Rank
        <4>3. \A x \in D : \A y \in S : y <= x => y \in D
          <5>1. ASSUME NEW x \in D, NEW y \in S, y <= x
                PROVE  y <= b
            <6>1. x \in Nat /\ y \in Nat /\ b \in Nat /\ x <= b
              OBVIOUS
            <6> QED
              BY <5>1, <6>1
          <5> QED
            BY <5>1
        <4> QED
          BY <4>2, <4>3
      <3> QED
        BY <3>1, <3>2
    <2> DEFINE R == S \ B
    <2>2. R \in SUBSET Nat /\ R # {}
      <3>1. S # B
        BY <2>0, <2>1
      <3> QED
        BY <3>1
    <2> HIDE DEF R
    <2>3. PICK m \in R : \A k \in R : m <= k
      BY <2>2, LeastExists
    <2>4. m \in S /\ m \notin B
      BY <2>3 DEF R
    <2>5. {x \in S : x <= m} = B \cup {m}
      <3>1. ASSUME NEW x \in S, x <= m, x \notin B
            PROVE  x = m
        <4>1. x \in R /\ m <= x /\ x \in Nat /\ m \in Nat
          BY <2>3, <2>4, <3>1 DEF R
        <4> QED
          BY <3>1, <4>1
      <3>2. ASSUME NEW x \in B
            PROVE  x \in S /\ x <= m
        <4>1. x \in Nat /\ m \in Nat /\ ~(m <= x)
          BY <2>1, <2>4
        <4> QED
          BY <4>1
      <3>3. m \in S /\ m <= m
        BY <2>2, <2>4
      <3> DEFINE D == {x \in S : x <= m}
      <3>4. \A x \in D : x \in B \cup {m}
        BY <3>1
      <3>5. \A x \in B \cup {m} : x \in D
        BY <3>2, <3>3
      <3> HIDE DEF D
      <3>6. D = B \cup {m}
        BY <3>4, <3>5
      <3> QED
        BY <3>6 DEF D
    <2>6. IsFiniteSet(B)
      BY FS_Subset
    <2>7. Cardinality(B \cup {m}) = i + 1
      BY <2>1, <2>4, <2>6, FS_AddElement
    <2> QED
      BY <2>0, <2>4, <2>5, <2>7 DEF Rank
  <1> HIDE DEF T
  <1>4. \A i \in 0 .. c : i \in T
    BY <1>1, <1>2, <1>3, UpTo
  <1> QED
    BY <1>4 DEF T

Free == Block \ used

LEMMA FreeFinite == Free \in SUBSET Nat /\ IsFiniteSet(Free) /\ Cardinality(Free) \in Nat
  <1>1. Free \subseteq Block /\ IsFiniteSet(Block) /\ Block \subseteq Nat
    BY LargeFileAssumption DEF Free
  <1> QED
    BY <1>1, FS_Subset, FS_CardinalityType

\* The blocks a write takes are free ones, and different ones.
LEMMA TakenFacts ==
    ASSUME NEW n
    PROVE  /\ Taken(n) # 0 <=> n \in 1 .. Cardinality(Free)
           /\ Taken(n) # 0 => Taken(n) \in Free /\ Rank(Free, Taken(n)) = n
           /\ Taken(n) \in Block \cup {0}
  <1>1. CASE n \in 1 .. Cardinality(Free)
    <2>1. \E b \in Free : Rank(Free, b) = n
      BY <1>1, FreeFinite, RankExists
    <2>2. Taken(n) = CHOOSE b \in Free : Rank(Free, b) = n
      BY <1>1 DEF Taken, Free, Rank
    <2>3. Taken(n) \in Free /\ Rank(Free, Taken(n)) = n
      BY <2>1, <2>2
    <2>4. Taken(n) \in Block /\ Taken(n) # 0
      BY <2>3, LargeFileAssumption DEF Free
    <2> QED
      BY <1>1, <2>3, <2>4
  <1>2. CASE n \notin 1 .. Cardinality(Free)
    BY <1>2 DEF Taken, Free
  <1> QED
    BY <1>1, <1>2

LEMMA TakenOnce ==
    ASSUME NEW m, NEW n, Taken(m) = Taken(n), Taken(n) # 0
    PROVE  m = n
  BY TakenFacts

-----------------------------------------------------------------------------
(* Types.                                                                  *)

LEMMA GFacts == G \in Nat \ {0} /\ Pointers \in Nat \ {0} /\ MaxBlocks \in Nat
                /\ MaxBlocks = G + Pointers /\ 0 \notin Block
  <1>1. G \in Nat \ {0} /\ Pointers \in Nat \ {0} /\ 0 \notin Block
    BY LargeFileAssumption
  <1>2. MaxBlocks = G + Pointers
    BY DEF MaxBlocks
  <1> QED
    BY <1>1, <1>2

\* The direct pointers, the only ones an inode stores.
LEMMA PointerType ==
    ASSUME TypeOK, NEW f \in File, NEW tab, NEW k \in 0 .. G - 1
    PROVE  Pointer(f, tab, k) \in Block \cup {0} /\ k \in 0 .. MaxBlocks - 1
  <1>1. k \in Index /\ k < G /\ k \in 0 .. MaxBlocks - 1
    BY GFacts DEF Index
  <1> QED
    BY <1>1 DEF TypeOK, Pointer

LEMMA DiskType ==
    ASSUME NEW f, NEW ptr, NEW kept, NEW size, NEW v, NEW tab, NEW at, NEW made
    PROVE  DOMAIN Filled(f, ptr, kept, size, v, tab, at, made) = Block
  BY DEF Filled

LEMMA TypeNext == TypeOK /\ [Next]_vars => TypeOK'
  <1> SUFFICES ASSUME TypeOK, [Next]_vars PROVE TypeOK'
    OBVIOUS
  <1>0. ASSUME NEW f \in File, NEW blocks, Note(f, blocks)
        PROVE  {reused', starved', astray'} \subseteq BOOLEAN
    BY <1>0 DEF Note, TypeOK
  <1>1. ASSUME NEW f \in File, NEW size \in 1 .. MaxBlocks, NEW v \in Payload, Grow(f, size, v)
        PROVE  /\ used' \subseteq Block /\ DOMAIN disk' = Block
               /\ num' \in [File -> [Index -> Block \cup {0}]]
               /\ stored' \in [File -> Payload \cup {Unknown}]
               /\ {reused', starved', astray'} \subseteq BOOLEAN
    <2> DEFINE makes == num[f][G] = 0 /\ NeedsTable(size)
               ptr(tab, inuse) == [k \in 0 .. MaxBlocks - 1 |->
                     IF k \in inuse .. size - 1 THEN Taken(k - inuse + 1)
                     ELSE Pointer(f, tab, k)]
               at(inuse) == IF makes THEN Taken(size - inuse + 1) ELSE num[f][G]
               new(inuse) == size - inuse + (IF makes THEN 1 ELSE 0)
    <2>1. PICK tab \in Garbage : \E inuse \in Counts(f, tab) :
              /\ used' = used \cup ({Taken(k) : k \in 1 .. new(inuse)} \ {0})
              /\ disk' = Filled(f, ptr(tab, inuse), inuse, size, v,
                                [k \in DOMAIN tab |-> ptr(tab, inuse)[G + k]], at(inuse), makes)
              /\ num' = [num EXCEPT ![f] =
                            [k \in Index |-> IF k < G THEN ptr(tab, inuse)[k] ELSE at(inuse)]]
              /\ Note(f, new(inuse))
              /\ stored' = [stored EXCEPT ![f] =
                     IF Direct(f) = 0 /\ new(inuse) <= Cardinality(Block \ used)
                     THEN v ELSE Unknown]
      BY <1>1 DEF Grow
    <2>1a. PICK inuse \in Counts(f, tab) :
              /\ used' = used \cup ({Taken(k) : k \in 1 .. new(inuse)} \ {0})
              /\ disk' = Filled(f, ptr(tab, inuse), inuse, size, v,
                                [k \in DOMAIN tab |-> ptr(tab, inuse)[G + k]], at(inuse), makes)
              /\ num' = [num EXCEPT ![f] =
                            [k \in Index |-> IF k < G THEN ptr(tab, inuse)[k] ELSE at(inuse)]]
              /\ Note(f, new(inuse))
              /\ stored' = [stored EXCEPT ![f] =
                     IF Direct(f) = 0 /\ new(inuse) <= Cardinality(Block \ used)
                     THEN v ELSE Unknown]
      BY <2>1
    <2>2. used' \subseteq Block
      BY <2>1a, TakenFacts DEF TypeOK
    <2>3. DOMAIN disk' = Block
      BY <2>1a, DiskType
    <2>4. ASSUME NEW k \in 0 .. G - 1
          PROVE  ptr(tab, inuse)[k] \in Block \cup {0}
      BY TakenFacts, PointerType
    <2>5. at(inuse) \in Block \cup {0}
      <3>1. G \in Index
        BY GFacts DEF Index
      <3> QED
        BY <3>1, TakenFacts DEF TypeOK
    <2> HIDE DEF ptr, at
    <2>6. ASSUME NEW k \in Index
          PROVE  (IF k < G THEN ptr(tab, inuse)[k] ELSE at(inuse)) \in Block \cup {0}
      <3>1. k < G => k \in 0 .. G - 1
        BY GFacts DEF Index
      <3> QED
        BY <2>4, <2>5, <3>1
    <2>7. num' \in [File -> [Index -> Block \cup {0}]]
      BY <2>1a, <2>6 DEF TypeOK
    <2>8. stored' \in [File -> Payload \cup {Unknown}]
      BY <2>1a DEF TypeOK
    <2> QED
      BY <1>0, <2>1a, <2>2, <2>3, <2>7, <2>8
  <1>2. ASSUME NEW f \in File, NEW size \in 1 .. MaxBlocks, NEW v \in Payload, Shrink(f, size, v)
        PROVE  /\ used' \subseteq Block /\ DOMAIN disk' = Block
               /\ num' \in [File -> [Index -> Block \cup {0}]]
               /\ stored' \in [File -> Payload \cup {Unknown}]
               /\ {reused', starved', astray'} \subseteq BOOLEAN
    <2> DEFINE gone(inuse) == inuse - size .. inuse - 1
               ptr(tab, inuse) == [k \in 0 .. MaxBlocks - 1 |->
                     IF k \in gone(inuse) THEN 0 ELSE Pointer(f, tab, k)]
               left(tab, inuse) == delete_blocks({Pointer(f, tab, k) : k \in gone(inuse)} \cup
                                     (IF size < G THEN {num[f][G]} ELSE {}))
               makes == num[f][G] = 0 /\ size >= G
               at(tab, inuse) == IF size < G THEN 0
                     ELSE IF ~makes THEN num[f][G]
                     ELSE IF left(tab, inuse) = Block THEN 0 ELSE First(Block \ left(tab, inuse))
    <2>1. PICK tab \in Garbage : \E inuse \in Counts(f, tab) :
              /\ used' = left(tab, inuse) \cup (IF makes THEN {at(tab, inuse)} \ {0} ELSE {})
              /\ disk' = Filled(f, ptr(tab, inuse), size, size, v,
                                [k \in DOMAIN tab |-> ptr(tab, inuse)[G + k]],
                                at(tab, inuse), makes)
              /\ num' = [num EXCEPT ![f] =
                     [k \in Index |-> IF k < G THEN ptr(tab, inuse)[k] ELSE at(tab, inuse)]]
              /\ Note(f, 0)
              /\ stored' = [stored EXCEPT ![f] = Unknown]
      BY <1>2 DEF Shrink
    <2>1a. PICK inuse \in Counts(f, tab) :
              /\ used' = left(tab, inuse) \cup (IF makes THEN {at(tab, inuse)} \ {0} ELSE {})
              /\ disk' = Filled(f, ptr(tab, inuse), size, size, v,
                                [k \in DOMAIN tab |-> ptr(tab, inuse)[G + k]],
                                at(tab, inuse), makes)
              /\ num' = [num EXCEPT ![f] =
                     [k \in Index |-> IF k < G THEN ptr(tab, inuse)[k] ELSE at(tab, inuse)]]
              /\ Note(f, 0)
              /\ stored' = [stored EXCEPT ![f] = Unknown]
      BY <2>1
    <2>2. left(tab, inuse) \subseteq Block
      BY DEF TypeOK, delete_blocks
    <2>3. at(tab, inuse) \in Block \cup {0}
      <3> DEFINE S == Block \ left(tab, inuse)
      <3>1. S \in SUBSET Nat /\ S \subseteq Block
        BY LargeFileAssumption
      <3>2. left(tab, inuse) # Block => S # {}
        BY <2>2
      <3>3. G \in Index
        BY GFacts DEF Index
      <3> HIDE DEF S
      <3>4. S # {} => First(S) \in S
        BY <3>1, FirstFacts
      <3>5. num[f][G] \in Block \cup {0}
        BY <3>3 DEF TypeOK
      <3>6. left(tab, inuse) # Block => First(Block \ left(tab, inuse)) \in Block
        BY <3>1, <3>2, <3>4 DEF S
      <3> HIDE DEF left
      <3> QED
        BY <3>5, <3>6
    <2>4. ASSUME NEW k \in 0 .. G - 1
          PROVE  ptr(tab, inuse)[k] \in Block \cup {0}
      BY PointerType
    <2> HIDE DEF ptr, at, left, makes
    <2>5. used' \subseteq Block /\ DOMAIN disk' = Block
      BY <2>1a, <2>2, <2>3, DiskType
    <2>6. ASSUME NEW k \in Index
          PROVE  (IF k < G THEN ptr(tab, inuse)[k] ELSE at(tab, inuse)) \in Block \cup {0}
      <3>1. k < G => k \in 0 .. G - 1
        BY GFacts DEF Index
      <3> QED
        BY <2>3, <2>4, <3>1
    <2>7. num' \in [File -> [Index -> Block \cup {0}]]
      BY <2>1a, <2>6 DEF TypeOK
    <2>8. stored' \in [File -> Payload \cup {Unknown}]
      BY <2>1a DEF TypeOK
    <2> QED
      BY <1>0, <2>1a, <2>5, <2>7, <2>8
  <1>3. ASSUME NEW f \in File, NEW size \in 1 .. MaxBlocks, NEW v \in Payload,
               Overwrite(f, size, v)
        PROVE  /\ used' \subseteq Block /\ DOMAIN disk' = Block
               /\ num' \in [File -> [Index -> Block \cup {0}]]
               /\ stored' \in [File -> Payload \cup {Unknown}]
               /\ {reused', starved', astray'} \subseteq BOOLEAN
    <2>1. PICK tab \in Garbage :
              disk' = Filled(f, [k \in 0 .. MaxBlocks - 1 |-> Pointer(f, tab, k)],
                             size, size, v, tab, 0, FALSE)
      BY <1>3 DEF Overwrite
    <2>2. DOMAIN disk' = Block
      BY <2>1, DiskType
    <2>3. /\ used' = used /\ num' = num /\ Note(f, 0)
          /\ stored' = [stored EXCEPT ![f] = Unknown]
      BY <1>3 DEF Overwrite
    <2> QED
      BY <1>0, <2>2, <2>3 DEF TypeOK
  <1>4. ASSUME NEW f \in File, NEW size \in 1 .. MaxBlocks, NEW v \in Payload,
               write_file(f, size, v)
        PROVE  TypeOK'
    <2>1. file_size' \in [File -> 0 .. MaxBlocks]
      <3>1. size \in 0 .. MaxBlocks
        BY GFacts
      <3> QED
        BY <1>4, <3>1 DEF write_file, TypeOK
    <2> QED
      BY <1>1, <1>2, <1>3, <1>4, <2>1 DEF write_file, TypeOK
  <1>5. ASSUME NEW f \in File, delete_file(f)
        PROVE  TypeOK'
    <2>1. file_size' \in [File -> 0 .. MaxBlocks]
      <3>1. 0 \in 0 .. MaxBlocks
        BY GFacts
      <3> QED
        BY <1>5, <3>1 DEF delete_file, TypeOK
    <2>2. used' \subseteq Block /\ disk' = disk /\ Note(f, 0)
      BY <1>5 DEF delete_file, delete_blocks, TypeOK
    <2>3. num' \in [File -> [Index -> Block \cup {0}]]
      BY <1>5 DEF delete_file, TypeOK
    <2>4. stored' \in [File -> Payload \cup {Unknown}]
      BY <1>5 DEF delete_file, TypeOK
    <2> QED
      BY <1>0, <2>1, <2>2, <2>3, <2>4 DEF TypeOK
  <1>6. CASE UNCHANGED vars
    BY <1>6 DEF vars, TypeOK
  <1>7. ASSUME NEW f \in File, Stray(f)
        PROVE  TypeOK'
    BY <1>7 DEF Stray, TypeOK
  <1> QED
    BY <1>4, <1>5, <1>6, <1>7 DEF Next

\* Every reachable state is well typed: as long as no operation overruns its
\* locals or reaches the reserved blocks (Stray, where the module stops), the
\* pointers an inode holds lead to data blocks and no file is longer than its
\* pointers, also when write_file goes by an unset count and by pointers of an
\* unset table, which may be any ints (write_file, delete_file).
THEOREM TypeCorrect == Spec => []TypeOK
  <1>1. Init => TypeOK
    <2>1. 0 \in 0 .. MaxBlocks
      BY GFacts
    <2> QED
      BY <2>1 DEF Init, TypeOK
  <1> QED
    BY <1>1, TypeNext, PTL DEF Spec

-----------------------------------------------------------------------------
(* The invariant.                                                          *)

\* Where the data of a file is: the pieces through a pointer, and the indirect
\* block, counted as the last.
Slots(f) ==
    {k \in 0 .. MaxBlocks :
        IF k < G THEN num[f][k] # 0
        ELSE num[f][G] # 0 /\ (k = MaxBlocks \/ k < file_size[f])}

At(f, k) == IF k = MaxBlocks THEN num[f][G] ELSE Where(f, k)

\* Slot k of f is one of its own, on a marked block no other slot names.
Good(f) ==
    /\ \A k \in 0 .. G - 1 : \A j \in 0 .. k : num[f][k] # 0 => num[f][j] # 0
    /\ num[f][G] # 0 =>
           /\ num[f][G - 1] # 0 /\ file_size[f] > G
           /\ \E tab : disk[num[f][G]] = Indirect(tab)
    /\ \A k \in Slots(f) : At(f, k) \in used
    /\ \A j, k \in Slots(f) : At(f, j) = At(f, k) => j = k
    /\ stored[f] # Unknown =>
           \A k \in 0 .. file_size[f] - 1 :
               k \in Slots(f) /\ disk[At(f, k)] = Data(f, stored[f], k)

\* No block is the slot of two files.
Unshared ==
    \A f, g \in File : f # g =>
        \A j \in Slots(f), k \in Slots(g) : At(f, j) # At(g, k)

\* Every marked block that delete_block can release is the slot of a file.
Accounted == \A b \in used : b < SIZE_OF_BLOCK => \E f \in File : \E k \in Slots(f) : At(f, k) = b

Files == (\A f \in File : Good(f)) /\ Unshared /\ (~starved => Accounted)

\* The files are sound until an operation meets one without a free direct
\* pointer.
Inv == TypeOK /\ (~reused => Files)

LEMMA SlotType ==
    ASSUME NEW f \in File, NEW k \in Slots(f)
    PROVE  k \in 0 .. MaxBlocks /\ MaxBlocks \in Nat /\ G \in Nat \ {0} /\ MaxBlocks > G
  BY GFacts DEF Slots

\* A file with a free direct pointer: its pointers are set up to that one, and
\* it has no indirect block, so write_file counts them right.
LEMMA Below ==
    ASSUME TypeOK, NEW f \in File, Good(f), Direct(f) # G
    PROVE  /\ Direct(f) \in 0 .. G - 1
           /\ \A k \in 0 .. G - 1 : num[f][k] # 0 <=> k < Direct(f)
           /\ num[f][G] = 0
           /\ Slots(f) = 0 .. Direct(f) - 1
           /\ \A k \in Slots(f) : At(f, k) = num[f][k]
           /\ \A tab : Counts(f, tab) = {Direct(f)}
  <1> DEFINE d == Direct(f)
             S == {k \in 0 .. G - 1 : num[f][k] = 0} \cup {G}
  <1>0. G \in Nat \ {0} /\ MaxBlocks \in Nat /\ MaxBlocks > G
    BY GFacts
  <1>1. S \in SUBSET Nat /\ S # {}
    BY <1>0
  <1>2. d = First(S)
    BY DEF Direct
  <1> HIDE DEF S
  <1>3. d \in S /\ \A k \in S : d <= k
    BY <1>1, <1>2, FirstFacts
  <1> HIDE DEF d
  <1>4. d \in 0 .. G - 1 /\ num[f][d] = 0
    BY <1>3 DEF S, d
  <1>5. \A k \in 0 .. G - 1 : num[f][k] # 0 <=> k < d
    <2>1. ASSUME NEW k \in 0 .. G - 1, num[f][k] # 0
          PROVE  k < d
      <3>1. ~(d <= k)
        <4>1. d <= k => d \in 0 .. k
          BY <1>0, <1>4
        <4>2. d \in 0 .. k => num[f][d] # 0
          BY <2>1 DEF Good
        <4> QED
          BY <1>4, <4>1, <4>2
      <3> QED
        BY <1>0, <1>4, <3>1
    <2>2. ASSUME NEW k \in 0 .. G - 1, k < d
          PROVE  num[f][k] # 0
      <3>1. k \notin S
        BY <1>0, <1>3, <1>4, <2>2
      <3> QED
        BY <3>1 DEF S
    <2> QED
      BY <2>1, <2>2
  <1>6. num[f][G] = 0
    <2>1. G - 1 \in 0 .. G - 1 /\ ~(G - 1 < d)
      BY <1>0, <1>4
    <2>2. num[f][G - 1] = 0
      BY <1>5, <2>1
    <2> QED
      BY <2>2 DEF Good
  <1>7. Slots(f) = 0 .. d - 1
    <2>1. \A k \in Slots(f) : k \in 0 .. d - 1
      BY <1>0, <1>4, <1>5, <1>6 DEF Slots
    <2>2. \A k \in 0 .. d - 1 : k \in Slots(f)
      BY <1>0, <1>4, <1>5 DEF Slots
    <2> QED
      BY <2>1, <2>2
  <1>8. ASSUME NEW k \in Slots(f)
        PROVE  At(f, k) = num[f][k]
    BY <1>0, <1>4, <1>7, <1>8 DEF At, Where
  <1>9. ASSUME NEW tab
        PROVE  Counts(f, tab) = {d}
    <2>1. d < G
      BY <1>0, <1>4
    <2> QED
      BY <1>6, <2>1 DEF Counts, d
  <1> QED
    BY <1>4, <1>5, <1>6, <1>7, <1>8, <1>9 DEF d

\* A step that leaves a file and the blocks of its slots alone keeps it.
LEMMA Others ==
    ASSUME NEW g \in File, Good(g), num'[g] = num[g], file_size'[g] = file_size[g],
           stored'[g] = stored[g],
           \A k \in Slots(g) : At(g, k) \in used' /\ disk'[At(g, k)] = disk[At(g, k)]
    PROVE  Good(g)' /\ Slots(g)' = Slots(g) /\ \A k : At(g, k)' = At(g, k)
  <1>0. G \in Nat \ {0} /\ MaxBlocks \in Nat /\ MaxBlocks > G
    BY GFacts
  <1>1. Slots(g)' = Slots(g)
    BY DEF Slots
  <1>2. num[g][G] # 0 => disk'[num[g][G]] = disk[num[g][G]]
    <2>1. ASSUME num[g][G] # 0
          PROVE  MaxBlocks \in Slots(g) /\ At(g, MaxBlocks) = num[g][G]
      BY <1>0, <2>1 DEF Slots, At
    <2> QED
      BY <2>1
  <1>3. Table(g)' = Table(g)
    BY <1>2 DEF Table
  <1>4. ASSUME NEW k
        PROVE  At(g, k)' = At(g, k)
    BY <1>3 DEF At, Where
  <1>5. Good(g)'
    <2>1. \A k \in 0 .. G - 1 : \A j \in 0 .. k : num'[g][k] # 0 => num'[g][j] # 0
      BY DEF Good
    <2>2. num'[g][G] # 0 => /\ num'[g][G - 1] # 0 /\ file_size'[g] > G
                            /\ \E tab : disk'[num'[g][G]] = Indirect(tab)
      BY <1>2 DEF Good
    <2>3. \A k \in Slots(g)' : At(g, k)' \in used'
      BY <1>1, <1>4
    <2>4. \A j, k \in Slots(g)' : At(g, j)' = At(g, k)' => j = k
      BY <1>1, <1>4 DEF Good
    <2>5. stored'[g] # Unknown => \A k \in 0 .. file_size'[g] - 1 :
              k \in Slots(g)' /\ disk'[At(g, k)'] = Data(g, stored'[g], k)
      BY <1>1, <1>4 DEF Good
    <2> QED
      BY <2>1, <2>2, <2>3, <2>4, <2>5 DEF Good
  <1> QED
    BY <1>1, <1>4, <1>5

LEMMA FilledFacts ==
    ASSUME NEW f, NEW ptr, NEW kept, NEW size, NEW v, NEW tab, NEW at, NEW made,
           disk' = Filled(f, ptr, kept, size, v, tab, at, made), NEW b \in Block
    PROVE  /\ b # at /\ (\A k \in 0 .. size - 1 : ptr[k] # b) => disk'[b] = disk[b]
           /\ b = at /\ made => disk'[b] = Indirect(tab)
           /\ b # at =>
                  \A k \in 0 .. size - 1 :
                      k >= kept /\ (\A j \in 0 .. size - 1 : ptr[j] = b <=> j = k) =>
                          disk'[b] = Data(f, v, k)
  <1> DEFINE ks == {k \in 0 .. size - 1 : ptr[k] = b /\ (k >= kept \/ modifies(b))}
  <1>1. disk'[b] = IF b = at /\ (made \/ modifies(b)) THEN Indirect(tab)
                   ELSE IF ks # {} THEN Data(f, v, Max(ks)) ELSE disk[b]
    BY DEF Filled
  <1>2. ASSUME \A k \in 0 .. size - 1 : ptr[k] # b
        PROVE  ks = {}
    BY <1>2
  <1>3. ASSUME NEW k \in 0 .. size - 1, k >= kept,
               \A j \in 0 .. size - 1 : ptr[j] = b <=> j = k
        PROVE  ks = {k} /\ Max(ks) = k
    <2>1. ks = {k}
      BY <1>3
    <2>2. Max({k}) = k
      BY DEF Max
    <2> HIDE DEF ks
    <2> QED
      BY <2>1, <2>2
  <1> HIDE DEF ks
  <1>4. b # at /\ (\A k \in 0 .. size - 1 : ptr[k] # b) => disk'[b] = disk[b]
    BY <1>1, <1>2
  <1>5. ASSUME b # at, NEW k \in 0 .. size - 1, k >= kept,
               \A j \in 0 .. size - 1 : ptr[j] = b <=> j = k
        PROVE  disk'[b] = Data(f, v, k)
    <2>1. ks = {k} /\ Max(ks) = k
      BY <1>3, <1>5
    <2>2. ks # {}
      BY <2>1
    <2> QED
      BY <1>1, <1>5, <2>1, <2>2
  <1> QED
    BY <1>1, <1>4, <1>5

\* A step that cuts a file, which has a free direct pointer, to its first m
\* blocks, and writes into no others' blocks.
LEMMA Cuts ==
    ASSUME TypeOK, Files, NEW f \in File, Direct(f) # G, NEW m \in 0 .. Direct(f),
           num' = [num EXCEPT ![f] = [k \in Index |-> IF k < m THEN num[f][k] ELSE 0]],
           \A g \in File : g # f => file_size'[g] = file_size[g],
           stored' = [stored EXCEPT ![f] = Unknown],
           used' = delete_blocks({num[f][k] : k \in m .. Direct(f) - 1}),
           starved' = starved,
           \A b \in Block : (\A k \in Slots(f) : At(f, k) # b) => disk'[b] = disk[b]
    PROVE  Files'
  <1> DEFINE d == Direct(f)
  <1>0. G \in Nat \ {0} /\ MaxBlocks \in Nat /\ MaxBlocks > G
    BY GFacts
  <1>1. /\ d \in 0 .. G - 1
        /\ \A k \in 0 .. G - 1 : num[f][k] # 0 <=> k < d
        /\ num[f][G] = 0
        /\ Slots(f) = 0 .. d - 1
        /\ \A k \in Slots(f) : At(f, k) = num[f][k]
    BY Below DEF Files
  <1>2. m \in 0 .. d /\ m \in Nat
    BY <1>1
  <1>2a. used' = delete_blocks({num[f][k] : k \in m .. d - 1})
    OBVIOUS
  <1> HIDE DEF d
  <1>3. \A k \in Index : num'[f][k] = IF k < m THEN num[f][k] ELSE 0
    BY DEF TypeOK
  <1>4. \A g \in File : g # f => num'[g] = num[g] /\ stored'[g] = stored[g]
    BY DEF TypeOK
  <1>5. stored'[f] = Unknown
    BY DEF TypeOK
  <1>6. \A k \in 0 .. G : k \in Index
    BY DEF Index
  <1>7. num'[f][G] = 0
    BY <1>0, <1>1, <1>2, <1>3, <1>6
  <1>8. \A k \in 0 .. G - 1 : num'[f][k] = (IF k < m THEN num[f][k] ELSE 0)
                              /\ (num'[f][k] # 0 <=> k < m)
    <2>1. ASSUME NEW k \in 0 .. G - 1
          PROVE  num'[f][k] = (IF k < m THEN num[f][k] ELSE 0)
                 /\ (num'[f][k] # 0 <=> k < m)
      <3>1. k \in Index
        BY <1>0, <1>6
      <3>2. k < m => num[f][k] # 0
        BY <1>1, <1>2
      <3> QED
        BY <1>3, <3>1, <3>2
    <2> QED
      BY <2>1
  <1>9. Slots(f)' = 0 .. m - 1
    <2>1. \A k \in Slots(f)' : k \in 0 .. m - 1
      BY <1>0, <1>2, <1>7, <1>8, SMTT(30) DEF Slots
    <2>2. ASSUME NEW k \in 0 .. m - 1 PROVE k \in Slots(f)'
      <3>1. k \in 0 .. G - 1 /\ k < m /\ k \in 0 .. MaxBlocks
        BY <1>0, <1>1, <1>2
      <3> QED
        BY <1>0, <1>8, <3>1 DEF Slots
    <2> QED
      BY <2>1, <2>2
  <1>10. ASSUME NEW k \in Slots(f)'
         PROVE  k \in Slots(f) /\ At(f, k)' = At(f, k)
    <2>1. k \in 0 .. m - 1 /\ k \in 0 .. d - 1 /\ k \in 0 .. G - 1 /\ k # MaxBlocks /\ k < G
      BY <1>0, <1>1, <1>2, <1>9, <1>10
    <2>2. num'[f][k] = num[f][k]
      BY <1>2, <1>8, <2>1
    <2>3. At(f, k)' = num'[f][k]
      BY <2>1 DEF At, Where
    <2> QED
      BY <1>1, <2>1, <2>2, <2>3
  \* What is released is of f.
  <1>11. ASSUME NEW b \in used, b \notin used'
         PROVE  \E k \in Slots(f) : At(f, k) = b /\ k \notin Slots(f)'
    <2>1. PICK k \in m .. d - 1 : b = num[f][k]
      BY <1>2a, <1>11 DEF delete_blocks
    <2>2. k \in 0 .. d - 1 /\ k \notin 0 .. m - 1
      BY <1>1, <1>2
    <2> QED
      BY <1>1, <1>9, <2>1, <2>2
  <1>12. ASSUME NEW g \in File, g # f
         PROVE  Good(g)' /\ Slots(g)' = Slots(g) /\ \A k : At(g, k)' = At(g, k)
    <2>1. ASSUME NEW k \in Slots(g)
          PROVE  At(g, k) \in used' /\ disk'[At(g, k)] = disk[At(g, k)]
      <3>1. \A j \in Slots(f) : At(f, j) # At(g, k)
        BY <1>12 DEF Files, Unshared
      <3>2. At(g, k) \in used /\ At(g, k) \in Block
        BY DEF Files, Good, TypeOK
      <3> QED
        BY <1>11, <3>1, <3>2
    <2>2. num'[g] = num[g] /\ stored'[g] = stored[g] /\ file_size'[g] = file_size[g] /\ Good(g)
      BY <1>4, <1>12 DEF Files
    <2> QED
      BY <2>1, <2>2, Others
  <1>13. Good(f)'
    <2>1. \A k \in 0 .. G - 1 : \A j \in 0 .. k : num'[f][k] # 0 => num'[f][j] # 0
      <3>1. ASSUME NEW k \in 0 .. G - 1, NEW j \in 0 .. k, num'[f][k] # 0
            PROVE  num'[f][j] # 0
        <4>1. k < m /\ j \in 0 .. G - 1
          BY <1>0, <1>8, <3>1
        <4>2. j < m
          BY <1>2, <4>1
        <4> QED
          BY <1>8, <4>1, <4>2
      <3> QED
        BY <3>1
    <2>2. ASSUME NEW k \in Slots(f)'
          PROVE  At(f, k)' \in used'
      <3>1. k \in Slots(f) /\ At(f, k)' = At(f, k) /\ At(f, k) \in used
        BY <1>10 DEF Files, Good
      <3>2. ASSUME At(f, k) \notin used' PROVE FALSE
        <4>1. PICK j \in Slots(f) : At(f, j) = At(f, k) /\ j \notin Slots(f)'
          BY <1>11, <3>1, <3>2
        <4>2. j = k
          BY <3>1, <4>1 DEF Files, Good
        <4> QED
          BY <4>1, <4>2
      <3> QED
        BY <3>1, <3>2
    <2>3. \A j, k \in Slots(f)' : At(f, j)' = At(f, k)' => j = k
      BY <1>10 DEF Files, Good
    <2> QED
      BY <1>5, <1>7, <2>1, <2>2, <2>3 DEF Good
  <1>14. Unshared'
    <2>1. ASSUME NEW g \in File, NEW h \in File, g # h,
                 NEW j \in Slots(g)', NEW k \in Slots(h)'
          PROVE  At(g, j)' # At(h, k)'
      <3>1. /\ j \in Slots(g) /\ At(g, j)' = At(g, j)
            /\ k \in Slots(h) /\ At(h, k)' = At(h, k)
        BY <1>10, <1>12
      <3> QED
        BY <2>1, <3>1 DEF Files, Unshared
    <2> QED
      BY <2>1 DEF Unshared
  <1>15. ASSUME ~starved', NEW b \in used', b < SIZE_OF_BLOCK
         PROVE  \E g \in File : \E k \in Slots(g)' : At(g, k)' = b
    <2>1. PICK g \in File : \E k \in Slots(g) : At(g, k) = b
      BY <1>2a, <1>15 DEF Files, Accounted, delete_blocks
    <2>2. PICK k \in Slots(g) : At(g, k) = b
      BY <2>1
    <2>3. CASE g # f
      BY <1>12, <2>2, <2>3
    <2>4. CASE g = f
      <3>1. k \in 0 .. d - 1 /\ b = num[f][k]
        BY <1>1, <2>2, <2>4
      <3>2. k \notin m .. d - 1
        BY <1>2a, <1>15, <3>1 DEF delete_blocks
      <3>3. k \in 0 .. m - 1
        BY <1>1, <1>2, <3>1, <3>2
      <3> QED
        BY <1>9, <1>10, <2>2, <2>4, <3>3
    <2> QED
      BY <2>3, <2>4
  <1>16. \A g \in File : Good(g)'
    BY <1>12, <1>13
  <1> QED
    BY <1>14, <1>15, <1>16 DEF Files, Accounted

\* A step that meets a free direct pointer and takes no block.
LEMMA NoneTaken ==
    ASSUME TypeOK, NEW f \in File, Note(f, 0), ~reused'
    PROVE  ~reused /\ Direct(f) # G /\ starved' = starved
  <1>1. ~reused /\ Direct(f) # G
    BY DEF Note
  <1>2. ~(0 > Cardinality(Block \ used))
    BY FreeFinite DEF Free
  <1> QED
    BY <1>1, <1>2 DEF Note, TypeOK

LEMMA ShrinkStep ==
    ASSUME TypeOK, Files, NEW f \in File, NEW size \in 1 .. MaxBlocks, NEW v, Shrink(f, size, v),
           \A g \in File : g # f => file_size'[g] = file_size[g], ~reused'
    PROVE  Files'
  <1> DEFINE d == Direct(f)
             m == d - size
             gone == d - size .. d - 1
             ptr(tab) == [k \in 0 .. MaxBlocks - 1 |->
                             IF k \in gone THEN 0 ELSE Pointer(f, tab, k)]
             left(tab) == delete_blocks({Pointer(f, tab, k) : k \in gone} \cup
                                        (IF size < G THEN {num[f][G]} ELSE {}))
             makes == num[f][G] = 0 /\ size >= G
             at(tab) == IF size < G THEN 0
                        ELSE IF ~makes THEN num[f][G]
                        ELSE IF left(tab) = Block THEN 0 ELSE First(Block \ left(tab))
  <1>0. G \in Nat \ {0} /\ MaxBlocks \in Nat /\ MaxBlocks > G /\ 0 \notin Block
    BY GFacts
  <1>1. Note(f, 0) /\ stored' = [stored EXCEPT ![f] = Unknown]
    BY DEF Shrink
  <1>2. Direct(f) # G /\ starved' = starved
    BY <1>1, NoneTaken
  <1>3. /\ d \in 0 .. G - 1
        /\ \A k \in 0 .. G - 1 : num[f][k] # 0 <=> k < d
        /\ num[f][G] = 0
        /\ Slots(f) = 0 .. d - 1
        /\ \A k \in Slots(f) : At(f, k) = num[f][k]
        /\ \A tab : Counts(f, tab) = {d}
    BY <1>2, Below DEF Files
  <1>4. PICK tab \in Garbage :
            /\ d > size
            /\ used' = left(tab) \cup (IF makes THEN {at(tab)} \ {0} ELSE {})
            /\ disk' = Filled(f, ptr(tab), size, size, v,
                              [k \in DOMAIN tab |-> ptr(tab)[G + k]], at(tab), makes)
            /\ num' = [num EXCEPT ![f] =
                          [k \in Index |-> IF k < G THEN ptr(tab)[k] ELSE at(tab)]]
    <2> DEFINE goneI(i) == i - size .. i - 1
               ptrI(tab, i) == [k \in 0 .. MaxBlocks - 1 |->
                     IF k \in goneI(i) THEN 0 ELSE Pointer(f, tab, k)]
               leftI(tab, i) == delete_blocks({Pointer(f, tab, k) : k \in goneI(i)} \cup
                                     (IF size < G THEN {num[f][G]} ELSE {}))
               atI(tab, i) == IF size < G THEN 0
                     ELSE IF ~makes THEN num[f][G]
                     ELSE IF leftI(tab, i) = Block THEN 0 ELSE First(Block \ leftI(tab, i))
    <2>1. PICK tab \in Garbage : \E i \in Counts(f, tab) :
              /\ i > size
              /\ used' = leftI(tab, i) \cup (IF makes THEN {atI(tab, i)} \ {0} ELSE {})
              /\ disk' = Filled(f, ptrI(tab, i), size, size, v,
                                [k \in DOMAIN tab |-> ptrI(tab, i)[G + k]], atI(tab, i), makes)
              /\ num' = [num EXCEPT ![f] =
                     [k \in Index |-> IF k < G THEN ptrI(tab, i)[k] ELSE atI(tab, i)]]
      BY DEF Shrink
    <2>2. PICK i \in Counts(f, tab) :
              /\ i > size
              /\ used' = leftI(tab, i) \cup (IF makes THEN {atI(tab, i)} \ {0} ELSE {})
              /\ disk' = Filled(f, ptrI(tab, i), size, size, v,
                                [k \in DOMAIN tab |-> ptrI(tab, i)[G + k]], atI(tab, i), makes)
              /\ num' = [num EXCEPT ![f] =
                     [k \in Index |-> IF k < G THEN ptrI(tab, i)[k] ELSE atI(tab, i)]]
      BY <2>1
    <2>3. i = d
      BY <1>3
    <2>4. goneI(i) = gone
      BY <2>3
    <2> HIDE DEF goneI, gone, makes
    <2>5. ptrI(tab, i) = ptr(tab) /\ leftI(tab, i) = left(tab)
      BY <2>4
    <2> HIDE DEF ptrI, ptr, leftI, left
    <2>6. atI(tab, i) = at(tab)
      BY <2>5
    <2> HIDE DEF atI, at
    <2>7. /\ d > size
          /\ used' = left(tab) \cup (IF makes THEN {at(tab)} \ {0} ELSE {})
          /\ disk' = Filled(f, ptr(tab), size, size, v,
                            [k \in DOMAIN tab |-> ptr(tab)[G + k]], at(tab), makes)
          /\ num' = [num EXCEPT ![f] =
                        [k \in Index |-> IF k < G THEN ptr(tab)[k] ELSE at(tab)]]
      BY <2>2, <2>3, <2>5, <2>6
    <2> QED
      BY <2>7
  <1>5. at(tab) = 0 /\ size < G /\ ~makes
    BY <1>0, <1>3, <1>4
  <1>6. ASSUME NEW k \in 0 .. G - 1
        PROVE  /\ Pointer(f, tab, k) = num[f][k]
               /\ ptr(tab)[k] = IF k < m THEN num[f][k] ELSE 0
    <2>1. Pointer(f, tab, k) = num[f][k] /\ k \in 0 .. MaxBlocks - 1
      BY <1>0 DEF Pointer
    <2>2. ptr(tab)[k] = IF k \in gone THEN 0 ELSE num[f][k]
      BY <2>1
    <2>3. k < m => k \notin gone
      BY <1>0, <1>3
    <2>4. ~(k < m) /\ k \notin gone => num[f][k] = 0
      BY <1>0, <1>3
    <2> QED
      BY <2>1, <2>2, <2>3, <2>4
  <1> HIDE DEF ptr, at, makes
  <1>7. num' = [num EXCEPT ![f] = [k \in Index |-> IF k < m THEN num[f][k] ELSE 0]]
    <2>1. ASSUME NEW k \in Index
          PROVE  (IF k < G THEN ptr(tab)[k] ELSE at(tab)) = (IF k < m THEN num[f][k] ELSE 0)
      <3>1. CASE k < G
        <4>1. k \in 0 .. G - 1
          BY <1>0, <3>1 DEF Index
        <4> QED
          BY <1>6, <3>1, <4>1
      <3>2. CASE ~(k < G)
        <4>1. ~(k < m)
          BY <1>0, <1>3, <3>2 DEF Index
        <4> QED
          BY <1>5, <3>2, <4>1
      <3> QED
        BY <3>1, <3>2
    <2>2. [k \in Index |-> IF k < G THEN ptr(tab)[k] ELSE at(tab)]
              = [k \in Index |-> IF k < m THEN num[f][k] ELSE 0]
      BY <2>1
    <2> QED
      BY <1>4, <2>2
  <1>8. m \in 0 .. Direct(f)
    BY <1>0, <1>3, <1>4
  <1>9. used' = delete_blocks({num[f][k] : k \in m .. Direct(f) - 1})
    <2>1. \A k \in gone : k \in 0 .. G - 1
      BY <1>0, <1>3, <1>4
    <2>2. {Pointer(f, tab, k) : k \in gone} = {num[f][k] : k \in gone}
      BY <1>6, <2>1
    <2>3. left(tab) = delete_blocks({num[f][k] : k \in gone})
      BY <1>0, <1>3, <1>5, <2>2 DEF TypeOK, delete_blocks
    <2> QED
      BY <1>4, <1>5, <2>3
  <1>10. ASSUME NEW b \in Block, \A k \in Slots(f) : At(f, k) # b
         PROVE  disk'[b] = disk[b]
    <2>1. b # 0 /\ b # at(tab)
      BY <1>0, <1>5
    <2>2. ASSUME NEW k \in 0 .. size - 1
          PROVE  ptr(tab)[k] # b
      <3>1. k \in 0 .. G - 1 /\ k \in Slots(f)
        BY <1>0, <1>3, <1>4, <1>5
      <3>2. At(f, k) = num[f][k]
        BY <1>3, <3>1
      <3> QED
        BY <1>6, <1>10, <2>1, <3>1, <3>2
    <2> HIDE DEF at
    <2> QED
      BY <1>4, <2>1, <2>2, FilledFacts
  <1> HIDE DEF m
  <1> QED
    BY <1>1, <1>2, <1>7, <1>8, <1>9, <1>10, Cuts

LEMMA OverwriteStep ==
    ASSUME TypeOK, Files, NEW f \in File, NEW size \in 1 .. MaxBlocks, NEW v,
           Overwrite(f, size, v),
           \A g \in File : g # f => file_size'[g] = file_size[g], ~reused'
    PROVE  Files'
  <1> DEFINE d == Direct(f)
             ptr(tab) == [k \in 0 .. MaxBlocks - 1 |-> Pointer(f, tab, k)]
  <1>0. G \in Nat \ {0} /\ MaxBlocks \in Nat /\ MaxBlocks > G /\ 0 \notin Block
    BY GFacts
  <1>1. Note(f, 0) /\ stored' = [stored EXCEPT ![f] = Unknown] /\ used' = used /\ num' = num
    BY DEF Overwrite
  <1>2. Direct(f) # G /\ starved' = starved
    BY <1>1, NoneTaken
  <1>3. /\ d \in 0 .. G - 1
        /\ \A k \in 0 .. G - 1 : num[f][k] # 0 <=> k < d
        /\ num[f][G] = 0
        /\ Slots(f) = 0 .. d - 1
        /\ \A k \in Slots(f) : At(f, k) = num[f][k]
        /\ \A tab : Counts(f, tab) = {d}
    BY <1>2, Below DEF Files
  <1>4. PICK tab \in Garbage : size = d /\ disk' = Filled(f, ptr(tab), size, size, v, tab, 0, FALSE)
    BY <1>3, ZenonT(30) DEF Overwrite
  <1>5. num' = [num EXCEPT ![f] = [k \in Index |-> IF k < d THEN num[f][k] ELSE 0]]
    <2>1. num \in [File -> [Index -> Block \cup {0}]]
      BY DEF TypeOK
    <2>2. ASSUME NEW k \in Index
          PROVE  num[f][k] = IF k < d THEN num[f][k] ELSE 0
      <3>1. k \in 0 .. G - 1 \/ k = G
        BY <1>0 DEF Index
      <3> QED
        BY <1>0, <1>3, <3>1
    <2>3. num[f] = [k \in Index |-> IF k < d THEN num[f][k] ELSE 0]
      BY <2>1, <2>2
    <2> QED
      BY <1>1, <2>1, <2>3
  <1>6. d \in 0 .. Direct(f)
    BY <1>0, <1>3
  <1>7. used' = delete_blocks({num[f][k] : k \in d .. Direct(f) - 1})
    BY <1>1, <1>3 DEF delete_blocks
  <1>8. ASSUME NEW b \in Block, \A k \in Slots(f) : At(f, k) # b
        PROVE  disk'[b] = disk[b]
    <2>1. b # 0
      BY <1>0
    <2>2. ASSUME NEW k \in 0 .. size - 1
          PROVE  ptr(tab)[k] # b
      <3>1. k \in 0 .. MaxBlocks - 1 /\ k < G /\ k \in Slots(f)
        BY <1>0, <1>3, <1>4
      <3>2. At(f, k) = num[f][k] /\ ptr(tab)[k] = num[f][k]
        BY <1>3, <3>1 DEF Pointer
      <3> QED
        BY <1>8, <3>1, <3>2
    <2> HIDE DEF ptr
    <2> QED
      <3>1. PICK made : disk' = Filled(f, ptr(tab), size, size, v, tab, 0, made)
        BY <1>4
      <3> QED
        BY <2>1, <2>2, <3>1, FilledFacts
  <1> QED
    BY <1>1, <1>2, <1>5, <1>6, <1>7, <1>8, Cuts

LEMMA DeleteStep ==
    ASSUME TypeOK, Files, NEW f \in File, delete_file(f), ~reused'
    PROVE  Files'
  <1> DEFINE d == Direct(f)
  <1>0. G \in Nat \ {0} /\ Pointers \in Nat
    BY GFacts
  <1>1. /\ Note(f, 0) /\ stored' = [stored EXCEPT ![f] = Unknown] /\ disk' = disk
        /\ num' = [num EXCEPT ![f] = [k \in Index |-> 0]]
        /\ file_size' = [file_size EXCEPT ![f] = 0]
    BY DEF delete_file
  <1>2. Direct(f) # G /\ starved' = starved
    BY <1>1, NoneTaken
  <1>3. /\ d \in 0 .. G - 1
        /\ \A k \in 0 .. G - 1 : num[f][k] # 0 <=> k < d
    BY <1>2, Below DEF Files
  <1>4. LastPointer(f) = 0
    BY <1>0, <1>3 DEF LastPointer
  <1>5. Released(Zeroes) = {}
    <2>1. ASSUME NEW k \in DOMAIN Zeroes
          PROVE  ~(\A l \in 0 .. k : Zeroes[l] # 0)
      <3>1. k \in 0 .. k /\ Zeroes[k] = 0
        BY <1>0 DEF Zeroes
      <3> QED
        BY <3>1
    <2> QED
      BY <2>1 DEF Released
  <1>6. used' = delete_blocks({num[f][k] : k \in 0 .. Direct(f) - 1})
    BY <1>4, <1>5 DEF delete_file, DirectBlocks
  <1>7. num' = [num EXCEPT ![f] = [k \in Index |-> IF k < 0 THEN num[f][k] ELSE 0]]
    <2>1. [k \in Index |-> 0] = [k \in Index |-> IF k < 0 THEN num[f][k] ELSE 0]
      BY DEF Index
    <2> QED
      BY <1>1, <2>1
  <1>8. 0 \in 0 .. Direct(f)
    BY <1>3
  <1>9. \A g \in File : g # f => file_size'[g] = file_size[g]
    BY <1>1 DEF TypeOK
  <1> QED
    BY <1>1, <1>2, <1>6, <1>7, <1>8, <1>9, Cuts

\* A step that writes into a file with a free direct pointer more than it holds.
LEMMA GrowStep ==
    ASSUME TypeOK, Files, NEW f \in File, NEW size \in 1 .. MaxBlocks, NEW v, Grow(f, size, v),
           file_size' = [file_size EXCEPT ![f] = size], ~reused'
    PROVE  Files'
  <1> DEFINE d == Direct(f)
             makes == num[f][G] = 0 /\ NeedsTable(size)
             ptrI(tab, inuse) == [k \in 0 .. MaxBlocks - 1 |->
                   IF k \in inuse .. size - 1 THEN Taken(k - inuse + 1) ELSE Pointer(f, tab, k)]
             atI(inuse) == IF makes THEN Taken(size - inuse + 1) ELSE num[f][G]
             newI(inuse) == size - inuse + (IF makes THEN 1 ELSE 0)
  <1>a. PICK tab \in Garbage : \E inuse \in Counts(f, tab) :
            /\ inuse < size
            /\ used' = used \cup ({Taken(k) : k \in 1 .. newI(inuse)} \ {0})
            /\ disk' = Filled(f, ptrI(tab, inuse), inuse, size, v,
                              [k \in DOMAIN tab |-> ptrI(tab, inuse)[G + k]], atI(inuse), makes)
            /\ num' = [num EXCEPT ![f] =
                          [k \in Index |-> IF k < G THEN ptrI(tab, inuse)[k] ELSE atI(inuse)]]
            /\ Note(f, newI(inuse))
            /\ stored' = [stored EXCEPT ![f] =
                   IF Direct(f) = 0 /\ newI(inuse) <= Cardinality(Block \ used)
                   THEN v ELSE Unknown]
    BY DEF Grow
  <1>b. PICK inuse \in Counts(f, tab) :
            /\ inuse < size
            /\ used' = used \cup ({Taken(k) : k \in 1 .. newI(inuse)} \ {0})
            /\ disk' = Filled(f, ptrI(tab, inuse), inuse, size, v,
                              [k \in DOMAIN tab |-> ptrI(tab, inuse)[G + k]], atI(inuse), makes)
            /\ num' = [num EXCEPT ![f] =
                          [k \in Index |-> IF k < G THEN ptrI(tab, inuse)[k] ELSE atI(inuse)]]
            /\ Note(f, newI(inuse))
            /\ stored' = [stored EXCEPT ![f] =
                   IF Direct(f) = 0 /\ newI(inuse) <= Cardinality(Block \ used)
                   THEN v ELSE Unknown]
    BY <1>a
  <1>c. Direct(f) # G
    BY <1>b DEF Note
  <1>d. Direct(f) \in 0 .. G - 1 /\ num[f][G] = 0 /\ inuse = Direct(f)
    BY <1>c, Below DEF Files
  <1>e. makes <=> size > G
    BY <1>d DEF NeedsTable
  <1>f. DOMAIN tab = 0 .. Pointers - 1
    BY LargeFileAssumption
  <1> HIDE DEF makes
  <1>g. newI(inuse) = size - Direct(f) + (IF size > G THEN 1 ELSE 0)
    BY <1>d, <1>e
  <1>h. atI(inuse) = IF size > G THEN Taken(size - Direct(f) + 1) ELSE 0
    BY <1>d, <1>e
  <1>i. \A k \in 0 .. MaxBlocks - 1 :
            ptrI(tab, inuse)[k] = IF k \in Direct(f) .. size - 1 THEN Taken(k - Direct(f) + 1)
                              ELSE Pointer(f, tab, k)
    BY <1>d
  <1> HIDE DEF ptrI, atI, newI
  <1>j. PICK ptr, at, new :
            ptr = ptrI(tab, inuse) /\ at = atI(inuse) /\ new = newI(inuse)
    OBVIOUS
  <1>0. G \in Nat \ {0} /\ MaxBlocks \in Nat /\ MaxBlocks = G + Pointers /\ 0 \notin Block
        /\ Pointers \in Nat \ {0} /\ Cardinality(Free) \in Nat
    BY GFacts, FreeFinite
  <1>1. /\ d \in 0 .. G - 1 /\ d < size
        /\ new = size - d + (IF size > G THEN 1 ELSE 0)
        /\ at = IF size > G THEN Taken(size - d + 1) ELSE 0
        /\ \A k \in 0 .. MaxBlocks - 1 :
               ptr[k] = IF k \in d .. size - 1 THEN Taken(k - d + 1) ELSE Pointer(f, tab, k)
        /\ used' = used \cup ({Taken(k) : k \in 1 .. new} \ {0})
        /\ disk' = Filled(f, ptr, d, size, v, [k \in 0 .. Pointers - 1 |-> ptr[G + k]],
                          at, makes)
        /\ num' = [num EXCEPT ![f] = [k \in Index |-> IF k < G THEN ptr[k] ELSE at]]
        /\ Note(f, new)
        /\ stored' = [stored EXCEPT ![f] =
               IF d = 0 /\ new <= Cardinality(Free) THEN v ELSE Unknown]
    <2>1. /\ d \in 0 .. G - 1 /\ d < size
          /\ new = size - d + (IF size > G THEN 1 ELSE 0)
          /\ at = IF size > G THEN Taken(size - d + 1) ELSE 0
          /\ \A k \in 0 .. MaxBlocks - 1 :
                 ptr[k] = IF k \in d .. size - 1 THEN Taken(k - d + 1) ELSE Pointer(f, tab, k)
      BY <1>b, <1>d, <1>g, <1>h, <1>i, <1>j
    <2>2. /\ used' = used \cup ({Taken(k) : k \in 1 .. new} \ {0})
          /\ disk' = Filled(f, ptr, d, size, v, [k \in 0 .. Pointers - 1 |-> ptr[G + k]],
                            at, makes)
          /\ num' = [num EXCEPT ![f] = [k \in Index |-> IF k < G THEN ptr[k] ELSE at]]
      BY <1>b, <1>d, <1>f, <1>j
    <2>3. Note(f, new)
      BY <1>b, <1>j
    <2>4. stored' = [stored EXCEPT ![f] =
              IF d = 0 /\ new <= Cardinality(Free) THEN v ELSE Unknown]
      BY <1>b, <1>j DEF Free
    <2> QED
      BY <2>1, <2>2, <2>3, <2>4
  <1>k. d \in Nat /\ d < size /\ d < G /\ size \in Nat /\ new \in Nat
        /\ new = size - d + (IF size > G THEN 1 ELSE 0)
    BY <1>0, <1>1
  <1>2. Direct(f) # G
    BY <1>0, <1>1
  <1>3. /\ \A k \in 0 .. G - 1 : num[f][k] # 0 <=> k < d
        /\ num[f][G] = 0
        /\ Slots(f) = 0 .. d - 1
        /\ \A k \in Slots(f) : At(f, k) = num[f][k]
    BY <1>2, Below DEF Files
  <1> HIDE DEF d
  <1>4. /\ \A g \in File : g # f => /\ num'[g] = num[g] /\ stored'[g] = stored[g]
                                    /\ file_size'[g] = file_size[g]
        /\ \A k \in 0 .. G - 1 : num'[f][k] = ptr[k]
        /\ num'[f][G] = at
        /\ file_size'[f] = size
        /\ stored'[f] = IF d = 0 /\ new <= Cardinality(Free) THEN v ELSE Unknown
    BY <1>0, <1>1 DEF TypeOK, Index
  <1>5. ASSUME NEW n \in 1 .. new, Taken(n) # 0
        PROVE  Taken(n) \in Free /\ Taken(n) \in used' /\ Taken(n) \in Block
    BY <1>1, <1>5, TakenFacts DEF Free
  <1>6. \A n \in 1 .. new : Taken(n) # 0 <=> n <= Cardinality(Free)
    <2>1. ASSUME NEW n \in 1 .. new
          PROVE  Taken(n) # 0 <=> n <= Cardinality(Free)
      <3>1. n \in 1 .. Cardinality(Free) <=> n <= Cardinality(Free)
        BY <1>0
      <3> QED
        BY <3>1, TakenFacts
    <2> QED
      BY <2>1
  \* Which of the blocks taken slot k gets.
  <1> DEFINE i(k) == IF k = MaxBlocks THEN size - d + 1 ELSE k - d + 1
  <1>7. ASSUME NEW k \in 0 .. G - 1
        PROVE  /\ k < d => num'[f][k] = num[f][k] /\ num[f][k] # 0
               /\ d <= k /\ k < size => num'[f][k] = Taken(k - d + 1)
               /\ ~(k < d) /\ ~(k < size) => num'[f][k] = 0
    <2>1. k \in 0 .. MaxBlocks - 1 /\ Pointer(f, tab, k) = num[f][k]
      BY <1>0 DEF Pointer
    <2>2. num'[f][k] = IF k \in d .. size - 1 THEN Taken(k - d + 1) ELSE num[f][k]
      BY <1>1, <1>4, <2>1
    <2>3. k \in d .. size - 1 <=> d <= k /\ k < size
      BY <1>0, <1>1
    <2>4. num[f][k] # 0 <=> k < d
      BY <1>3
    <2> QED
      BY <1>0, <1>1, <2>2, <2>3, <2>4
  <1>8. ASSUME at # 0
        PROVE  /\ size > G /\ new = size - d + 1 /\ at = Taken(new) /\ new <= Cardinality(Free)
               /\ at \in used' /\ Table(f)' = [k \in 0 .. Pointers - 1 |-> ptr[G + k]]
               /\ \E t : disk'[num'[f][G]] = Indirect(t)
    <2>1. size > G /\ new = size - d + 1 /\ at = Taken(new) /\ new \in 1 .. new
      BY <1>0, <1>1, <1>8
    <2>2. new <= Cardinality(Free) /\ at \in used' /\ at \in Block
      BY <1>5, <1>6, <1>8, <2>1
    <2>3. disk'[at] = Indirect([k \in 0 .. Pointers - 1 |-> ptr[G + k]])
      BY <1>1, <1>e, <2>1, <2>2, FilledFacts
    <2>4. Table(f)' = [k \in 0 .. Pointers - 1 |-> ptr[G + k]]
      BY <1>4, <1>8, <2>3 DEF Table, Indirect
    <2> QED
      BY <1>4, <2>1, <2>2, <2>3, <2>4
  \* The slots f has now: those it had, and new ones on blocks that were free.
  <1>9. ASSUME NEW k \in Slots(f)'
        PROVE  \/ k \in 0 .. d - 1 /\ k \in Slots(f) /\ At(f, k)' = At(f, k)
               \/ /\ k \in d .. MaxBlocks /\ (k = MaxBlocks \/ k < size)
                  /\ i(k) \in 1 .. new /\ At(f, k)' = Taken(i(k)) /\ Taken(i(k)) # 0
    <2>0. k \in 0 .. MaxBlocks
      BY <1>9 DEF Slots
    <2>1. CASE k < G
      <3>1. k \in 0 .. G - 1 /\ k # MaxBlocks
        BY <1>0, <2>0, <2>1
      <3>2. num'[f][k] # 0 /\ At(f, k)' = num'[f][k]
        BY <1>9, <2>1, <3>1 DEF Slots, At, Where
      <3>3. CASE k < d
        <4>1. k \in 0 .. d - 1
          BY <1>1, <3>1, <3>3
        <4> QED
          BY <1>3, <1>7, <3>1, <3>2, <3>3, <4>1
      <3>4. CASE ~(k < d)
        <4>1. k < size
          BY <1>7, <3>1, <3>2, <3>4
        <4>2. d <= k /\ k \in d .. MaxBlocks
          BY <1>0, <1>1, <3>1, <3>4
        <4>3. i(k) = k - d + 1 /\ i(k) \in 1 .. new
          BY <1>0, <1>1, <3>1, <4>1, <4>2
        <4> QED
          BY <1>7, <3>1, <3>2, <4>1, <4>2, <4>3
      <3> QED
        BY <3>3, <3>4
    <2>2. CASE ~(k < G)
      <3>1. at # 0 /\ (k = MaxBlocks \/ k < size)
        BY <1>4, <1>9, <2>2 DEF Slots
      <3>2. /\ size > G /\ new = size - d + 1 /\ at = Taken(new)
            /\ Table(f)' = [l \in 0 .. Pointers - 1 |-> ptr[G + l]]
        BY <1>8, <3>1
      <3>3. k \in d .. MaxBlocks
        BY <1>0, <1>1, <2>0, <2>2
      <3>4. CASE k = MaxBlocks
        <4>1. i(k) = new /\ new \in 1 .. new
          BY <1>0, <1>1, <3>2, <3>4
        <4>2. At(f, k)' = at
          BY <1>4, <3>4 DEF At
        <4> QED
          BY <3>1, <3>2, <3>3, <3>4, <4>1, <4>2
      <3>5. CASE k # MaxBlocks
        <4>1. k < size /\ i(k) = k - d + 1 /\ i(k) \in 1 .. new
          BY <1>0, <1>1, <3>1, <3>2, <3>3, <3>5
        <4>2. k - G \in 0 .. Pointers - 1 /\ G + (k - G) = k /\ k \in 0 .. MaxBlocks - 1
              /\ k \in d .. size - 1
          BY <1>0, <1>1, <2>0, <2>2, <3>3, <3>5, <4>1
        <4>3. At(f, k)' = Table(f)'[k - G]
          BY <2>2, <3>5 DEF At, Where
        <4>4. At(f, k)' = ptr[k]
          BY <3>2, <4>2, <4>3
        <4>5. At(f, k)' = Taken(i(k))
          BY <1>1, <4>1, <4>2, <4>4
        <4>6. new \in 1 .. new /\ Taken(new) # 0
          BY <1>0, <1>1, <3>1, <3>2
        <4>7. Taken(i(k)) # 0
          BY <1>0, <1>6, <4>1, <4>6
        <4> QED
          BY <3>3, <4>1, <4>5, <4>7
      <3> QED
        BY <3>4, <3>5
    <2> QED
      BY <2>1, <2>2
  \* Those it had it keeps.
  <1>10. ASSUME NEW k \in Slots(f)
         PROVE  k \in Slots(f)' /\ At(f, k)' = At(f, k)
    <2>1. k \in 0 .. d - 1 /\ k \in 0 .. G - 1 /\ k \in 0 .. MaxBlocks /\ k < G /\ k # MaxBlocks
          /\ k < d
      BY <1>0, <1>1, <1>3
    <2>2. num'[f][k] = num[f][k] /\ num[f][k] # 0
      BY <1>7, <2>1
    <2> QED
      BY <1>3, <2>1, <2>2 DEF Slots, At, Where
  \* When there are enough free blocks, every new one is reached.
  <1>11. ASSUME new <= Cardinality(Free), NEW k \in d .. size - 1
         PROVE  k \in Slots(f)' /\ i(k) = k - d + 1 /\ At(f, k)' = Taken(i(k))
    <2>1. k \in 0 .. MaxBlocks /\ k # MaxBlocks /\ k < size /\ i(k) = k - d + 1
          /\ i(k) \in 1 .. new /\ ~(k < d)
      BY <1>0, <1>k
    <2>2. Taken(i(k)) # 0
      <3> DEFINE n == i(k)
      <3>1. n \in 1 .. new /\ new \in Nat
        BY <1>0, <1>1, <2>1
      <3> HIDE DEF n
      <3>2. n <= Cardinality(Free)
        BY <1>0, <1>11, <3>1
      <3>3. Taken(n) # 0
        BY <1>6, <3>1, <3>2
      <3> QED
        BY <3>3 DEF n
    <2>3. CASE k < G
      <3>1. k \in 0 .. G - 1 /\ d <= k
        BY <1>0, <1>1, <2>3
      <3>2. num'[f][k] = Taken(i(k))
        BY <1>7, <2>1, <3>1
      <3>3. k \in Slots(f)'
        BY <2>1, <2>2, <2>3, <3>2 DEF Slots
      <3> QED
        BY <2>1, <2>3, <3>2, <3>3 DEF At, Where
    <2>4. CASE ~(k < G)
      <3>1. size > G /\ new = size - d + 1 /\ at = Taken(new) /\ new \in 1 .. new
        <4>1. size > G /\ new = size - d + 1 /\ new \in 1 .. new
          BY <1>0, <1>k, <2>1, <2>4
        <4> QED
          BY <1>1, <4>1
      <3>2. num'[f][G] # 0
        BY <1>4, <1>6, <1>11, <3>1
      <3>3. k \in Slots(f)'
        BY <1>4, <2>1, <2>4, <3>2 DEF Slots
      <3>4. At(f, k)' = Taken(i(k))
        <4> HIDE DEF i
        <4>1. k \notin 0 .. d - 1
          BY <1>1, <2>1
        <4> QED
          BY <1>9, <3>3, <4>1
      <3> QED
        BY <2>1, <3>3, <3>4
    <2> QED
      BY <2>3, <2>4
  <1>12. ASSUME NEW k \in Slots(f)', ~(At(f, k)' \in Free)
         PROVE  k \in 0 .. d - 1 /\ k \in Slots(f) /\ At(f, k)' = At(f, k)
    BY <1>5, <1>9, <1>12
  <1>13. ASSUME NEW k \in Slots(f)'
         PROVE  At(f, k)' \in used' /\ At(f, k)' \in Block
    <2>1. CASE At(f, k)' \in Free
      <3>1. ~(k \in Slots(f) /\ At(f, k)' = At(f, k))
        BY <2>1 DEF Files, Good, Free
      <3> HIDE DEF i
      <3>2. i(k) \in 1 .. new /\ At(f, k)' = Taken(i(k)) /\ Taken(i(k)) # 0
        BY <1>9, <3>1
      <3> QED
        BY <1>5, <3>2
    <2>2. CASE ~(At(f, k)' \in Free)
      <3>1. At(f, k)' = At(f, k) /\ At(f, k) \in used
        BY <1>12, <2>2 DEF Files, Good
      <3> QED
        BY <1>1, <3>1 DEF TypeOK
    <2> QED
      BY <2>1, <2>2
  <1>14. ASSUME NEW j \in Slots(f)', NEW k \in Slots(f)', At(f, j)' = At(f, k)'
         PROVE  j = k
    <2>1. CASE At(f, k)' \in Free
      <3>1. /\ ~(j \in Slots(f) /\ At(f, j)' = At(f, j))
            /\ ~(k \in Slots(f) /\ At(f, k)' = At(f, k))
        BY <1>14, <2>1 DEF Files, Good, Free
      <3>2. /\ j \in d .. MaxBlocks /\ (j = MaxBlocks \/ j < size)
            /\ At(f, j)' = Taken(i(j)) /\ Taken(i(j)) # 0
        BY <1>9, <3>1
      <3>3. /\ k \in d .. MaxBlocks /\ (k = MaxBlocks \/ k < size)
            /\ At(f, k)' = Taken(i(k)) /\ Taken(i(k)) # 0
        BY <1>9, <3>1
      <3>4. i(j) = i(k)
        <4> HIDE DEF i
        <4> QED
          BY <1>14, <3>2, <3>3, TakenOnce
      <3> QED
        BY <1>0, <1>k, <3>2, <3>3, <3>4
    <2>2. CASE ~(At(f, k)' \in Free)
      BY <1>12, <1>14, <2>2 DEF Files, Good
    <2> QED
      BY <2>1, <2>2
  <1> HIDE DEF i
  <1>15. Good(f)'
    <2>1. ASSUME NEW k \in 0 .. G - 1, NEW j \in 0 .. k, num'[f][k] # 0
          PROVE  num'[f][j] # 0
      <3>1. j \in 0 .. G - 1 /\ j <= k
        BY <1>0
      <3>2. CASE j < d
        BY <1>7, <3>1, <3>2
      <3>3. CASE ~(j < d)
        <4>1. k < size /\ ~(k < d) /\ d <= k /\ d <= j /\ j < size
          <5>1. ~(k < d)
            BY <1>1, <3>1, <3>3
          <5>2. k < size
            BY <1>7, <2>1, <5>1
          <5> QED
            BY <1>0, <1>1, <3>1, <3>3, <5>1, <5>2
        <4>2. num'[f][k] = Taken(k - d + 1) /\ num'[f][j] = Taken(j - d + 1)
          BY <1>7, <3>1, <4>1
        <4>3. k - d + 1 \in 1 .. new /\ j - d + 1 \in 1 .. new /\ j - d + 1 <= k - d + 1
          BY <1>k, <3>1, <4>1
        <4>4. k - d + 1 <= Cardinality(Free)
          BY <1>6, <2>1, <4>2, <4>3
        <4>5. j - d + 1 <= Cardinality(Free)
          BY <1>0, <1>1, <3>1, <4>3, <4>4
        <4> QED
          BY <1>6, <4>2, <4>3, <4>5
      <3> QED
        BY <3>2, <3>3
    <2>2. ASSUME num'[f][G] # 0
          PROVE  /\ num'[f][G - 1] # 0 /\ file_size'[f] > G
                 /\ \E t : disk'[num'[f][G]] = Indirect(t)
      <3>1. at # 0
        BY <1>4, <2>2
      <3>2. size > G /\ new = size - d + 1 /\ new <= Cardinality(Free)
            /\ \E t : disk'[num'[f][G]] = Indirect(t)
        BY <1>8, <3>1
      <3>3. G - 1 \in 0 .. G - 1 /\ d <= G - 1 /\ G - 1 < size
            /\ (G - 1) - d + 1 \in 1 .. new /\ (G - 1) - d + 1 <= Cardinality(Free)
        BY <1>0, <1>1, <3>2
      <3>4. num'[f][G - 1] = Taken((G - 1) - d + 1)
        BY <1>7, <3>3
      <3> QED
        BY <1>4, <1>6, <3>2, <3>3, <3>4
    <2>3. ASSUME stored'[f] # Unknown, NEW k \in 0 .. file_size'[f] - 1
          PROVE  k \in Slots(f)' /\ disk'[At(f, k)'] = Data(f, stored'[f], k)
      <3>1. d = 0 /\ new <= Cardinality(Free) /\ stored'[f] = v /\ k \in 0 .. size - 1
        BY <1>4, <2>3
      <3>2. ASSUME NEW j \in 0 .. size - 1
            PROVE  ptr[j] = Taken(j + 1) /\ j + 1 \in 1 .. new
        <4>1. j \in 0 .. MaxBlocks - 1 /\ j \in d .. size - 1 /\ j - d + 1 = j + 1
              /\ j + 1 \in 1 .. new
          BY <1>0, <1>k, <3>1
        <4>2. ptr[j] = Taken(j - d + 1)
          BY <1>1, <4>1
        <4> QED
          BY <4>1, <4>2
      <3>3. k \in Slots(f)' /\ i(k) = k + 1 /\ At(f, k)' = Taken(i(k))
        BY <1>11, <3>1
      <3> DEFINE b == Taken(k + 1)
      <3>4. b # 0 /\ b \in used' /\ b \in Block
        BY <1>0, <1>1, <1>5, <1>6, <3>1, <3>2
      <3>5. ASSUME NEW j \in 0 .. size - 1
            PROVE  ptr[j] = b <=> j = k
        <4>1. Taken(j + 1) = b => j + 1 = k + 1
          <5> SUFFICES ASSUME Taken(j + 1) = Taken(k + 1) PROVE j + 1 = k + 1
            OBVIOUS
          <5>1. Taken(j + 1) # 0
            BY <3>4
          <5> QED
            BY <5>1, TakenOnce
        <4>2. j + 1 = k + 1 => j = k
          BY <3>1
        <4> QED
          BY <3>2, <4>1, <4>2
      <3>6. b # at
        <4> SUFFICES ASSUME b = at PROVE FALSE
          OBVIOUS
        <4>1. at = Taken(size + 1)
          BY <1>0, <1>1, <3>1, <3>4
        <4>2. Taken(k + 1) = Taken(size + 1) /\ Taken(k + 1) # 0
          BY <3>4, <4>1
        <4>3. k + 1 = size + 1
          BY <4>2, TakenOnce
        <4> QED
          BY <3>1, <4>3
      <3> HIDE DEF b
      <3>7. disk'[b] = Data(f, v, k)
        <4>1. k \in 0 .. size - 1 /\ k >= d
          BY <1>k, <3>1
        <4> QED
          BY <1>1, <3>4, <3>5, <3>6, <4>1, FilledFacts
      <3> QED
        BY <3>1, <3>3, <3>7 DEF b
    <2> QED
      BY <1>13, <1>14, <2>1, <2>2, <2>3 DEF Good
  <1>16. ASSUME NEW g \in File, g # f
         PROVE  Good(g)' /\ Slots(g)' = Slots(g) /\ \A k : At(g, k)' = At(g, k)
    <2>1. ASSUME NEW k \in Slots(g)
          PROVE  At(g, k) \in used' /\ disk'[At(g, k)] = disk[At(g, k)]
      <3> DEFINE b == At(g, k)
      <3>1. b \in used /\ b \in used' /\ b \in Block /\ b \notin Free /\ b # 0
        BY <1>0, <1>1 DEF Files, Good, TypeOK, Free
      <3>2. \A j \in Slots(f) : At(f, j) # b
        BY <1>16 DEF Files, Unshared
      <3> HIDE DEF b
      <3>3. \A n : Taken(n) # b
        BY <3>1, TakenFacts
      <3>4. b # at
        BY <1>1, <3>1, <3>3
      <3>5. ASSUME NEW j \in 0 .. size - 1
            PROVE  ptr[j] # b
        <4>1. j \in 0 .. MaxBlocks - 1
          BY <1>0
        <4>2. CASE j < d
          <5>1. j \in 0 .. d - 1 /\ j \notin d .. size - 1 /\ j < G
            BY <1>0, <1>1, <4>2
          <5>2. ptr[j] = num[f][j]
            BY <1>1, <4>1, <5>1 DEF Pointer
          <5> QED
            BY <1>3, <3>2, <5>1, <5>2
        <4>3. CASE ~(j < d)
          <5>1. j \in d .. size - 1
            BY <1>1, <4>3
          <5> QED
            BY <1>1, <3>3, <4>1, <5>1
        <4> QED
          BY <4>2, <4>3
      <3>6. disk'[b] = disk[b]
        BY <1>1, <3>1, <3>4, <3>5, FilledFacts
      <3> QED
        BY <3>1, <3>6 DEF b
    <2>2. num'[g] = num[g] /\ stored'[g] = stored[g] /\ file_size'[g] = file_size[g] /\ Good(g)
      BY <1>4, <1>16 DEF Files
    <2> QED
      BY <2>1, <2>2, Others
  <1>17. ASSUME NEW g \in File, g # f, NEW j \in Slots(f)', NEW k \in Slots(g)'
         PROVE  At(f, j)' # At(g, k)'
    <2>1. k \in Slots(g) /\ At(g, k)' = At(g, k) /\ At(g, k) \in used
      BY <1>16, <1>17 DEF Files, Good
    <2>2. CASE At(f, j)' \in Free
      BY <2>1, <2>2 DEF Free
    <2>3. CASE ~(At(f, j)' \in Free)
      <3>1. j \in Slots(f) /\ At(f, j)' = At(f, j)
        BY <1>12, <2>3
      <3> QED
        BY <1>17, <2>1, <3>1 DEF Files, Unshared
    <2> QED
      BY <2>2, <2>3
  <1>18. Unshared'
    <2>1. ASSUME NEW g \in File, NEW h \in File, g # h,
                 NEW j \in Slots(g)', NEW k \in Slots(h)'
          PROVE  At(g, j)' # At(h, k)'
      <3>1. CASE g = f
        BY <1>17, <2>1, <3>1
      <3>2. CASE h = f
        BY <1>17, <2>1, <3>2
      <3>3. CASE g # f /\ h # f
        <4>1. /\ j \in Slots(g) /\ At(g, j)' = At(g, j)
              /\ k \in Slots(h) /\ At(h, k)' = At(h, k)
          BY <1>16, <3>3
        <4> QED
          BY <2>1, <4>1 DEF Files, Unshared
      <3> QED
        BY <3>1, <3>2, <3>3
    <2> QED
      BY <2>1 DEF Unshared
  <1>19. ASSUME ~starved', NEW b \in used', b < SIZE_OF_BLOCK
         PROVE  \E g \in File : \E k \in Slots(g)' : At(g, k)' = b
    <2>1. ~starved /\ new <= Cardinality(Free)
      <3>1. new \in Nat
        BY <1>0, <1>1
      <3>2. ~starved /\ ~(new > Cardinality(Free))
        BY <1>1, <1>19 DEF Note, Free, TypeOK
      <3> QED
        BY <1>0, <3>1, <3>2
    <2>2. CASE b \in used
      <3>1. PICK g \in File : \E k \in Slots(g) : At(g, k) = b
        BY <1>19, <2>1, <2>2 DEF Files, Accounted
      <3>2. PICK k \in Slots(g) : At(g, k) = b
        BY <3>1
      <3>3. k \in Slots(g)' /\ At(g, k)' = b
        BY <1>10, <1>16, <3>2
      <3> QED
        BY <3>3
    <2>3. CASE b \notin used
      <3>1. PICK n \in 1 .. new : b = Taken(n) /\ b # 0
        BY <1>1, <2>3
      <3>2. CASE n <= size - d
        <4>1. PICK k \in d .. size - 1 : k - d + 1 = n
          <5>1. n + d - 1 \in d .. size - 1 /\ (n + d - 1) - d + 1 = n
            BY <1>0, <1>1, <3>2
          <5> QED
            BY <5>1
        <4>2. k \in Slots(f)' /\ At(f, k)' = Taken(n)
          BY <1>11, <2>1, <4>1
        <4> QED
          BY <3>1, <4>2
      <3>3. CASE ~(n <= size - d)
        <4>1. size > G /\ n = size - d + 1 /\ at = b
          BY <1>0, <1>1, <3>1, <3>3
        <4>2. MaxBlocks \in Slots(f)' /\ At(f, MaxBlocks)' = at
          BY <1>0, <1>4, <3>1, <4>1 DEF Slots, At
        <4> QED
          BY <4>1, <4>2
      <3> QED
        BY <3>2, <3>3
    <2> QED
      BY <2>2, <2>3
  <1>20. \A g \in File : Good(g)'
    BY <1>15, <1>16
  <1> QED
    BY <1>18, <1>19, <1>20 DEF Files, Accounted

LEMMA InvInit == Init => Inv
  <1> SUFFICES ASSUME Init PROVE Inv
    OBVIOUS
  <1>0. G \in Nat \ {0} /\ MaxBlocks \in Nat /\ MaxBlocks > G
    BY GFacts
  <1>1. TypeOK
    <2>1. 0 \in 0 .. MaxBlocks
      BY <1>0
    <2> QED
      BY <2>1 DEF Init, TypeOK
  <1>2. ASSUME NEW f \in File
        PROVE  Slots(f) = {} /\ Good(f)
    <2>1. \A k \in Index : num[f][k] = 0
      BY DEF Init
    <2>2. \A k \in 0 .. G : k \in Index
      BY DEF Index
    <2>3. num[f][G] = 0 /\ \A k \in 0 .. G - 1 : num[f][k] = 0
      BY <1>0, <2>1, <2>2
    <2>4. Slots(f) = {}
      BY <1>0, <2>3 DEF Slots
    <2>5. stored[f] = Unknown
      BY DEF Init
    <2> QED
      BY <2>3, <2>4, <2>5 DEF Good
  <1>3. Unshared /\ Accounted
    BY <1>2 DEF Init, Unshared, Accounted
  <1> QED
    BY <1>1, <1>2, <1>3 DEF Inv, Files

LEMMA InvNext == Inv /\ [Next]_vars => Inv'
  <1> SUFFICES ASSUME Inv, [Next]_vars, ~reused' PROVE Files'
    BY TypeNext DEF Inv
  <1>1. TypeOK
    BY DEF Inv
  <1>2. ASSUME NEW f \in File, NEW blocks, Note(f, blocks)
        PROVE  Files
    BY <1>2 DEF Note, Inv
  <1>3. ASSUME NEW f \in File, NEW size \in 1 .. MaxBlocks, NEW v \in Payload,
               write_file(f, size, v)
        PROVE  Files'
    <2>1. file_size' = [file_size EXCEPT ![f] = size]
      BY <1>3 DEF write_file
    <2>2. \A g \in File : g # f => file_size'[g] = file_size[g]
      BY <1>1, <2>1 DEF TypeOK
    <2>3. CASE Grow(f, size, v)
      <3>1. Files
        BY <1>2, <2>3 DEF Grow
      <3> QED
        BY <1>1, <2>1, <2>3, <3>1, GrowStep
    <2>4. CASE Shrink(f, size, v)
      <3>1. Files
        BY <1>2, <2>4 DEF Shrink
      <3> QED
        BY <1>1, <2>2, <2>4, <3>1, ShrinkStep
    <2>5. CASE Overwrite(f, size, v)
      <3>1. Files
        BY <1>2, <2>5 DEF Overwrite
      <3> QED
        BY <1>1, <2>2, <2>5, <3>1, OverwriteStep
    <2> QED
      BY <1>3, <2>3, <2>4, <2>5 DEF write_file
  <1>4. ASSUME NEW f \in File, delete_file(f)
        PROVE  Files'
    <2>1. Files
      BY <1>2, <1>4 DEF delete_file
    <2> QED
      BY <1>1, <1>4, <2>1, DeleteStep
  <1>5. ASSUME NEW f \in File, Stray(f)
        PROVE  Files'
    BY <1>5 DEF Stray
  <1>6. CASE UNCHANGED vars
    <2>1. /\ used' = used /\ disk' = disk /\ num' = num /\ file_size' = file_size
          /\ stored' = stored /\ reused' = reused /\ starved' = starved
      BY <1>6 DEF vars
    <2>2. \A f : Slots(f)' = Slots(f)
      BY <2>1 DEF Slots
    <2>3. \A f, k : At(f, k)' = At(f, k)
      BY <2>1 DEF At, Where, Table
    <2>4. \A f : Good(f) => Good(f)'
      BY <2>1, <2>2, <2>3 DEF Good
    <2>5. (Unshared => Unshared') /\ (Accounted => Accounted')
      BY <2>1, <2>2, <2>3 DEF Unshared, Accounted
    <2>6. Files
      BY <2>1 DEF Inv
    <2> QED
      BY <2>1, <2>4, <2>5, <2>6 DEF Files
  <1> QED
    BY <1>3, <1>4, <1>5, <1>6 DEF Next

\* The invariant the theorems below follow from: the slots of the files are
\* told apart and accounted for until the indirect block is misread
\* (write_file, delete_file).
THEOREM Invariance == Spec => []Inv
  BY InvInit, InvNext, PTL DEF Spec

\* Whatever the number of pointers, blocks and files: what the first write of a
\* file stored stays in its place, past the direct pointers too, until an
\* operation meets a file without a free one (write_file).
THEOREM FirstStored == Spec => []FirstWriteStored
  <1>1. Inv => FirstWriteStored
    <2> SUFFICES ASSUME TypeOK, Files, NEW f \in File, stored[f] # Unknown,
                        NEW k \in 0 .. file_size[f] - 1
                 PROVE  Where(f, k) \in used /\ disk[Where(f, k)] = Data(f, stored[f], k)
      BY DEF Inv, FirstWriteStored
    <2>1. k \in Slots(f) /\ disk[At(f, k)] = Data(f, stored[f], k) /\ At(f, k) \in used
      BY DEF Files, Good
    <2>2. k # MaxBlocks
      BY GFacts DEF TypeOK
    <2>3. At(f, k) = Where(f, k)
      BY <2>2 DEF At
    <2> QED
      BY <2>1, <2>3
  <1> QED
    BY <1>1, Invariance, PTL

\* Until then, and unless a write ran out of blocks, none a file leads to is
\* free, and no block below the bound of delete_block is marked that no file
\* leads to (write_file, delete_file); those beyond it stay marked when their
\* file gives them up, and the theorem says nothing of them.
THEOREM MapOwned == Spec => []MapIsOwned
  <1>1. Inv => MapIsOwned
    <2> SUFFICES ASSUME TypeOK, Files, ~starved
                 PROVE  /\ \A f \in File : Owned(f) \ {0} \subseteq used
                        /\ \A b \in used : b < SIZE_OF_BLOCK => \E f \in File : b \in Owned(f)
      BY DEF Inv, MapIsOwned
    <2>0. G \in Nat \ {0} /\ Pointers \in Nat \ {0} /\ MaxBlocks = G + Pointers
          /\ 0 \notin Block
      BY GFacts
    <2>1. ASSUME NEW b \in used, b < SIZE_OF_BLOCK
          PROVE  \E f \in File : b \in Owned(f)
      <3>1. PICK f \in File : \E k \in Slots(f) : At(f, k) = b
        BY <2>1 DEF Files, Accounted
      <3>2. PICK k \in Slots(f) : At(f, k) = b
        BY <3>1
      <3>3. k \in 0 .. MaxBlocks /\ file_size[f] \in Nat
        BY GFacts DEF Slots, TypeOK
      <3>4. CASE k < G
        <4>1. k \in Index /\ b = num[f][k]
          BY <2>0, <3>2, <3>3, <3>4 DEF Index, At, Where
        <4> QED
          BY <2>0, <4>1 DEF Owned, TypeOK
      <3>5. CASE k = MaxBlocks
        <4>1. G \in Index /\ b = num[f][G]
          BY <2>0, <3>2, <3>5 DEF Index, At
        <4> QED
          BY <2>0, <4>1 DEF Owned, TypeOK
      <3>6. CASE ~(k < G) /\ k # MaxBlocks
        <4>1. k \in G .. file_size[f] - 1 /\ b = Where(f, k)
          BY <2>0, <3>2, <3>3, <3>6 DEF Slots, At
        <4> QED
          BY <2>0, <4>1 DEF Owned, TypeOK
      <3> QED
        BY <3>4, <3>5, <3>6
    <2>2. ASSUME NEW f \in File, NEW b \in Owned(f), b # 0
          PROVE  b \in used
      <3>1. ASSUME NEW k \in Slots(f), At(f, k) = b
            PROVE  b \in used
        BY <3>1 DEF Files, Good
      <3>2. CASE \E k \in Index : b = num[f][k]
        <4>1. PICK k \in Index : b = num[f][k]
          BY <3>2
        <4>2. CASE k = G
          <5>1. MaxBlocks \in Slots(f) /\ At(f, MaxBlocks) = b
            BY <2>0, <2>2, <4>1, <4>2 DEF Slots, At
          <5> QED
            BY <3>1, <5>1
        <4>3. CASE k # G
          <5>1. k \in 0 .. MaxBlocks /\ k < G /\ k # MaxBlocks
            BY <2>0, <4>3 DEF Index
          <5>2. k \in Slots(f) /\ At(f, k) = b
            BY <2>2, <4>1, <5>1 DEF Slots, At, Where
          <5> QED
            BY <3>1, <5>2
        <4> QED
          BY <4>2, <4>3
      <3>3. CASE \E k \in G .. file_size[f] - 1 : b = Where(f, k)
        <4>1. PICK k \in G .. file_size[f] - 1 : b = Where(f, k)
          BY <3>3
        <4>2. file_size[f] \in 0 .. MaxBlocks /\ MaxBlocks \in Nat
          BY <2>0 DEF TypeOK
        <4>3. k \in 0 .. MaxBlocks /\ ~(k < G) /\ k # MaxBlocks /\ k < file_size[f]
              /\ k - G \in 0 .. Pointers - 1
          BY <2>0, <4>2
        <4>4. num[f][G] # 0
          <5>1. num[f][G] = 0 => Where(f, k) = Zeroes[k - G]
            BY <4>3 DEF Where, Table
          <5>2. Zeroes[k - G] = 0
            BY <4>3 DEF Zeroes
          <5> QED
            BY <2>2, <4>1, <5>1, <5>2
        <4>5. k \in Slots(f) /\ At(f, k) = b
          BY <4>1, <4>3, <4>4 DEF Slots, At
        <4> QED
          BY <3>1, <4>5
      <3> QED
        BY <3>2, <3>3 DEF Owned
    <2> QED
      BY <2>1, <2>2
  <1> QED
    BY <1>1, Invariance, PTL
=============================================================================
