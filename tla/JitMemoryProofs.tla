-------------------------- MODULE JitMemoryProofs --------------------------
(***************************************************************************)
(* Proofs about JitMemory, for every page, pool and registry size, every   *)
(* set of sizes and whatever may fail: live code is private, a release can *)
(* be retried, an emitter reaches exactly live code, and the registry owns *)
(* exactly the open kernel objects.                                        *)
(*                                                                         *)
(* The inductive invariant JitInv says of each region that its page table, *)
(* its allocation list and its counter describe the same allocations       *)
(* (PoolOK), of the registry that it owns the kernel's objects, and of the *)
(* callers that what they hold is what the regions record (LiveIn).  Books *)
(* adds that the counters of the statistics count them, and that each      *)
(* allocation came from the kind of region the pooling policy names.       *)
(***************************************************************************)
EXTENDS JitMemory, FiniteSetTheorems, SequenceTheorems, WellFoundedInduction, TLAPS

-----------------------------------------------------------------------------
(* Arithmetic. *)

\* Multiplication by a natural number distributes and is monotonic.
LEMMA Times ==
  ASSUME NEW a \in Int, NEW b \in Int, NEW p \in Nat
  PROVE  /\ a * p \in Int /\ (a + b) * p = a * p + b * p /\ (a - b) * p = a * p - b * p
         /\ a <= b => a * p <= b * p
         /\ a < b => a * p + p <= b * p
<1>1. a * p \in Int /\ (a + b) * p = a * p + b * p /\ (a - b) * p = a * p - b * p
  BY SMT
<1>2. ASSUME a <= b PROVE a * p <= b * p
  <2>1. (b - a) * p >= 0
    BY <1>2, SMT
  <2>2. QED
    BY <2>1, SMT
<1>3. ASSUME a < b PROVE a * p + p <= b * p
  <2>1. (b - a - 1) * p >= 0
    BY <1>3, SMT
  <2>2. QED
    BY <2>1, SMT
<1>4. QED
  BY <1>1, <1>2, <1>3

\* The quotient of a number between two neighbouring multiples.
LEMMA Divide ==
  ASSUME NEW p \in Nat \ {0}, NEW a \in Int, NEW x \in Int, a * p <= x, x < a * p + p
  PROVE  x \div p = a
<1> DEFINE q == x \div p
           r == x % p
<1>1. q \in Int /\ r \in 0 .. p - 1 /\ x = p * q + r
  BY SMT
<1> HIDE DEF q, r
<1>2. p * q = q * p /\ q * p \in Int /\ a * p \in Int
  BY <1>1, SMT
<1>3. ~(q < a)
  <2> SUFFICES ASSUME q < a PROVE FALSE
    OBVIOUS
  <2>1. q * p + p <= a * p
    BY <1>1, Times
  <2>2. QED
    BY <1>1, <1>2, <2>1
<1>4. ~(a < q)
  <2> SUFFICES ASSUME a < q PROVE FALSE
    OBVIOUS
  <2>1. a * p + p <= q * p
    BY <1>1, Times
  <2>2. QED
    BY <1>1, <1>2, <2>1
<1>5. q = a
  BY <1>1, <1>3, <1>4
<1>6. QED
  BY <1>5 DEF q

\* What the quotient and the remainder of a natural number are.
LEMMA Quotient ==
  ASSUME NEW p \in Nat \ {0}, NEW x \in Nat
  PROVE  /\ x \div p \in Nat /\ (x \div p) * p <= x /\ x < (x \div p) * p + p
         /\ x % p = 0 => x = (x \div p) * p
<1> DEFINE q == x \div p
           r == x % p
<1>1. q \in Int /\ r \in 0 .. p - 1 /\ x = p * q + r
  BY SMT
<1> HIDE DEF q, r
<1>2. p * q = q * p /\ q * p \in Int
  BY <1>1, SMT
<1>3. q >= 0
  <2> SUFFICES ASSUME q < 0 PROVE FALSE
    BY <1>1
  <2>1. q * p + p <= 0 * p
    BY <1>1, Times
  <2>2. QED
    BY <1>1, <1>2, <2>1
<1>4. q \in Nat /\ q * p <= x /\ x < q * p + p /\ (r = 0 => x = q * p)
  BY <1>1, <1>2, <1>3
<1>5. QED
  BY <1>4 DEF q, r

\* A size that callers may hold: a positive number of pages that can be passed back.
Whole(x) ==
  /\ x <= SIZE_MAX + 1 - PAGE_SIZE
  /\ \E s \in Nat \ {0} : x = s * PAGE_SIZE

\* AlignSize rounds up to whole pages, does not overflow, and leaves whole sizes alone.
LEMMA AlignFacts ==
  ASSUME NEW x \in 0 .. SIZE_MAX, Alignable(x)
  PROVE  /\ AlignSize(x) \in Nat /\ Whole(AlignSize(x)) /\ x <= AlignSize(x)
         /\ Whole(x) => AlignSize(x) = x
<1> DEFINE P == PAGE_SIZE
           M == SIZE_MAX + 1
           y == x + P - 1
           q == y \div P
           m == M \div P
<1>1. P \in Nat \ {0} /\ M \in Nat \ {0} /\ x \in Nat \ {0} /\ x + P <= M /\ M % P = 0
  BY PageAssumption DEF Alignable
<1>2. y \in Nat /\ y < M
  BY <1>1
<1>3. y % M = y
  <2> HIDE DEF M, y
  <2>1. QED BY <1>1, <1>2, SMT
<1>4. AlignSize(x) = q * P
  BY <1>3 DEF AlignSize
<1> HIDE DEF y
<1>5. q \in Nat /\ q * P <= y /\ y < q * P + P
  BY <1>1, <1>2, Quotient
<1>6. m \in Nat /\ M = m * P
  BY <1>1, Quotient
<1> HIDE DEF q, m
<1>7. x <= q * P /\ q * P \in Nat
  BY <1>1, <1>5 DEF y
<1>8. q # 0
  BY <1>1, <1>7
<1>9. q < m
  <2> SUFFICES ASSUME m <= q PROVE FALSE
    BY <1>5, <1>6
  <2>1. m * P <= q * P
    BY <1>1, <1>5, <1>6, Times
  <2>2. m * P <= y
    <3> DEFINE u == q * P
               v == m * P
    <3>1. u \in Nat /\ v \in Nat /\ u <= y /\ v <= u
      BY <1>1, <1>5, <1>6, <1>7, <2>1
    <3> HIDE DEF u, v
    <3>2. v <= y
      BY <1>2, <3>1
    <3>3. QED
      BY <3>2 DEF v
  <2>3. M <= y
    BY <1>6, <2>2, Zenon
  <2> HIDE DEF M
  <2>4. QED
    BY <1>1, <1>2, <2>3
<1>10. q * P + P <= M
  BY <1>1, <1>5, <1>6, <1>9, Times
<1>11. Whole(q * P)
  <2> DEFINE u == q * P
  <2>0. PAGE_SIZE \in Nat /\ SIZE_MAX \in Nat
    BY PageAssumption
  <2>1. u \in Nat /\ u + P <= M
    BY <1>7, <1>10
  <2>a. q \in Nat \ {0} /\ u = q * PAGE_SIZE
    BY <1>5, <1>8
  <2> HIDE DEF u
  <2>2. u <= SIZE_MAX + 1 - PAGE_SIZE
    BY <2>0, <2>1
  <2>3. Whole(u)
    BY <2>a, <2>2, Zenon DEF Whole
  <2>4. QED
    BY <2>3 DEF u
<1>12. ASSUME Whole(x) PROVE q * P = x
  <2>1. PICK s \in Nat \ {0} : x = s * P
    BY <1>12 DEF Whole
  <2>2. s * P <= y /\ y < s * P + P
    BY <1>1, <2>1 DEF y
  <2>3. q = s
    <3> HIDE DEF P
    <3>1. s \in Int /\ y \in Int /\ P \in Nat \ {0}
      BY <1>1, <1>2
    <3>2. y \div P = s
      BY <2>2, <3>1, Divide
    <3>3. QED
      BY <3>2 DEF q
  <2>4. QED
    BY <2>1, <2>3
<1>13. QED
  BY <1>4, <1>7, <1>11, <1>12

\* A size that callers hold can be passed back and is left alone by AlignSize.
LEMMA WholeFacts ==
  ASSUME NEW x, Whole(x)
  PROVE  x \in 0 .. SIZE_MAX /\ x # 0 /\ Alignable(x) /\ AlignSize(x) = x
<1>1. PICK s \in Nat \ {0} : x = s * PAGE_SIZE
  BY DEF Whole
<1>2. PAGE_SIZE \in Nat \ {0} /\ SIZE_MAX \in Nat
  BY PageAssumption
<1>3. 1 * PAGE_SIZE <= s * PAGE_SIZE
  BY <1>2, Times
<1>4. x \in Nat /\ x >= PAGE_SIZE
  BY <1>1, <1>2, <1>3
<1>5. x \in 0 .. SIZE_MAX /\ x # 0 /\ Alignable(x)
  BY <1>2, <1>4 DEF Whole, Alignable
<1>6. QED
  BY <1>5, AlignFacts

-----------------------------------------------------------------------------
(* A pool: its page table t, its allocation list al and its counter m.     *)

PageFacts == PAGE_SIZE \in Nat \ {0} /\ PoolPages \in Nat \ {0}
             /\ SMALL_JIT_POOL_SIZE = PoolPages * PAGE_SIZE /\ SMALL_JIT_POOL_SIZE \in Nat

\* A pool is a positive number of pages.
LEMMA PoolSize == PageFacts
<1>1. PAGE_SIZE \in Nat \ {0} /\ SMALL_JIT_POOL_SIZE \in Nat \ {0}
      /\ SMALL_JIT_POOL_SIZE % PAGE_SIZE = 0
  BY PageAssumption, LimitAssumption, InputAssumption
<1>2. PoolPages \in Nat /\ SMALL_JIT_POOL_SIZE = PoolPages * PAGE_SIZE
  BY <1>1, Quotient DEF PoolPages
<1>3. PoolPages # 0
  <2> SUFFICES ASSUME PoolPages = 0 PROVE FALSE
    OBVIOUS
  <2>1. SMALL_JIT_POOL_SIZE = 0 * PAGE_SIZE
    BY <1>2
  <2>2. QED
    BY <1>1, <2>1
<1>4. QED
  BY <1>1, <1>2, <1>3 DEF PageFacts

\* The entries in use, and the pages of one.
UsedIn(al) == {n \in 1 .. Len(al) : al[n].used = TRUE}

FirstPage(x) == x.offset \div PAGE_SIZE
EndPage(x) == (x.offset + x.size) \div PAGE_SIZE
PagesOf(x) == FirstPage(x) .. EndPage(x) - 1

\* An allocation covers whole pages of the pool.
Slice(x) ==
  /\ x.offset \in Nat /\ x.size \in Nat /\ Whole(x.size)
  /\ FirstPage(x) \in Nat /\ EndPage(x) \in Nat
  /\ FirstPage(x) < EndPage(x) /\ EndPage(x) <= PoolPages
  /\ x.offset = FirstPage(x) * PAGE_SIZE
  /\ x.offset + x.size = EndPage(x) * PAGE_SIZE

\* The pages and the list describe the same allocations, and the counter counts them.
PoolOK(t, al, m) ==
  /\ al \in Seq(Allocation)
  /\ t \in [{} -> Nat] \union [0 .. PoolPages - 1 -> Nat]
  /\ UsedIn(al) # {} => t \in [0 .. PoolPages - 1 -> Nat]
  /\ \A n \in UsedIn(al) : Slice(al[n])
  /\ \A n \in UsedIn(al) : \A q \in PagesOf(al[n]) : t[q] = n
  /\ \A q \in DOMAIN t : t[q] # 0 => t[q] \in UsedIn(al) /\ q \in PagesOf(al[t[q]])
  /\ IsFiniteSet(UsedIn(al)) /\ m = Cardinality(UsedIn(al)) /\ m \in Nat

\* A run of pages of the pool is a slice.
LEMMA SliceFacts ==
  ASSUME NEW a \in Nat, NEW s \in Nat \ {0}, a + s <= PoolPages, Whole(s * PAGE_SIZE),
         NEW x, x.offset = a * PAGE_SIZE, x.size = s * PAGE_SIZE
  PROVE  Slice(x) /\ FirstPage(x) = a /\ EndPage(x) = a + s /\ PagesOf(x) = a .. a + s - 1
<1> DEFINE P == PAGE_SIZE
<1>1. P \in Nat \ {0} /\ PoolPages \in Nat
  BY PoolSize DEF PageFacts
<1>2. a * P \in Nat /\ s * P \in Nat /\ (a + s) * P = a * P + s * P /\ (a + s) * P \in Nat
  BY <1>1, SMT
<1> HIDE DEF P
<1>3. (a * P) \div P = a
  <2>1. a \in Int /\ a * P \in Int /\ a * P <= a * P /\ a * P < a * P + P
    <3> DEFINE u == a * P
    <3>1. u \in Nat
      BY <1>2
    <3> HIDE DEF u
    <3>2. u \in Int /\ u <= u /\ u < u + P
      BY <1>1, <3>1
    <3>3. QED
      BY <3>2 DEF u
  <2>2. QED
    BY <1>1, <2>1, Divide
<1>4. ((a + s) * P) \div P = a + s
  <2>1. a + s \in Int /\ (a + s) * P \in Int /\ (a + s) * P <= (a + s) * P
        /\ (a + s) * P < (a + s) * P + P
    <3> DEFINE u == (a + s) * P
    <3>1. u \in Nat
      BY <1>2
    <3> HIDE DEF u
    <3>2. u \in Int /\ u <= u /\ u < u + P
      BY <1>1, <3>1
    <3>3. QED
      BY <3>2 DEF u
  <2>2. QED
    BY <1>1, <2>1, Divide
<1>5. FirstPage(x) = a
  BY <1>3 DEF FirstPage, P
<1>6. x.offset + x.size = (a + s) * P
  BY <1>2 DEF P
<1>7. EndPage(x) = a + s
  BY <1>4, <1>6 DEF EndPage, P
<1>8. x.offset \in Nat /\ x.size \in Nat
  BY <1>2 DEF P
<1>9. PagesOf(x) = a .. a + s - 1
  BY <1>5, <1>7 DEF PagesOf
<1>10. a < a + s /\ a + s \in Nat
  OBVIOUS
<1>11. Slice(x)
  BY <1>5, <1>6, <1>7, <1>8, <1>10, Zenon DEF Slice, P
<1>12. QED
  BY <1>5, <1>7, <1>9, <1>11

\* A slice has only pages of the pool.
LEMMA SlicePages ==
  ASSUME NEW x, Slice(x)
  PROVE  PagesOf(x) \subseteq 0 .. PoolPages - 1
<1> DEFINE f == FirstPage(x)
           e == EndPage(x)
<1>1. f \in Nat /\ e \in Nat /\ e <= PoolPages /\ PoolPages \in Nat
  BY PoolSize DEF Slice, PageFacts
<1>2. PagesOf(x) = f .. e - 1
  BY DEF PagesOf
<1> HIDE DEF f, e
<1>3. QED
  BY <1>1, <1>2

\* The page table of a pool.
Table(t) == t \in [0 .. PoolPages - 1 -> Nat]

\* Page table f is t with the pages of x given to n.
Filled(f, t, x, n) ==
  /\ Table(f)
  /\ \A q \in 0 .. PoolPages - 1 :
       (q \in PagesOf(x) => f[q] = n) /\ (q \notin PagesOf(x) => f[q] = t[q])

\* List al2 is al with the unused entry n taken for x.
Entered(al2, al, n, x) ==
  /\ n \in Nat \ {0} /\ n \notin UsedIn(al) /\ al2 \in Seq(Allocation)
  /\ UsedIn(al2) = UsedIn(al) \union {n} /\ al2[n] = x
  /\ \A j \in UsedIn(al) : al2[j] = al[j]
  /\ Len(al2) = Len(al) \/ UsedIn(al2) = 1 .. Len(al2)

\* List al2 is al without the entry n.
Left(al2, al, n) ==
  /\ n \in UsedIn(al) /\ al2 \in Seq(Allocation) /\ UsedIn(al2) = UsedIn(al) \ {n}
  /\ \A j \in UsedIn(al2) : al2[j] = al[j]
  /\ Len(al2) = Len(al)

\* FillPages writes the pages of the allocation.
LEMMA FillFacts ==
  ASSUME NEW t, NEW x, NEW n \in Nat, Table(t)
  PROVE  Filled(FillPages(t, x.offset, x.size, n), t, x, n)
BY DEF FillPages, PagesOf, FirstPage, EndPage, Table, Filled

\* A new allocation takes free pages and an unused entry.
LEMMA PoolAdd ==
  ASSUME NEW t, NEW al, NEW m, NEW x, NEW n, NEW al2, NEW t2,
         Table(t), PoolOK(t, al, m), x.used = TRUE, Slice(x),
         \A q \in PagesOf(x) : t[q] = 0,
         Entered(al2, al, n, x), Filled(t2, t, x, n)
  PROVE  PoolOK(t2, al2, m + 1)
<1> USE DEF Table, Entered, Filled
<1>1. IsFiniteSet(UsedIn(al2)) /\ Cardinality(UsedIn(al2)) = m + 1 /\ m + 1 \in Nat
  BY FS_AddElement DEF PoolOK
<1>2. ASSUME NEW j \in UsedIn(al) PROVE j # n /\ j \in Nat \ {0} /\ al2[j] = al[j]
  BY <1>2 DEF UsedIn
<1>3. \A j \in UsedIn(al2) : Slice(al2[j])
  BY <1>2 DEF PoolOK
<1>5. \A y : Slice(y) => PagesOf(y) \subseteq 0 .. PoolPages - 1
  BY SlicePages
<1>6. ASSUME NEW j \in UsedIn(al2), NEW q \in PagesOf(al2[j]) PROVE t2[q] = j
  <2>1. q \in 0 .. PoolPages - 1
    BY <1>3, <1>5
  <2>2. CASE j = n
    BY <2>1, <2>2
  <2>3. CASE j \in UsedIn(al)
    <3>1. t[q] = j /\ j # 0
      BY <1>2, <2>3 DEF PoolOK
    <3>2. q \notin PagesOf(x)
      BY <3>1
    <3>3. QED
      BY <2>1, <3>1, <3>2
  <2>4. QED
    BY <2>2, <2>3
<1>7. ASSUME NEW q \in 0 .. PoolPages - 1, t2[q] # 0
      PROVE  t2[q] \in UsedIn(al2) /\ q \in PagesOf(al2[t2[q]])
  <2>1. CASE q \in PagesOf(x)
    BY <2>1
  <2>2. CASE q \notin PagesOf(x)
    <3>1. t2[q] = t[q] /\ q \in DOMAIN t
      BY <2>2
    <3>2. t[q] \in UsedIn(al) /\ q \in PagesOf(al[t[q]])
      BY <1>7, <3>1 DEF PoolOK
    <3>3. QED
      BY <3>1, <3>2
  <2>3. QED
    BY <2>1, <2>2
<1>8. DOMAIN t2 = 0 .. PoolPages - 1
  OBVIOUS
<1>9. QED
  BY <1>1, <1>3, <1>6, <1>7, <1>8 DEF PoolOK

\* Releasing an allocation frees its pages and its entry.
LEMMA PoolRemove ==
  ASSUME NEW t, NEW al, NEW m, NEW n, NEW al2, NEW t2,
         Table(t), PoolOK(t, al, m), Left(al2, al, n), Filled(t2, t, al[n], 0)
  PROVE  PoolOK(t2, al2, m - 1)
<1> USE DEF Table, Left, Filled
<1>1. IsFiniteSet(UsedIn(al2)) /\ Cardinality(UsedIn(al2)) = m - 1 /\ m - 1 \in Nat
  <2>1. IsFiniteSet(UsedIn(al2)) /\ Cardinality(UsedIn(al2)) = m - 1
    BY FS_RemoveElement DEF PoolOK
  <2>2. m - 1 \in Nat
    BY <2>1, FS_CardinalityType
  <2>3. QED
    BY <2>1, <2>2
<1>2. \A j \in UsedIn(al2) : Slice(al2[j])
  BY DEF PoolOK
<1>5. \A y : Slice(y) => PagesOf(y) \subseteq 0 .. PoolPages - 1
  BY SlicePages
<1>6. ASSUME NEW j \in UsedIn(al2), NEW q \in PagesOf(al2[j]) PROVE t2[q] = j
  <2>1. q \in 0 .. PoolPages - 1 /\ j \in UsedIn(al) /\ al2[j] = al[j] /\ j # n
    BY <1>2, <1>5
  <2>2. t[q] = j
    BY <2>1 DEF PoolOK
  <2>3. q \notin PagesOf(al[n])
    BY <2>1, <2>2 DEF PoolOK
  <2>4. QED
    BY <2>1, <2>2, <2>3
<1>7. ASSUME NEW q \in 0 .. PoolPages - 1, t2[q] # 0
      PROVE  t2[q] \in UsedIn(al2) /\ q \in PagesOf(al2[t2[q]])
  <2>1. q \notin PagesOf(al[n]) /\ t2[q] = t[q] /\ q \in DOMAIN t
    BY <1>7
  <2>2. t[q] \in UsedIn(al) /\ q \in PagesOf(al[t[q]])
    BY <1>7, <2>1 DEF PoolOK
  <2>3. t[q] # n
    BY <2>1, <2>2
  <2>4. QED
    BY <2>1, <2>2, <2>3
<1>8. DOMAIN t2 = 0 .. PoolPages - 1
  OBVIOUS
<1>9. QED
  BY <1>1, <1>2, <1>6, <1>7, <1>8 DEF PoolOK

\* A pool has at most as many allocations as pages.
LEMMA CountFits ==
  ASSUME NEW t, NEW al, NEW m, PoolOK(t, al, m)
  PROVE  m <= PoolPages
<1> DEFINE U == UsedIn(al)
           f == [n \in U |-> FirstPage(al[n])]
           V == 0 .. PoolPages - 1
<1>1. m = Cardinality(U) /\ PoolPages \in Nat
  BY PoolSize DEF PoolOK, PageFacts
<1>2. ASSUME NEW n \in U PROVE FirstPage(al[n]) \in V /\ t[FirstPage(al[n])] = n
  <2>1. Slice(al[n])
    BY DEF PoolOK
  <2> DEFINE a == FirstPage(al[n])
             b == EndPage(al[n])
  <2>2. a \in Nat /\ b \in Nat /\ a < b /\ b <= PoolPages
    BY <2>1 DEF Slice
  <2>3. PagesOf(al[n]) = a .. b - 1
    BY DEF PagesOf
  <2> HIDE DEF a, b
  <2>4. a \in a .. b - 1 /\ a \in V
    BY <1>1, <2>2
  <2>5. a \in PagesOf(al[n])
    BY <2>3, <2>4
  <2>6. t[a] = n
    BY <2>5 DEF PoolOK
  <2>7. QED
    BY <2>4, <2>6 DEF a
<1>3. f \in Injection(U, V)
  <2>1. f \in [U -> V]
    BY <1>2
  <2>2. \A x, y \in U : f[x] = f[y] => x = y
    BY <1>2
  <2>3. QED
    BY <2>1, <2>2 DEF Injection, IsInjective
<1>4. IsFiniteSet(V) /\ Cardinality(V) = PoolPages
  <2>1. 0 \in Int /\ PoolPages - 1 \in Int
    BY <1>1
  <2>2. PoolPages # 0
    BY PoolSize DEF PageFacts
  <2>3. QED
    BY <1>1, <2>1, <2>2, FS_Interval
<1> HIDE DEF f, U, V
<1>5. Cardinality(U) <= Cardinality(V)
  BY <1>3, <1>4, FS_Injection
<1>6. QED
  BY <1>1, <1>4, <1>5

\* Two allocations of a pool do not overlap.
LEMMA PoolPrivate ==
  ASSUME NEW t, NEW al, NEW m, PoolOK(t, al, m),
         NEW i \in UsedIn(al), NEW j \in UsedIn(al), i # j
  PROVE  \/ al[i].offset + al[i].size <= al[j].offset
         \/ al[j].offset + al[j].size <= al[i].offset
<1>1. Slice(al[i]) /\ Slice(al[j])
  BY DEF PoolOK
<1>2. \A q : ~(q \in PagesOf(al[i]) /\ q \in PagesOf(al[j]))
  BY DEF PoolOK
<1> DEFINE fi == FirstPage(al[i])
           fj == FirstPage(al[j])
           ei == EndPage(al[i])
           ej == EndPage(al[j])
<1>3. fi \in Nat /\ fj \in Nat /\ ei \in Nat /\ ej \in Nat /\ fi < ei /\ fj < ej
  BY <1>1 DEF Slice
<1>4. PagesOf(al[i]) = fi .. ei - 1 /\ PagesOf(al[j]) = fj .. ej - 1
  BY DEF PagesOf
<1> HIDE DEF fi, fj, ei, ej
<1>5. ei <= fj \/ ej <= fi
  <2> SUFFICES ASSUME ~(ei <= fj), ~(ej <= fi) PROVE FALSE
    OBVIOUS
  <2>1. CASE fi <= fj
    <3>1. fj \in fi .. ei - 1 /\ fj \in fj .. ej - 1
      BY <1>3, <2>1
    <3>2. QED
      BY <1>2, <1>4, <3>1
  <2>2. CASE fj <= fi
    <3>1. fi \in fi .. ei - 1 /\ fi \in fj .. ej - 1
      BY <1>3, <2>2
    <3>2. QED
      BY <1>2, <1>4, <3>1
  <2>3. QED
    BY <1>3, <2>1, <2>2
<1>6. PAGE_SIZE \in Nat
  BY PoolSize DEF PageFacts
<1>7. ei <= fj => ei * PAGE_SIZE <= fj * PAGE_SIZE
  BY <1>3, <1>6, Times
<1>8. ej <= fi => ej * PAGE_SIZE <= fi * PAGE_SIZE
  BY <1>3, <1>6, Times
<1>9. /\ al[i].offset = fi * PAGE_SIZE /\ al[i].offset + al[i].size = ei * PAGE_SIZE
      /\ al[j].offset = fj * PAGE_SIZE /\ al[j].offset + al[j].size = ej * PAGE_SIZE
  BY <1>1 DEF Slice, fi, fj, ei, ej
<1>10. QED
  BY <1>5, <1>7, <1>8, <1>9, Zenon

-----------------------------------------------------------------------------
(* A region, and the allocations it holds. *)

\* An allocation of a pool, as its caller holds it.
Piece(rx, x) == [address |-> rx + x.offset, size |-> x.size]

Pieces(r) == {Piece(r.rx, r.allocations[n]) : n \in UsedIn(r.allocations)}

\* What callers hold of a region.
LiveIn(r) ==
  IF r.used = FALSE \/ r.quarantined = TRUE THEN {}
  ELSE IF r.pooled = TRUE THEN Pieces(r)
  ELSE {[address |-> r.rx, size |-> r.size]}

\* The list is no longer than the pool has pages, and is not empty only in a pool that
\* has allocations.
ListFits(r) ==
  /\ Len(r.allocations) <= PoolPages
  /\ r.allocations = << >> \/ r.active_allocations # 0

\* A region that serves code is a pool in order, or one allocation of whole pages.
RegionOK(r) ==
  /\ r \in Region /\ ListFits(r)
  /\ r.used = TRUE /\ r.quarantined = FALSE /\ r.pooled = TRUE =>
       r.size = SMALL_JIT_POOL_SIZE /\ PoolOK(r.pages, r.allocations, r.active_allocations)
  /\ r.used = TRUE /\ r.quarantined = FALSE /\ r.pooled = FALSE =>
       Whole(r.size) /\ r.size <= Window

\* The types of a region's fields.
LEMMA RegionFields ==
  ASSUME NEW r \in Region
  PROVE  /\ r.used \in BOOLEAN /\ r.pooled \in BOOLEAN /\ r.quarantined \in BOOLEAN
         /\ r.rx \in Nat /\ r.rw \in Nat /\ r.size \in Nat /\ r.active_allocations \in Nat
         /\ r.pages \in [{} -> Nat] \union [0 .. PoolPages - 1 -> Nat]
         /\ r.allocations \in Seq(Allocation)
BY DEF Region

\* Contains is inclusion of ranges: its subtractions do not go below zero.
LEMMA ContainsFacts ==
  ASSUME NEW b \in Nat, NEW c \in Nat, NEW p \in Nat, NEW s \in Nat
  PROVE  Contains(b, c, p, s) <=> b <= p /\ p + s <= b + c
BY DEF Contains

\* Where an allocation of a pool lies.
LEMMA SliceBounds ==
  ASSUME NEW x, Slice(x)
  PROVE  /\ x.offset \in Nat /\ x.size \in Nat /\ x.size # 0
         /\ x.offset + x.size <= SMALL_JIT_POOL_SIZE
<1>1. /\ x.offset \in Nat /\ x.size \in Nat /\ Whole(x.size) /\ EndPage(x) \in Nat
      /\ EndPage(x) <= PoolPages /\ x.offset + x.size = EndPage(x) * PAGE_SIZE
  BY DEF Slice
<1>2. x.size # 0
  BY <1>1, WholeFacts
<1>3. PAGE_SIZE \in Nat /\ PoolPages \in Nat /\ SMALL_JIT_POOL_SIZE = PoolPages * PAGE_SIZE
  BY PoolSize DEF PageFacts
<1>4. EndPage(x) * PAGE_SIZE <= PoolPages * PAGE_SIZE
  BY <1>1, <1>3, Times
<1>5. QED
  BY <1>1, <1>2, <1>3, <1>4, Zenon

\* Two entries of a pool in order are different allocations.
LEMMA PiecesDiffer ==
  ASSUME NEW t, NEW al, NEW m, PoolOK(t, al, m), NEW rx \in Nat,
         NEW j \in UsedIn(al), NEW n \in UsedIn(al), j # n
  PROVE  Piece(rx, al[j]) # Piece(rx, al[n])
<1> DEFINE oj == al[j].offset
           sj == al[j].size
           on == al[n].offset
           sn == al[n].size
<1>2. oj + sj <= on \/ on + sn <= oj
  BY PoolPrivate
<1>3. Slice(al[j]) /\ Slice(al[n])
  BY DEF PoolOK
<1>4. oj \in Nat /\ sj \in Nat /\ sj # 0 /\ on \in Nat /\ sn \in Nat /\ sn # 0
  BY <1>3, SliceBounds
<1>5. Piece(rx, al[j]) = [address |-> rx + oj, size |-> sj]
      /\ Piece(rx, al[n]) = [address |-> rx + on, size |-> sn]
  BY DEF Piece
<1> HIDE DEF oj, sj, on, sn
<1>6. rx + oj # rx + on
  BY <1>2, <1>4
<1>7. [address |-> rx + oj, size |-> sj] # [address |-> rx + on, size |-> sn]
  BY <1>6
<1>8. QED
  BY <1>5, <1>7, Zenon

\* The counter of a pool is the number of its allocations.
LEMMA PieceCount ==
  ASSUME NEW r, RegionOK(r), r.used = TRUE, r.quarantined = FALSE, r.pooled = TRUE
  PROVE  Cardinality(LiveIn(r)) = r.active_allocations
<1> DEFINE al == r.allocations
           U == UsedIn(al)
           T == Pieces(r)
           f == [n \in U |-> Piece(r.rx, al[n])]
<1>1. PoolOK(r.pages, al, r.active_allocations) /\ r.rx \in Nat
  BY RegionFields DEF RegionOK
<1>2. LiveIn(r) = T
  BY DEF LiveIn
<1>3. T = {Piece(r.rx, al[n]) : n \in U}
  BY DEF Pieces
<1>4. IsFiniteSet(U) /\ r.active_allocations = Cardinality(U)
  BY <1>1 DEF PoolOK
<1>5. \A j, n \in U : Piece(r.rx, al[j]) = Piece(r.rx, al[n]) => j = n
  BY <1>1, PiecesDiffer, Zenon
<1> HIDE DEF U, T
<1>6. f \in Bijection(U, T)
  <2>1. f \in [U -> T]
    BY <1>3
  <2>2. f \in Injection(U, T)
    BY <1>5, <2>1 DEF Injection, IsInjective
  <2>3. f \in Surjection(U, T)
    BY <1>3, <2>1 DEF Surjection
  <2>4. QED
    BY <2>2, <2>3 DEF Bijection
<1> HIDE DEF f
<1>7. ExistsBijection(U, T)
  BY <1>6 DEF ExistsBijection
<1>8. QED
  BY <1>2, <1>4, <1>7, FS_Bijection

\* The pages of the bytes of a slice are its pages.
LEMMA PageOfByte ==
  ASSUME NEW x, Slice(x), NEW b \in Nat, x.offset <= b, b < x.offset + x.size
  PROVE  b \div PAGE_SIZE \in PagesOf(x)
<1> DEFINE P == PAGE_SIZE
           f == FirstPage(x)
           e == EndPage(x)
           q == b \div P
<1>1. f \in Nat /\ e \in Nat /\ x.offset = f * P /\ x.offset + x.size = e * P
  BY DEF Slice
<1>2. P \in Nat \ {0}
  BY PoolSize DEF PageFacts
<1>3. q \in Nat /\ q * P <= b /\ b < q * P + P
  BY <1>2, Quotient
<1>4. PagesOf(x) = f .. e - 1
  BY DEF PagesOf
<1> HIDE DEF f, e, q, P
<1>5. f * P <= b /\ b < e * P
  BY <1>1
<1>6. f <= q
  <2> SUFFICES ASSUME q < f PROVE FALSE
    BY <1>1, <1>3
  <2>1. q * P + P <= f * P
    BY <1>1, <1>2, <1>3, Times
  <2> DEFINE u == q * P
             v == f * P
  <2>2. u \in Int /\ v \in Int
    BY <1>1, <1>2, <1>3, Times
  <2>3. u + P <= v /\ v <= b /\ b < u + P
    BY <1>3, <1>5, <2>1
  <2> HIDE DEF u, v
  <2>4. QED
    BY <1>2, <2>2, <2>3
<1>7. q < e
  <2> SUFFICES ASSUME e <= q PROVE FALSE
    BY <1>1, <1>3
  <2>1. e * P <= q * P
    BY <1>1, <1>2, <1>3, Times
  <2> DEFINE u == q * P
             v == e * P
  <2>2. u \in Int /\ v \in Int
    BY <1>1, <1>2, <1>3, Times
  <2>3. v <= u /\ u <= b /\ b < v
    BY <1>3, <1>5, <2>1
  <2> HIDE DEF u, v
  <2>4. QED
    BY <2>2, <2>3
<1>8. q \in f .. e - 1
  BY <1>1, <1>3, <1>6, <1>7
<1>9. QED
  BY <1>4, <1>8 DEF q, P

\* The conditions of FindPoolAllocation.
Owner(r, pointer) == r.pages[(pointer - r.rx) \div PAGE_SIZE]
OwnerHolds(r, pointer, size) ==
  /\ size # 0
  /\ Contains(r.rx, r.size, pointer, size)
  /\ Owner(r, pointer) \in DOMAIN r.allocations
  /\ \A page \in (pointer - r.rx) \div PAGE_SIZE + 1 .. (pointer - r.rx + size - 1) \div PAGE_SIZE :
       r.pages[page] = Owner(r, pointer)
  /\ r.allocations[Owner(r, pointer)].used
  /\ Contains(r.rx + r.allocations[Owner(r, pointer)].offset,
              r.allocations[Owner(r, pointer)].size, pointer, size)

\* FindPoolAllocation in terms of its conditions.
LEMMA FindIs ==
  ASSUME NEW r, NEW pointer, NEW size
  PROVE  FindPoolAllocation(r, pointer, size) =
           IF OwnerHolds(r, pointer, size) THEN Owner(r, pointer) ELSE 0
BY Zenon DEF FindPoolAllocation, OwnerHolds, Owner

\* FindPoolAllocation finds only the allocation that holds the range.
LEMMA FindSound ==
  ASSUME NEW r, RegionOK(r), NEW pointer, NEW size, FindPoolAllocation(r, pointer, size) # 0
  PROVE  LET n == FindPoolAllocation(r, pointer, size)
         IN  /\ n \in UsedIn(r.allocations) /\ size # 0
             /\ Contains(r.rx + r.allocations[n].offset, r.allocations[n].size, pointer, size)
<1>1. OwnerHolds(r, pointer, size) /\ FindPoolAllocation(r, pointer, size) = Owner(r, pointer)
  BY FindIs, Zenon
<1> DEFINE n == Owner(r, pointer)
<1>2. /\ n \in DOMAIN r.allocations /\ r.allocations[n].used /\ size # 0
      /\ Contains(r.rx + r.allocations[n].offset, r.allocations[n].size, pointer, size)
  BY <1>1 DEF OwnerHolds
<1> HIDE DEF n
<1>3. r.allocations \in Seq(Allocation)
  BY RegionFields DEF RegionOK
<1>4. n \in 1 .. Len(r.allocations) /\ r.allocations[n] \in Allocation
  BY <1>2, <1>3, LenProperties, ElementOfSeq
<1>5. r.allocations[n].used = TRUE
  BY <1>2, <1>4 DEF Allocation
<1>6. n \in UsedIn(r.allocations)
  BY <1>4, <1>5 DEF UsedIn
<1>7. QED
  BY <1>1, <1>2, <1>6 DEF n

\* FindPoolAllocation finds the allocation that holds a range.
LEMMA FindComplete ==
  ASSUME NEW r, RegionOK(r), r.used = TRUE, r.quarantined = FALSE, r.pooled = TRUE,
         NEW n \in UsedIn(r.allocations), NEW pointer \in Nat, NEW size \in Nat \ {0},
         r.rx + r.allocations[n].offset <= pointer,
         pointer + size <= r.rx + r.allocations[n].offset + r.allocations[n].size
  PROVE  FindPoolAllocation(r, pointer, size) = n /\ n # 0
<1> DEFINE x == r.allocations[n]
           o == pointer - r.rx
<1>1. /\ PoolOK(r.pages, r.allocations, r.active_allocations) /\ r.size = SMALL_JIT_POOL_SIZE
      /\ r \in Region
  BY DEF RegionOK
<1>2. Slice(x) /\ \A q \in PagesOf(x) : r.pages[q] = n
  BY <1>1 DEF PoolOK
<1>3. x.offset \in Nat /\ x.size \in Nat /\ x.offset + x.size <= r.size
  BY <1>1, <1>2, SliceBounds
<1>4. r.rx \in Nat /\ r.size \in Nat /\ r.allocations \in Seq(Allocation)
  BY <1>1, RegionFields
<1>5. n \in 1 .. Len(r.allocations) /\ n # 0 /\ r.allocations[n].used = TRUE
  BY <1>4, LenProperties DEF UsedIn
<1>5a. n \in DOMAIN r.allocations
  BY <1>4, <1>5, LenProperties
<1>6. /\ o \in Nat /\ x.offset <= o /\ o + size <= x.offset + x.size
      /\ Contains(r.rx, r.size, pointer, size)
      /\ Contains(r.rx + x.offset, x.size, pointer, size)
  <2> DEFINE a == x.offset
             s == x.size
             b == r.rx
             c == r.size
  <2>1. b + a <= pointer /\ pointer + size <= b + a + s
    OBVIOUS
  <2>2. a \in Nat /\ s \in Nat /\ a + s <= c /\ b \in Nat /\ c \in Nat
    BY <1>3, <1>4
  <2> HIDE DEF a, s, b, c
  <2>3. /\ pointer - b \in Nat /\ a <= pointer - b /\ pointer - b + size <= a + s
        /\ b <= pointer /\ pointer + size <= b + c
    BY <2>1, <2>2
  <2>4. Contains(b, c, pointer, size) /\ Contains(b + a, s, pointer, size)
    BY <2>1, <2>2, <2>3 DEF Contains
  <2>5. QED
    BY <2>3, <2>4 DEF a, s, b, c
<1> HIDE DEF x
<1>7. o \div PAGE_SIZE \in PagesOf(x)
  <2>1. o < x.offset + x.size
    BY <1>3, <1>6
  <2> HIDE DEF o
  <2>2. QED
    BY <1>2, <1>6, <2>1, PageOfByte
<1>8. (o + size - 1) \div PAGE_SIZE \in PagesOf(x)
  <2> DEFINE z == o + size - 1
  <2>1. z \in Nat /\ x.offset <= z /\ z < x.offset + x.size
    BY <1>3, <1>6
  <2> HIDE DEF z
  <2>2. z \div PAGE_SIZE \in PagesOf(x)
    BY <1>2, <2>1, PageOfByte
  <2>3. QED
    BY <2>2 DEF z
<1>9. Owner(r, pointer) = n
  BY <1>2, <1>7 DEF Owner
<1>10. \A page \in o \div PAGE_SIZE + 1 .. (o + size - 1) \div PAGE_SIZE : r.pages[page] = n
  <2> DEFINE a == o \div PAGE_SIZE
             b == (o + size - 1) \div PAGE_SIZE
             f == FirstPage(x)
             e == EndPage(x)
  <2>1. f \in Nat /\ e \in Nat /\ a \in f .. e - 1 /\ b \in f .. e - 1
    BY <1>2, <1>7, <1>8 DEF Slice, PagesOf
  <2>2. PagesOf(x) = f .. e - 1
    BY DEF PagesOf
  <2> HIDE DEF a, b, f, e
  <2>3. \A page \in a + 1 .. b : page \in f .. e - 1
    BY <2>1
  <2>4. \A page \in a + 1 .. b : r.pages[page] = n
    BY <1>2, <2>2, <2>3
  <2>5. QED
    BY <2>4 DEF a, b
<1>11. OwnerHolds(r, pointer, size)
  BY <1>5, <1>5a, <1>6, <1>9, <1>10, Zenon DEF OwnerHolds, x
<1>12. QED
  BY <1>5, <1>9, <1>11, FindIs

-----------------------------------------------------------------------------
(* The inductive invariant. *)

\* A used entry points at both aliases of an open object.
Owned(i) ==
  regions[i].used = TRUE =>
    \E k \in code_memory : regions[i].rx = RX(k) /\ regions[i].rw = RW(k)

JitInv ==
  /\ regions \in [RegionIds -> Region]
  /\ code_memory \subseteq Objects
  /\ \A i \in RegionIds : RegionOK(regions[i])
  /\ \A i \in RegionIds : Owned(i)
  /\ \A k \in code_memory : \E i \in RegionIds : regions[i].used = TRUE /\ regions[i].rx = RX(k)
  /\ \A i, j \in RegionIds :
       regions[i].used = TRUE /\ regions[j].used = TRUE /\ regions[i].rx = regions[j].rx => i = j
  /\ live = UNION {LiveIn(regions[i]) : i \in RegionIds}

\* A set of naturals that is not empty has a minimum.
LEMMA Minimum ==
  ASSUME NEW T \in SUBSET Nat, T # {}
  PROVE  Min(T) \in T /\ \A y \in T : Min(T) <= y
<1> DEFINE R == OpToRel(<, Nat)
<1>1. IsWellFoundedOn(R, Nat)
  BY NatLessThanWellFounded
<1>2. PICK x \in T : \A y \in T : ~ (<<y, x>> \in R)
  <2> HIDE DEF R
  <2>1. QED BY <1>1, WFMin
<1>3. \A y \in Nat : y < x => <<y, x>> \in R
  BY DEF OpToRel
<1> HIDE DEF R
<1>4. ASSUME NEW y \in T
      PROVE  x <= y
  <2>1. x \in Nat /\ y \in Nat
    OBVIOUS
  <2>2. ~(y < x)
    BY <1>2, <1>3, <2>1, Zenon
  <2>3. QED
    BY <2>1, <2>2
<1>5. QED
  BY <1>4, Zenon DEF Min

\* Every window belongs to one alias of one kernel object.
LEMMA Windows ==
  ASSUME NEW k \in Objects, NEW l \in Objects
  PROVE  /\ Window \in Nat \ {0}
         /\ RX(k) \in Nat /\ RW(k) \in Nat
         /\ \A p \in Nat : ~(RX(k) <= p /\ p < RX(k) + Window /\ RW(l) <= p /\ p < RW(l) + Window)
         /\ k # l =>
              \A p \in Nat : ~(RX(k) <= p /\ p < RX(k) + Window /\ RX(l) <= p /\ p < RX(l) + Window)
<1>1. Window \in Nat \ {0} /\ KernelObjects \in Nat
  BY LimitAssumption, InputAssumption
<1>2. k \in Nat /\ l \in Nat
  BY <1>1 DEF Objects
<1> DEFINE a == 2 * k
           b == 2 * l + 1
           c == 2 * l
           d == 2 * k + 1
<1>3. a \in Nat /\ b \in Nat /\ c \in Nat /\ d \in Nat /\ a # b /\ (k # l => a # c)
  BY <1>2
<1>4. RX(k) = a * Window /\ RW(l) = b * Window /\ RX(l) = c * Window /\ RW(k) = d * Window
  BY DEF RX, RW
<1> HIDE DEF a, b, c, d
<1>5. a * Window \in Nat /\ d * Window \in Nat
  BY <1>1, <1>3, SMT
<1>6. ASSUME NEW p \in Nat, NEW e \in Nat,
             a * Window <= p, p < a * Window + Window, e * Window <= p, p < e * Window + Window
      PROVE  a = e
  <2>1. p \div Window = a
    BY <1>1, <1>3, <1>6, Divide
  <2>2. p \div Window = e
    BY <1>1, <1>6, Divide
  <2>3. QED
    BY <2>1, <2>2
<1>7. QED
  BY <1>1, <1>3, <1>4, <1>5, <1>6, Zenon

\* An RX address tells the object.
LEMMA RXDistinct ==
  ASSUME NEW k \in Objects, NEW l \in Objects, RX(k) = RX(l)
  PROVE  k = l
<1>1. Window \in Nat \ {0} /\ RX(k) \in Nat
  BY Windows
<1> DEFINE p == RX(k)
<1>2. k # l => ~(p <= p /\ p < p + Window /\ RX(l) <= p /\ p < RX(l) + Window)
  BY <1>1, Windows
<1>3. RX(l) = p
  OBVIOUS
<1> HIDE DEF p
<1>4. p \in Nat
  BY <1>1 DEF p
<1>5. p <= p /\ p < p + Window
  BY <1>1, <1>4
<1>6. QED
  BY <1>2, <1>3, <1>5, Zenon

\* Where the allocations of a region lie.
LEMMA LiveBounds ==
  ASSUME NEW r, RegionOK(r), NEW a \in LiveIn(r)
  PROVE  /\ r.used = TRUE /\ r.quarantined = FALSE
         /\ a = [address |-> a.address, size |-> a.size]
         /\ a.address \in Nat /\ a.size \in Nat /\ a.size # 0 /\ Whole(a.size)
         /\ r.rx \in Nat /\ r.size \in Nat /\ r.size <= Window
         /\ r.rx <= a.address /\ a.address + a.size <= r.rx + r.size
<1>1. r \in Region
  BY DEF RegionOK
<1>2. /\ r.used \in BOOLEAN /\ r.pooled \in BOOLEAN /\ r.quarantined \in BOOLEAN
      /\ r.rx \in Nat /\ r.size \in Nat
  BY <1>1, RegionFields
<1>3. r.used = TRUE /\ r.quarantined = FALSE
  BY <1>2 DEF LiveIn
<1>4. CASE r.pooled = TRUE
  <2>1. r.size = SMALL_JIT_POOL_SIZE /\ PoolOK(r.pages, r.allocations, r.active_allocations)
    BY <1>3, <1>4 DEF RegionOK
  <2>2. a \in Pieces(r)
    BY <1>3, <1>4 DEF LiveIn
  <2>3. PICK n \in UsedIn(r.allocations) : a = Piece(r.rx, r.allocations[n])
    BY <2>2 DEF Pieces
  <2> DEFINE x == r.allocations[n]
  <2>4. Slice(x) /\ Whole(x.size)
    BY <2>1 DEF PoolOK, Slice
  <2>5. a = [address |-> r.rx + x.offset, size |-> x.size]
    BY <2>3 DEF Piece
  <2> HIDE DEF x
  <2>6. x.offset \in Nat /\ x.size \in Nat /\ x.size # 0 /\ x.offset + x.size <= SMALL_JIT_POOL_SIZE
    BY <2>4, SliceBounds
  <2>7. SMALL_JIT_POOL_SIZE <= Window
    BY LimitAssumption, InputAssumption
  <2>8. QED
    BY <1>2, <1>3, <2>1, <2>4, <2>5, <2>6, <2>7
<1>5. CASE r.pooled = FALSE
  <2>1. Whole(r.size) /\ r.size <= Window
    BY <1>3, <1>5 DEF RegionOK
  <2>2. a = [address |-> r.rx, size |-> r.size]
    BY <1>3, <1>5 DEF LiveIn
  <2>3. r.size # 0
    BY <2>1, WholeFacts
  <2>4. QED
    BY <1>2, <1>3, <2>1, <2>2, <2>3
<1>6. QED
  BY <1>2, <1>4, <1>5

\* A region that serves code keeps to the window of its object.
LEMMA RegionBounds ==
  ASSUME JitInv, NEW i \in RegionIds, regions[i].used = TRUE, regions[i].quarantined = FALSE
  PROVE  \E k \in code_memory :
           /\ k \in Objects
           /\ regions[i].rx = RX(k) /\ regions[i].rw = RW(k)
           /\ regions[i].rx \in Nat /\ regions[i].rw \in Nat
           /\ regions[i].size \in Nat /\ regions[i].size <= Window
<1>1. regions[i] \in Region /\ RegionOK(regions[i]) /\ Owned(i) /\ code_memory \subseteq Objects
  BY DEF JitInv
<1> DEFINE r == regions[i]
<1>2. r.rx \in Nat /\ r.rw \in Nat /\ r.size \in Nat /\ r.pooled \in BOOLEAN
  BY <1>1, RegionFields
<1>3. SMALL_JIT_POOL_SIZE <= Window
  BY LimitAssumption, InputAssumption
<1>4. r.size <= Window
  BY <1>1, <1>2, <1>3 DEF RegionOK
<1>5. QED
  BY <1>1, <1>2, <1>4, Zenon DEF Owned

\* No two regions have an RX byte in common, nor an RX and an RW byte.
LEMMA RegionsApart ==
  ASSUME JitInv, NEW i \in RegionIds, NEW j \in RegionIds,
         regions[i].used = TRUE, regions[i].quarantined = FALSE,
         regions[j].used = TRUE, regions[j].quarantined = FALSE,
         NEW p \in Nat, regions[i].rx <= p, p < regions[i].rx + regions[i].size
  PROVE  /\ ~(regions[j].rw <= p /\ p < regions[j].rw + regions[j].size)
         /\ i # j => ~(regions[j].rx <= p /\ p < regions[j].rx + regions[j].size)
<1>1. PICK k \in code_memory :
           /\ k \in Objects
           /\ regions[i].rx = RX(k) /\ regions[i].rw = RW(k)
           /\ regions[i].rx \in Nat /\ regions[i].rw \in Nat
           /\ regions[i].size \in Nat /\ regions[i].size <= Window
  BY RegionBounds, Zenon
<1>2. PICK l \in code_memory :
           /\ l \in Objects
           /\ regions[j].rx = RX(l) /\ regions[j].rw = RW(l)
           /\ regions[j].rx \in Nat /\ regions[j].rw \in Nat
           /\ regions[j].size \in Nat /\ regions[j].size <= Window
  BY RegionBounds, Zenon
<1>3. i # j => k # l
  BY <1>1, <1>2 DEF JitInv
<1> DEFINE a == regions[i].rx
           s == regions[i].size
           b == regions[j].rx
           c == regions[j].rw
           t == regions[j].size
           W == Window
<1>4. /\ W \in Nat
      /\ ~(a <= p /\ p < a + W /\ c <= p /\ p < c + W)
      /\ k # l => ~(a <= p /\ p < a + W /\ b <= p /\ p < b + W)
  BY <1>1, <1>2, Windows
<1>5. /\ a \in Nat /\ s \in Nat /\ b \in Nat /\ c \in Nat /\ t \in Nat /\ s <= W /\ t <= W
      /\ a <= p /\ p < a + s
  BY <1>1, <1>2
<1> HIDE DEF a, s, b, c, t, W
<1>6. p < a + W /\ (p < c + t => p < c + W) /\ (p < b + t => p < b + W)
  BY <1>4, <1>5
<1>7. ~(c <= p /\ p < c + t) /\ (i # j => ~(b <= p /\ p < b + t))
  BY <1>3, <1>4, <1>5, <1>6, Zenon
<1>8. QED
  BY <1>7 DEF b, c, t

\* The region that holds an RX byte is the only one that any lookup finds.
LEMMA HoldersAre ==
  ASSUME JitInv, NEW i \in RegionIds, regions[i].used = TRUE, regions[i].quarantined = FALSE,
         NEW p \in Nat, regions[i].rx <= p, p < regions[i].rx + regions[i].size
  PROVE  Holders(p) = {i}
<1>1. ASSUME NEW j \in RegionIds, regions[j].used = TRUE, regions[j].quarantined = FALSE
      PROVE  /\ Contains(regions[j].rx, regions[j].size, p, 1)
                <=> regions[j].rx <= p /\ p < regions[j].rx + regions[j].size
             /\ Contains(regions[j].rw, regions[j].size, p, 1)
                <=> regions[j].rw <= p /\ p < regions[j].rw + regions[j].size
  <2>1. regions[j] \in Region
    BY DEF JitInv
  <2> DEFINE a == regions[j].rx
             b == regions[j].rw
             s == regions[j].size
  <2>2. a \in Nat /\ b \in Nat /\ s \in Nat
    BY <2>1, RegionFields
  <2> HIDE DEF a, b, s
  <2>3. (Contains(a, s, p, 1) <=> a <= p /\ p < a + s) /\ (Contains(b, s, p, 1) <=> b <= p /\ p < b + s)
    BY <2>2 DEF Contains
  <2>4. QED
    BY <2>3 DEF a, b, s
<1>2. ASSUME NEW j \in Holders(p) PROVE j = i
  <2>1. /\ j \in RegionIds /\ regions[j].used /\ ~regions[j].quarantined
        /\ \/ Contains(regions[j].rx, regions[j].size, p, 1)
           \/ Contains(regions[j].rw, regions[j].size, p, 1)
    BY <1>2 DEF Holders
  <2>2. regions[j].used = TRUE /\ regions[j].quarantined = FALSE
    BY <2>1, RegionFields DEF JitInv
  <2>3. \/ regions[j].rx <= p /\ p < regions[j].rx + regions[j].size
        \/ regions[j].rw <= p /\ p < regions[j].rw + regions[j].size
    BY <1>1, <2>1, <2>2, Zenon
  <2>4. QED
    BY <2>1, <2>2, <2>3, RegionsApart, Zenon
<1>3. i \in Holders(p)
  <2>1. Contains(regions[i].rx, regions[i].size, p, 1)
    BY <1>1, Zenon
  <2>2. QED
    BY <2>1, Zenon DEF Holders
<1>4. QED
  BY <1>2, <1>3

\* What callers hold is what the regions record.
LEMMA LiveIs ==
  ASSUME JitInv, NEW a
  PROVE  a \in live <=> \E i \in RegionIds : a \in LiveIn(regions[i])
BY Zenon DEF JitInv

\* Allocations of different regions do not overlap.
LEMMA RegionsPrivate ==
  ASSUME JitInv, NEW i \in RegionIds, NEW j \in RegionIds, i # j,
         NEW a \in LiveIn(regions[i]), NEW b \in LiveIn(regions[j])
  PROVE  ~Overlap(a, b) /\ a # b
<1>1. RegionOK(regions[i]) /\ RegionOK(regions[j])
  BY DEF JitInv
<1> DEFINE p == IF a.address <= b.address THEN b.address ELSE a.address
           ra == regions[i].rx
           sa == regions[i].size
           rb == regions[j].rx
           sb == regions[j].size
           aa == a.address
           za == a.size
           ab == b.address
           zb == b.size
<1>2. /\ regions[i].used = TRUE /\ regions[i].quarantined = FALSE
      /\ aa \in Nat /\ za \in Nat /\ za # 0 /\ ra \in Nat /\ sa \in Nat
      /\ ra <= aa /\ aa + za <= ra + sa
  BY <1>1, LiveBounds
<1>3. /\ regions[j].used = TRUE /\ regions[j].quarantined = FALSE
      /\ ab \in Nat /\ zb \in Nat /\ zb # 0 /\ rb \in Nat /\ sb \in Nat
      /\ rb <= ab /\ ab + zb <= rb + sb
  BY <1>1, LiveBounds
<1>4. \A y \in Nat : ~(ra <= y /\ y < ra + sa /\ rb <= y /\ y < rb + sb)
  BY <1>2, <1>3, RegionsApart, Zenon
<1>5. Overlap(a, b) <=> aa < ab + zb /\ ab < aa + za
  BY DEF Overlap
<1> HIDE DEF ra, sa, rb, sb, aa, za, ab, zb, p
<1>6. p \in Nat /\ p = IF aa <= ab THEN ab ELSE aa
  BY <1>2, <1>3 DEF p, aa, ab
<1>7. aa < ab + zb /\ ab < aa + za => ra <= p /\ p < ra + sa /\ rb <= p /\ p < rb + sb
  BY <1>2, <1>3, <1>6
<1>8. ~Overlap(a, b)
  BY <1>4, <1>5, <1>6, <1>7, Zenon
<1>9. a = b => aa = ab /\ za = zb
  BY Zenon DEF aa, ab, za, zb
<1>10. a = b => Overlap(a, b)
  BY <1>2, <1>5, <1>9
<1>11. QED
  BY <1>8, <1>10

-----------------------------------------------------------------------------
(* What the invariant implies. *)

\* Allocations of the same region do not overlap.
LEMMA InRegionPrivate ==
  ASSUME NEW r, RegionOK(r), NEW a \in LiveIn(r), NEW b \in LiveIn(r), a # b
  PROVE  ~Overlap(a, b)
<1>1. r \in Region /\ r.used = TRUE /\ r.quarantined = FALSE
  BY LiveBounds DEF RegionOK
<1>2. r.pooled \in BOOLEAN /\ r.rx \in Nat
  BY <1>1, RegionFields
<1>3. r.pooled = TRUE
  BY <1>1, <1>2 DEF LiveIn
<1>4. PoolOK(r.pages, r.allocations, r.active_allocations)
  BY <1>1, <1>3 DEF RegionOK
<1>5. a \in Pieces(r) /\ b \in Pieces(r)
  BY <1>1, <1>3 DEF LiveIn
<1>6. PICK i \in UsedIn(r.allocations) : a = Piece(r.rx, r.allocations[i])
  BY <1>5 DEF Pieces
<1>7. PICK j \in UsedIn(r.allocations) : b = Piece(r.rx, r.allocations[j])
  BY <1>5 DEF Pieces
<1>8. i # j
  BY <1>6, <1>7
<1> DEFINE x == r.allocations[i]
           y == r.allocations[j]
           ox == x.offset
           sx == x.size
           oy == y.offset
           sy == y.size
           rx == r.rx
<1>9. ox + sx <= oy \/ oy + sy <= ox
  BY <1>4, <1>8, PoolPrivate
<1>10. Slice(x) /\ Slice(y)
  BY <1>4 DEF PoolOK
<1>11. ox \in Nat /\ sx \in Nat /\ oy \in Nat /\ sy \in Nat
  BY <1>10 DEF Slice
<1>12. a.address = rx + ox /\ a.size = sx /\ b.address = rx + oy /\ b.size = sy
  BY <1>6, <1>7 DEF Piece
<1> HIDE DEF ox, sx, oy, sy, rx
<1>13. ~(rx + ox < rx + oy + sy /\ rx + oy < rx + ox + sx)
  BY <1>2, <1>9, <1>11 DEF rx
<1>14. QED
  BY <1>12, <1>13, Zenon DEF Overlap

\* The invariant implies CodeIsPrivate.
LEMMA InvPrivate ==
  ASSUME JitInv
  PROVE  CodeIsPrivate
<1>1. ASSUME NEW a \in live, NEW b \in live, a # b PROVE ~Overlap(a, b)
  <2>1. PICK i \in RegionIds : a \in LiveIn(regions[i])
    BY LiveIs
  <2>2. PICK j \in RegionIds : b \in LiveIn(regions[j])
    BY LiveIs
  <2>3. CASE i = j
    <3>1. RegionOK(regions[i]) /\ b \in LiveIn(regions[i])
      BY <2>2, <2>3 DEF JitInv
    <3>2. QED
      BY <1>1, <2>1, <3>1, InRegionPrivate
  <2>4. CASE i # j
    BY <2>1, <2>2, <2>4, RegionsPrivate
  <2>5. QED
    BY <2>3, <2>4
<1>2. ASSUME NEW a \in live PROVE \E i \in RegionIds : Backs(i, a)
  <2>1. PICK i \in RegionIds : a \in LiveIn(regions[i])
    BY LiveIs
  <2> DEFINE rx == regions[i].rx
             s == regions[i].size
             p == a.address
             z == a.size
  <2>2. /\ regions[i].used = TRUE /\ regions[i].quarantined = FALSE
        /\ rx \in Nat /\ s \in Nat /\ p \in Nat /\ z \in Nat /\ rx <= p /\ p + z <= rx + s
    BY <2>1, LiveBounds DEF JitInv
  <2> HIDE DEF rx, s, p, z
  <2>3. Contains(rx, s, p, z)
    BY <2>2 DEF Contains
  <2>4. Backs(i, a)
    BY <2>2, <2>3, Zenon DEF Backs, rx, s, p, z
  <2>5. QED
    BY <2>4
<1>3. QED
  BY <1>1, <1>2 DEF CodeIsPrivate

\* FreeJitMemory accepts an allocation by its start and its size, and no other range.
LEMMA AcceptsLive ==
  ASSUME NEW r, RegionOK(r), NEW a \in LiveIn(r)
  PROVE  Accepts(r, a.address, a.size)
<1>1. /\ r.used = TRUE /\ r.quarantined = FALSE /\ Whole(a.size)
      /\ r \in Region /\ a.address \in Nat /\ a.size \in Nat /\ a.size # 0
  BY LiveBounds DEF RegionOK
<1>2. Alignable(a.size) /\ AlignSize(a.size) = a.size
  BY <1>1, WholeFacts
<1>3. r.pooled \in BOOLEAN /\ r.rx \in Nat
  BY <1>1, RegionFields
<1>4. CASE r.pooled = TRUE
  <2>1. PoolOK(r.pages, r.allocations, r.active_allocations)
    BY <1>1, <1>4 DEF RegionOK
  <2>2. PICK n \in UsedIn(r.allocations) : a = Piece(r.rx, r.allocations[n])
    BY <1>1, <1>4 DEF LiveIn, Pieces
  <2> DEFINE x == r.allocations[n]
             ox == x.offset
             sx == x.size
             rx == r.rx
             p == a.address
  <2>3. Slice(x)
    BY <2>1 DEF PoolOK
  <2>4. ox \in Nat /\ sx \in Nat /\ sx # 0
    BY <2>3, SliceBounds
  <2>5. p = rx + ox /\ a.size = sx
    BY <2>2 DEF Piece
  <2> HIDE DEF ox, sx, rx, p
  <2>6. p \in Nat /\ rx + ox <= p /\ p + 1 <= rx + ox + sx
    BY <1>3, <2>4, <2>5 DEF rx
  <2>7. FindPoolAllocation(r, p, 1) = n /\ n # 0
    <3>1. 1 \in Nat \ {0}
      OBVIOUS
    <3>2. r.rx + r.allocations[n].offset <= p /\ p + 1 <= r.rx + r.allocations[n].offset + r.allocations[n].size
      BY <2>6 DEF rx, ox, sx
    <3>3. QED
      BY <1>1, <1>4, <2>6, <3>1, <3>2, FindComplete
  <2>8. QED
    BY <1>2, <1>4, <2>5, <2>7, Zenon DEF Accepts, p, rx, ox, sx
<1>5. CASE r.pooled = FALSE
  <2>1. a = [address |-> r.rx, size |-> r.size]
    BY <1>1, <1>5 DEF LiveIn
  <2>2. a.address = r.rx /\ a.size = r.size
    BY <2>1
  <2>3. QED
    BY <1>2, <1>5, <2>2, Zenon DEF Accepts
<1>6. QED
  BY <1>3, <1>4, <1>5

\* What FreeJitMemory accepts is the allocation of that start and size.
LEMMA AcceptedIsLive ==
  ASSUME NEW r, RegionOK(r), r.used = TRUE, r.quarantined = FALSE,
         NEW rx, NEW size, Accepts(r, rx, size)
  PROVE  /\ [address |-> rx, size |-> AlignSize(size)] \in LiveIn(r)
         /\ r.pooled = TRUE =>
              LET n == FindPoolAllocation(r, rx, 1)
              IN  /\ n \in UsedIn(r.allocations)
                  /\ Piece(r.rx, r.allocations[n]) = [address |-> rx, size |-> AlignSize(size)]
<1>1. r.pooled \in BOOLEAN
  BY RegionFields DEF RegionOK
<1>2. CASE r.pooled = TRUE
  <2> DEFINE n == FindPoolAllocation(r, rx, 1)
  <2>1. n # 0 /\ rx = r.rx + r.allocations[n].offset /\ AlignSize(size) = r.allocations[n].size
    BY <1>2, Zenon DEF Accepts
  <2>2. n \in UsedIn(r.allocations)
    BY <2>1, FindSound
  <2> HIDE DEF n
  <2>3. Piece(r.rx, r.allocations[n]) = [address |-> rx, size |-> AlignSize(size)]
    BY <2>1 DEF Piece
  <2>4. [address |-> rx, size |-> AlignSize(size)] \in LiveIn(r)
    BY <1>2, <2>2, <2>3 DEF LiveIn, Pieces
  <2>5. QED
    BY <2>2, <2>3, <2>4 DEF n
<1>3. CASE r.pooled = FALSE
  <2>1. rx = r.rx /\ AlignSize(size) = r.size
    BY <1>3, Zenon DEF Accepts
  <2>2. QED
    BY <1>3, <2>1 DEF LiveIn
<1>4. QED
  BY <1>1, <1>2, <1>3

\* The invariant implies ReleaseCanBeRetried.
LEMMA InvRetry ==
  ASSUME JitInv
  PROVE  ReleaseCanBeRetried
<1> SUFFICES ASSUME NEW a \in live
             PROVE  /\ Holders(a.address) # {}
                    /\ Accepts(regions[Min(Holders(a.address))], a.address, a.size)
  BY DEF ReleaseCanBeRetried
<1>1. PICK i \in RegionIds : a \in LiveIn(regions[i])
  BY LiveIs
<1>2. RegionOK(regions[i])
  BY DEF JitInv
<1> DEFINE rx == regions[i].rx
           s == regions[i].size
           p == a.address
           z == a.size
<1>3. /\ regions[i].used = TRUE /\ regions[i].quarantined = FALSE /\ z # 0
      /\ rx \in Nat /\ s \in Nat /\ p \in Nat /\ z \in Nat /\ rx <= p /\ p + z <= rx + s
  BY <1>1, <1>2, LiveBounds
<1> HIDE DEF rx, s, p, z
<1>4. p < rx + s
  BY <1>3
<1>5. Holders(p) = {i}
  <2>1. regions[i].rx <= p /\ p < regions[i].rx + regions[i].size
    BY <1>3, <1>4 DEF rx, s
  <2>2. QED
    BY <1>3, <2>1, HoldersAre
<1>6. Min(Holders(p)) = i
  <2>1. {i} \in SUBSET Nat /\ {i} # {}
    BY LimitAssumption DEF RegionIds
  <2>2. QED
    BY <1>5, <2>1, Minimum
<1>7. Accepts(regions[i], a.address, a.size)
  BY <1>1, <1>2, AcceptsLive
<1>8. QED
  BY <1>5, <1>6, <1>7 DEF p

\* The invariant implies EmitterReachesExactlyLive.
LEMMA InvEmitter ==
  ASSUME JitInv
  PROVE  EmitterReachesExactlyLive
<1> SUFFICES ASSUME NEW p \in Addresses, NEW z \in Sizes \ {0, SIZE_MAX}
             PROVE  /\ Find(p, z) # {} <=> \E a \in live : Contains(a.address, a.size, p, z)
                    /\ \A i \in Find(p, z) :
                         \E k \in code_memory : Contains(RW(k), Window, Writable(regions[i], p), z)
  BY DEF EmitterReachesExactlyLive
<1>1. p \in Nat /\ z \in Nat \ {0}
  BY InputAssumption, PageAssumption DEF Addresses
<1>2. \A i \in RegionIds : RegionOK(regions[i]) /\ regions[i] \in Region
  BY DEF JitInv
<1>3. ASSUME NEW i \in Find(p, z)
      PROVE  /\ i \in RegionIds /\ regions[i].used = TRUE /\ regions[i].quarantined = FALSE
             /\ Contains(regions[i].rx, regions[i].size, p, z)
             /\ regions[i].pooled = TRUE => FindPoolAllocation(regions[i], p, z) # 0
  <2>1. /\ i \in RegionIds /\ regions[i].used /\ ~regions[i].quarantined
        /\ Contains(regions[i].rx, regions[i].size, p, z)
        /\ regions[i].pooled => FindPoolAllocation(regions[i], p, z) # 0
    BY <1>3, Zenon DEF Find
  <2>2. regions[i].used \in BOOLEAN /\ regions[i].quarantined \in BOOLEAN
    BY <1>2, <2>1, RegionFields
  <2>3. QED
    BY <2>1, <2>2, Zenon
<1>4. ASSUME NEW i \in Find(p, z)
      PROVE  \E a \in live : Contains(a.address, a.size, p, z)
  <2> DEFINE r == regions[i]
  <2>1. RegionOK(r) /\ r.pooled \in BOOLEAN /\ r.used = TRUE /\ r.quarantined = FALSE
    BY <1>2, <1>3, <1>4, RegionFields
  <2>2. CASE r.pooled = TRUE
    <3> DEFINE n == FindPoolAllocation(r, p, z)
               a == Piece(r.rx, r.allocations[n])
    <3>1. n # 0
      BY <1>3, <1>4, <2>2
    <3>2. n \in UsedIn(r.allocations)
          /\ Contains(r.rx + r.allocations[n].offset, r.allocations[n].size, p, z)
      BY <2>1, <3>1, FindSound
    <3> HIDE DEF n
    <3>3. a \in LiveIn(r) /\ a.address = r.rx + r.allocations[n].offset /\ a.size = r.allocations[n].size
      BY <2>1, <2>2, <3>2 DEF LiveIn, Pieces, Piece
    <3> HIDE DEF a
    <3>4. a \in live
      BY <1>3, <1>4, <3>3, LiveIs
    <3>5. QED
      BY <3>2, <3>3, <3>4
  <2>3. CASE r.pooled = FALSE
    <3> DEFINE a == [address |-> r.rx, size |-> r.size]
    <3>1. a \in LiveIn(r) /\ a.address = r.rx /\ a.size = r.size
      BY <2>1, <2>3 DEF LiveIn
    <3> HIDE DEF a
    <3>2. a \in live
      BY <1>3, <1>4, <3>1, LiveIs
    <3>3. QED
      BY <1>3, <1>4, <3>1, <3>2
  <2>4. QED
    BY <2>1, <2>2, <2>3
<1>5. ASSUME NEW b \in live, Contains(b.address, b.size, p, z)
      PROVE  Find(p, z) # {}
  <2>1. PICK i \in RegionIds : b \in LiveIn(regions[i])
    BY LiveIs
  <2> DEFINE r == regions[i]
             rx == r.rx
             s == r.size
             q == b.address
             y == b.size
  <2>2. RegionOK(r) /\ r.pooled \in BOOLEAN
    BY <1>2, RegionFields
  <2>3. /\ r.used = TRUE /\ r.quarantined = FALSE
        /\ rx \in Nat /\ s \in Nat /\ q \in Nat /\ y \in Nat /\ rx <= q /\ q + y <= rx + s
    BY <2>1, <2>2, LiveBounds
  <2>4. q <= p /\ p + z <= q + y
    BY <1>1, <1>5, <2>3, ContainsFacts
  <2> HIDE DEF rx, s, q, y
  <2>5. Contains(rx, s, p, z)
    BY <1>1, <2>3, <2>4 DEF Contains
  <2>6. ASSUME r.pooled = TRUE PROVE FindPoolAllocation(r, p, z) # 0
    <3>1. PICK n \in UsedIn(r.allocations) : b = Piece(r.rx, r.allocations[n])
      BY <2>1, <2>3, <2>6 DEF LiveIn, Pieces
    <3>2. q = rx + r.allocations[n].offset /\ y = r.allocations[n].size
      BY <3>1 DEF Piece, q, y, rx
    <3>3. /\ r.rx + r.allocations[n].offset <= p
          /\ p + z <= r.rx + r.allocations[n].offset + r.allocations[n].size
      BY <2>4, <3>2 DEF rx
    <3> HIDE DEF r
    <3>4. FindPoolAllocation(r, p, z) = n /\ n # 0
      BY <1>1, <2>2, <2>3, <2>6, <3>3, FindComplete
    <3>5. QED
      BY <3>4, Zenon
  <2>7. i \in Find(p, z)
    BY <2>2, <2>3, <2>5, <2>6, Zenon DEF Find, rx, s
  <2>8. QED
    BY <2>7
<1>6. ASSUME NEW i \in Find(p, z)
      PROVE  \E k \in code_memory : Contains(RW(k), Window, Writable(regions[i], p), z)
  <2>1. PICK k \in code_memory :
           /\ k \in Objects
           /\ regions[i].rx = RX(k) /\ regions[i].rw = RW(k)
           /\ regions[i].rx \in Nat /\ regions[i].rw \in Nat
           /\ regions[i].size \in Nat /\ regions[i].size <= Window
    BY <1>3, <1>6, RegionBounds, Zenon
  <2> DEFINE a == regions[i].rx
             b == regions[i].rw
             s == regions[i].size
             w == b + (p - a)
  <2>2. Contains(a, s, p, z) /\ Window \in Nat
    BY <1>3, <1>6, InputAssumption
  <2>3. a \in Nat /\ b \in Nat /\ s \in Nat /\ s <= Window
    BY <2>1
  <2>4. Writable(regions[i], p) = w /\ RW(k) = b
    BY <2>1 DEF Writable
  <2> HIDE DEF a, b, s
  <2>5. Contains(b, Window, w, z)
    BY <1>1, <2>2, <2>3 DEF Contains
  <2>6. QED
    BY <2>4, <2>5
<1>7. QED
  BY <1>4, <1>5, <1>6

\* The invariant implies RegistryOwnsObjects.
LEMMA InvOwns ==
  ASSUME JitInv
  PROVE  RegistryOwnsObjects
<1>1. \A i \in RegionIds : regions[i].used \in BOOLEAN
  BY RegionFields DEF JitInv
<1>2. ASSUME NEW k \in Objects, NEW i \in RegionIds, regions[i].used = TRUE, regions[i].rx = RX(k)
      PROVE  k \in code_memory
  <2>1. PICK l \in code_memory : regions[i].rx = RX(l) /\ l \in Objects
    BY <1>2 DEF JitInv, Owned
  <2>2. k = l
    BY <1>2, <2>1, RXDistinct
  <2>3. QED
    BY <2>1, <2>2
<1>3. \A k \in code_memory : \E i \in RegionIds : regions[i].used = TRUE /\ regions[i].rx = RX(k)
  BY DEF JitInv
<1>4. \A i, j \in RegionIds :
        regions[i].used = TRUE /\ regions[j].used = TRUE /\ regions[i].rx = regions[j].rx => i = j
  BY DEF JitInv
<1>5. QED
  BY <1>1, <1>2, <1>3, <1>4, Zenon DEF RegistryOwnsObjects

-----------------------------------------------------------------------------
(* The regions that operations make. *)

\* An empty list fits.
LEMMA EmptyFits ==
  ASSUME NEW r, r.allocations = << >>
  PROVE  ListFits(r)
<1>1. Len(<< >>) = 0
  BY EmptySeq
<1>2. PoolPages \in Nat
  BY PoolSize DEF PageFacts
<1>3. QED
  BY <1>1, <1>2 DEF ListFits

\* An unused entry records nothing.
LEMMA NoRegionFacts ==
  RegionOK(NoRegion) /\ LiveIn(NoRegion) = {} /\ NoRegion.used = FALSE
<1>1. NoPages \in [{} -> Nat]
  BY DEF NoPages
<1>2. << >> \in Seq(Allocation)
  BY EmptySeq
<1>3. /\ NoRegion \in Region /\ NoRegion.used = FALSE /\ NoRegion.allocations = << >>
  BY <1>1, <1>2 DEF NoRegion, Region
<1>4. ListFits(NoRegion)
  BY <1>3, EmptyFits
<1>5. QED
  BY <1>3, <1>4 DEF RegionOK, LiveIn

\* A pool without allocations, with or without its page table, is in order.
LEMMA EmptyPoolOK ==
  ASSUME NEW t \in [{} -> Nat] \union [0 .. PoolPages - 1 -> Nat],
         \A q \in DOMAIN t : t[q] = 0
  PROVE  PoolOK(t, << >>, 0)
<1>1. << >> \in Seq(Allocation) /\ Len(<< >>) = 0
  BY EmptySeq
<1>2. UsedIn(<< >>) = {}
  BY <1>1 DEF UsedIn
<1>3. IsFiniteSet({}) /\ Cardinality({}) = 0
  BY FS_EmptySet
<1>4. QED
  BY <1>1, <1>2, <1>3 DEF PoolOK

\* The fields that OpenRegion fills in.
LEMMA OpenedFacts ==
  ASSUME NEW k \in Objects, NEW size \in Nat, NEW pooled \in BOOLEAN
  PROVE  LET r == Opened(k, size, pooled)
         IN  /\ r \in Region /\ r.used = TRUE /\ r.quarantined = FALSE /\ r.pooled = pooled
             /\ r.rx = RX(k) /\ r.rw = RW(k) /\ r.size = size /\ r.pages = NoPages
             /\ r.allocations = << >> /\ r.active_allocations = 0
<1>1. RX(k) \in Nat /\ RW(k) \in Nat
  BY Windows
<1>2. NoPages \in [{} -> Nat]
  BY DEF NoPages
<1>3. << >> \in Seq(Allocation)
  BY EmptySeq
<1> DEFINE o == NoRegion
           r == [o EXCEPT !.used = TRUE, !.pooled = pooled, !.rx = RX(k), !.rw = RW(k),
                          !.size = size]
<1>4. /\ o \in Region /\ o.quarantined = FALSE /\ o.pages = NoPages
      /\ o.allocations = << >> /\ o.active_allocations = 0
  BY <1>2, <1>3 DEF NoRegion, Region
<1>5. Opened(k, size, pooled) = r
  BY Zenon DEF Opened
<1> HIDE DEF o
<1>6. /\ r \in Region /\ r.used = TRUE /\ r.quarantined = FALSE /\ r.pooled = pooled
      /\ r.rx = RX(k) /\ r.rw = RW(k) /\ r.size = size /\ r.pages = NoPages
      /\ r.allocations = << >> /\ r.active_allocations = 0
  BY <1>1, <1>4 DEF Region
<1>7. QED
  BY <1>5, <1>6, Zenon

\* A dedicated region records one allocation.
LEMMA DedicatedFacts ==
  ASSUME NEW k \in Objects, NEW size \in Nat, Whole(size), size <= Window
  PROVE  LET r == Opened(k, size, FALSE)
         IN  /\ RegionOK(r) /\ r.used = TRUE /\ r.rx = RX(k) /\ r.rw = RW(k)
             /\ LiveIn(r) = {[address |-> RX(k), size |-> size]} /\ r.pooled = FALSE
<1> DEFINE r == Opened(k, size, FALSE)
<1>1. /\ r \in Region /\ r.used = TRUE /\ r.quarantined = FALSE /\ r.pooled = FALSE
      /\ r.rx = RX(k) /\ r.rw = RW(k) /\ r.size = size /\ r.allocations = << >>
  BY OpenedFacts
<1> HIDE DEF r
<1>2. RegionOK(r)
  BY <1>1, EmptyFits DEF RegionOK
<1>3. LiveIn(r) = {[address |-> RX(k), size |-> size]}
  BY <1>1 DEF LiveIn
<1>4. QED
  BY <1>1, <1>2, <1>3 DEF r

\* A quarantined region records nothing.
LEMMA QuarantineFacts ==
  ASSUME NEW k \in Objects, NEW size \in Nat
  PROVE  LET r == [Opened(k, size, FALSE) EXCEPT !.quarantined = TRUE]
         IN  RegionOK(r) /\ r.used = TRUE /\ r.rx = RX(k) /\ r.rw = RW(k) /\ LiveIn(r) = {}
<1> DEFINE o == Opened(k, size, FALSE)
           r == [o EXCEPT !.quarantined = TRUE]
<1>1. o \in Region /\ o.used = TRUE /\ o.rx = RX(k) /\ o.rw = RW(k) /\ o.allocations = << >>
  BY OpenedFacts
<1> HIDE DEF o
<1>2. /\ r \in Region /\ r.used = TRUE /\ r.quarantined = TRUE /\ r.rx = RX(k) /\ r.rw = RW(k)
      /\ r.allocations = << >>
  BY <1>1 DEF Region
<1> HIDE DEF r
<1>3. RegionOK(r) /\ LiveIn(r) = {}
  BY <1>2, EmptyFits DEF RegionOK, LiveIn
<1>4. QED
  BY <1>2, <1>3 DEF r, o

\* A pool without a page table records nothing.
LEMMA StrandedFacts ==
  ASSUME NEW k \in Objects
  PROVE  LET r == Opened(k, SMALL_JIT_POOL_SIZE, TRUE)
         IN  RegionOK(r) /\ r.used = TRUE /\ r.rx = RX(k) /\ r.rw = RW(k) /\ LiveIn(r) = {}
<1> DEFINE r == Opened(k, SMALL_JIT_POOL_SIZE, TRUE)
<1>1. SMALL_JIT_POOL_SIZE \in Nat
  BY PoolSize DEF PageFacts
<1>2. /\ r \in Region /\ r.used = TRUE /\ r.quarantined = FALSE /\ r.pooled = TRUE
      /\ r.rx = RX(k) /\ r.rw = RW(k) /\ r.size = SMALL_JIT_POOL_SIZE /\ r.pages = NoPages
      /\ r.allocations = << >> /\ r.active_allocations = 0
  BY <1>1, OpenedFacts
<1> HIDE DEF r
<1>3. NoPages \in [{} -> Nat] /\ DOMAIN NoPages = {}
  BY DEF NoPages
<1>4. PoolOK(r.pages, r.allocations, r.active_allocations)
  BY <1>2, <1>3, EmptyPoolOK
<1>5. RegionOK(r)
  BY <1>2, <1>4, EmptyFits DEF RegionOK
<1>6. UsedIn(<< >>) = {}
  BY EmptySeq DEF UsedIn
<1>7. LiveIn(r) = {}
  BY <1>2, <1>6 DEF LiveIn, Pieces
<1>8. QED
  BY <1>2, <1>5, <1>7 DEF r

\* A new pool records nothing.
LEMMA EmptyPoolFacts ==
  ASSUME NEW k \in Objects
  PROVE  LET r == EmptyPool(k)
         IN  /\ RegionOK(r) /\ r.used = TRUE /\ r.quarantined = FALSE /\ r.pooled = TRUE
             /\ r.rx = RX(k) /\ r.rw = RW(k) /\ LiveIn(r) = {}
             /\ r.pages = [page \in 0 .. PoolPages - 1 |-> 0]
<1> DEFINE o == Opened(k, SMALL_JIT_POOL_SIZE, TRUE)
           t == [page \in 0 .. PoolPages - 1 |-> 0]
           r == [o EXCEPT !.pages = t]
<1>1. SMALL_JIT_POOL_SIZE \in Nat
  BY PoolSize DEF PageFacts
<1>2. /\ o \in Region /\ o.used = TRUE /\ o.quarantined = FALSE /\ o.pooled = TRUE
      /\ o.rx = RX(k) /\ o.rw = RW(k) /\ o.size = SMALL_JIT_POOL_SIZE
      /\ o.allocations = << >> /\ o.active_allocations = 0
  BY <1>1, OpenedFacts
<1> HIDE DEF o
<1>3. t \in [0 .. PoolPages - 1 -> Nat] /\ \A q \in DOMAIN t : t[q] = 0
  OBVIOUS
<1> HIDE DEF t
<1>4. /\ r \in Region /\ r.used = TRUE /\ r.quarantined = FALSE /\ r.pooled = TRUE
      /\ r.rx = RX(k) /\ r.rw = RW(k) /\ r.size = SMALL_JIT_POOL_SIZE /\ r.pages = t
      /\ r.allocations = << >> /\ r.active_allocations = 0
  BY <1>2, <1>3 DEF Region
<1> HIDE DEF r
<1>5. PoolOK(t, << >>, 0)
  BY <1>3, EmptyPoolOK
<1>6. RegionOK(r)
  BY <1>4, <1>5, EmptyFits DEF RegionOK
<1>7. UsedIn(<< >>) = {}
  BY EmptySeq DEF UsedIn
<1>8. LiveIn(r) = {}
  BY <1>4, <1>7 DEF LiveIn, Pieces
<1>9. EmptyPool(k) = r
  BY DEF EmptyPool, r, o, t
<1>10. QED
  BY <1>4, <1>6, <1>8, <1>9 DEF t

\* AddPoolAllocation takes the first unused entry, or appends one.
LEMMA NewEntry ==
  ASSUME NEW al \in Seq(Allocation), NEW x \in Allocation, x.used = TRUE, NEW n,
         n = Min({j \in DOMAIN al : ~al[j].used} \union {Len(al) + 1})
  PROVE  Entered(IF n \in DOMAIN al THEN [al EXCEPT ![n] = x] ELSE Append(al, x), al, n, x)
<1> DEFINE T == {j \in DOMAIN al : ~al[j].used} \union {Len(al) + 1}
<1>1. DOMAIN al = 1 .. Len(al) /\ Len(al) \in Nat
  BY LenProperties
<1>2. T \in SUBSET Nat /\ T # {}
  BY <1>1
<1>3. n \in T /\ \A j \in T : n <= j
  <2> HIDE DEF T
  <2>1. Min(T) \in T /\ \A j \in T : Min(T) <= j
    BY <1>2, Minimum
  <2>2. QED
    BY <2>1 DEF T
<1>4. n \in Nat \ {0} /\ n \notin UsedIn(al)
  BY <1>1, <1>3 DEF UsedIn
<1> DEFINE L == Len(al)
<1>5. CASE n \in DOMAIN al
  <2> DEFINE al2 == [al EXCEPT ![n] = x]
  <2>1. al2 \in Seq(Allocation) /\ Len(al2) = Len(al) /\ al2[n] = x
        /\ \A j \in 1 .. Len(al) : j # n => al2[j] = al[j]
    BY <1>1, <1>5, ExceptSeq
  <2> HIDE DEF al2
  <2>2. UsedIn(al2) = UsedIn(al) \union {n}
    BY <1>1, <1>5, <2>1 DEF UsedIn
  <2>3. \A j \in UsedIn(al) : al2[j] = al[j]
    BY <1>4, <2>1 DEF UsedIn
  <2>4. Entered(al2, al, n, x)
    BY <1>4, <2>1, <2>2, <2>3 DEF Entered
  <2>5. QED
    BY <1>5, <2>4 DEF al2
<1>6. CASE n \notin DOMAIN al
  <2> DEFINE al2 == Append(al, x)
  <2>1. n = L + 1 /\ L \in Nat /\ L + 1 \notin 1 .. L
    BY <1>1, <1>3, <1>6
  <2>2. /\ al2 \in Seq(Allocation) /\ Len(al2) = L + 1
        /\ al2[L + 1] = x /\ \A j \in 1 .. L : al2[j] = al[j]
    BY AppendProperties
  <2> HIDE DEF al2
  <2>3. UsedIn(al2) = UsedIn(al) \union {n}
    <3>1. ASSUME NEW j PROVE j \in 1 .. L + 1 <=> j \in 1 .. L \/ j = L + 1
      BY <1>1
    <3> HIDE DEF L
    <3>2. ASSUME NEW j PROVE j \in UsedIn(al2) <=> j \in UsedIn(al) \/ j = n
      <4>1. j \in UsedIn(al2) <=> j \in 1 .. L + 1 /\ al2[j].used = TRUE
        BY <2>2 DEF UsedIn
      <4>2. j \in UsedIn(al) <=> j \in 1 .. L /\ al[j].used = TRUE
        BY DEF UsedIn, L
      <4>3. j = L + 1 => al2[j].used = TRUE
        BY <2>2
      <4>4. QED
        BY <2>1, <2>2, <3>1, <4>1, <4>2, <4>3, Zenon
    <3>3. QED
      BY <3>2, Zenon
  <2>4. \A j \in UsedIn(al) : al2[j] = al[j]
    BY <2>2 DEF UsedIn
  <2>5. al2[n] = x
    BY <2>1, <2>2, Zenon
  <2>5a. UsedIn(al2) = 1 .. Len(al2)
    <3>1. ASSUME NEW j \in 1 .. L PROVE j \in UsedIn(al)
      <4>1. j \in Nat /\ ~(n <= j)
        BY <2>1
      <4>2. j \notin T
        BY <1>3, <4>1
      <4>3. al[j].used \in BOOLEAN
        <5>1. al[j] \in Allocation
          BY <1>1
        <5>2. QED
          BY <5>1 DEF Allocation
      <4>4. QED
        BY <1>1, <4>2, <4>3 DEF UsedIn
    <3>2. ASSUME NEW j PROVE j \in 1 .. L + 1 <=> j \in 1 .. L \/ j = L + 1
      BY <1>1
    <3>3. UsedIn(al) \subseteq 1 .. L
      BY DEF UsedIn
    <3> HIDE DEF L
    <3>4. \A j : j \in UsedIn(al2) <=> j \in 1 .. L + 1
      BY <2>1, <2>3, <3>1, <3>2, <3>3
    <3>5. QED
      BY <2>2, <3>4, Zenon
  <2>6. Entered(al2, al, n, x)
    BY <1>4, <2>2, <2>3, <2>4, <2>5, <2>5a, Zenon DEF Entered
  <2>7. QED
    BY <1>6, <2>6 DEF al2
<1>7. QED
  BY <1>5, <1>6

\* Region r2 is r with one more allocation.
Added(r2, r, offset, size) ==
  /\ RegionOK(r2) /\ r2.used = TRUE /\ r2.rx = r.rx /\ r2.rw = r.rw
  /\ LiveIn(r2) = LiveIn(r) \union {[address |-> r.rx + offset, size |-> size]}
  /\ [address |-> r.rx + offset, size |-> size] \notin LiveIn(r)
  /\ r.pooled = TRUE /\ r2.pooled = TRUE

\* AddPoolAllocation adds one slice to a pool whose pages are free.
LEMMA AddSlice ==
  ASSUME NEW r, NEW offset, NEW size, NEW x,
         RegionOK(r), r.used = TRUE, r.quarantined = FALSE, r.pooled = TRUE, Table(r.pages),
         x = [offset |-> offset, size |-> size, used |-> TRUE], x \in Allocation, Slice(x),
         \A q \in PagesOf(x) : r.pages[q] = 0
  PROVE  Added(AddPoolAllocation(r, offset, size), r, offset, size)
<1> DEFINE n == NewIndex(r)
           al == r.allocations
           al2 == IF n \in DOMAIN al THEN [al EXCEPT ![n] = x] ELSE Append(al, x)
           t == r.pages
           t2 == FillPages(t, offset, size, n)
           m == r.active_allocations
           r2 == [r EXCEPT !.allocations = al2, !.pages = t2, !.active_allocations = m + 1]
<1>1. r \in Region /\ r.size = SMALL_JIT_POOL_SIZE /\ PoolOK(t, al, m)
  BY DEF RegionOK
<1>2. AddPoolAllocation(r, offset, size) = r2
  BY Zenon DEF AddPoolAllocation
<1>3. x.offset = offset /\ x.size = size /\ x.used = TRUE
  OBVIOUS
<1>7. al \in Seq(Allocation) /\ m \in Nat /\ Table(t)
  BY <1>1, RegionFields
<1>8. n = Min({j \in DOMAIN al : ~al[j].used} \union {Len(al) + 1})
  BY DEF NewIndex
<1> HIDE DEF n
<1>9. Entered(al2, al, n, x)
  <2> HIDE DEF al
  <2>1. QED
    BY <1>3, <1>7, <1>8, NewEntry
<1> HIDE DEF al2
<1>10. Filled(t2, t, x, n)
  <2>1. t2 = FillPages(t, x.offset, x.size, n) /\ n \in Nat
    BY <1>3, <1>9 DEF Entered
  <2> HIDE DEF t, t2
  <2>2. QED
    BY <1>7, <2>1, FillFacts
<1> HIDE DEF t2
<1>11. \A q \in PagesOf(x) : t[q] = 0
  OBVIOUS
<1> HIDE DEF t, al, m
<1>12. PoolOK(t2, al2, m + 1)
  BY <1>1, <1>3, <1>7, <1>9, <1>10, <1>11, PoolAdd, Zenon
<1>13. /\ r2 \in Region /\ r2.used = TRUE /\ r2.quarantined = FALSE /\ r2.pooled = TRUE
       /\ r2.rx = r.rx /\ r2.rw = r.rw /\ r2.size = SMALL_JIT_POOL_SIZE
       /\ r2.pages = t2 /\ r2.allocations = al2 /\ r2.active_allocations = m + 1
  <2> DEFINE m2 == m + 1
             y == [r EXCEPT !.allocations = al2, !.pages = t2, !.active_allocations = m2]
  <2>1. r2 = y /\ m2 \in Nat /\ al2 \in Seq(Allocation) /\ t2 \in [0 .. PoolPages - 1 -> Nat]
    BY <1>7, <1>9, <1>10 DEF Entered, Filled, Table
  <2> HIDE DEF m2, r2
  <2>2. /\ y \in Region /\ y.used = TRUE /\ y.quarantined = FALSE /\ y.pooled = TRUE
        /\ y.rx = r.rx /\ y.rw = r.rw /\ y.size = SMALL_JIT_POOL_SIZE
        /\ y.pages = t2 /\ y.allocations = al2 /\ y.active_allocations = m2
    BY <1>1, <2>1 DEF Region
  <2>3. QED
    BY <2>1, <2>2, Zenon DEF m2
<1> HIDE DEF r2
<1>13a. ListFits(r2)
  <2>1. m + 1 <= PoolPages /\ m + 1 # 0 /\ m + 1 = Cardinality(UsedIn(al2)) /\ PoolPages \in Nat
    <3> DEFINE m2 == m + 1
    <3>1. m2 # 0 /\ PoolOK(t2, al2, m2)
      BY <1>7, <1>12
    <3> HIDE DEF m2
    <3>2. m2 <= PoolPages
      BY <3>1, CountFits
    <3>3. m2 = Cardinality(UsedIn(al2))
      BY <3>1 DEF PoolOK
    <3>4. PoolPages \in Nat
      BY PoolSize DEF PageFacts
    <3>5. QED
      BY <3>1, <3>2, <3>3, <3>4 DEF m2
  <2>2. Len(al) <= PoolPages
    BY DEF RegionOK, ListFits, al
  <2>3. Len(al2) \in Nat
    BY <1>9, LenProperties DEF Entered
  <2>4. CASE Len(al2) = Len(al)
    BY <1>13, <2>1, <2>2, <2>4 DEF ListFits
  <2>5. CASE UsedIn(al2) = 1 .. Len(al2)
    <3> DEFINE L == Len(al2)
    <3>1. L \in Nat /\ 1 \in Int
      BY <2>3
    <3> HIDE DEF L
    <3>2. Cardinality(1 .. L) = L
      BY <3>1, FS_Interval
    <3>3. L <= PoolPages
      BY <2>1, <2>5, <3>2 DEF L
    <3>4. QED
      BY <1>13, <2>1, <3>3 DEF ListFits, L
  <2>6. QED
    BY <1>9, <2>4, <2>5 DEF Entered
<1>14. RegionOK(r2)
  BY <1>12, <1>13, <1>13a DEF RegionOK
<1>15. Piece(r.rx, x) = [address |-> r.rx + offset, size |-> size]
  BY <1>3 DEF Piece
<1>16. Pieces(r2) = Pieces(r) \union {Piece(r.rx, x)}
  <2>1. \A j \in UsedIn(al) : Piece(r2.rx, al2[j]) = Piece(r.rx, al[j])
    BY <1>9, <1>13, Zenon DEF Entered
  <2>2. Piece(r2.rx, al2[n]) = Piece(r.rx, x)
    BY <1>9, <1>13, Zenon DEF Entered
  <2>3. Pieces(r2) = {Piece(r2.rx, al2[j]) : j \in UsedIn(al2)}
    BY <1>13, Zenon DEF Pieces
  <2>4. Pieces(r) = {Piece(r.rx, al[j]) : j \in UsedIn(al)}
    BY Zenon DEF Pieces, al
  <2>5. UsedIn(al2) = UsedIn(al) \union {n}
    BY <1>9, Zenon DEF Entered
  <2>6. QED
    BY <2>1, <2>2, <2>3, <2>4, <2>5
<1>17. LiveIn(r2) = Pieces(r2) /\ LiveIn(r) = Pieces(r)
  BY <1>13 DEF LiveIn
<1>18. LiveIn(r2) = LiveIn(r) \union {[address |-> r.rx + offset, size |-> size]}
  BY <1>15, <1>16, <1>17, Zenon
<1>19. r2.used = TRUE /\ r2.rx = r.rx /\ r2.rw = r.rw /\ r2.pooled = TRUE
  BY <1>13
<1>20. Piece(r.rx, x) \notin Pieces(r)
  <2>1. ASSUME NEW j \in UsedIn(al) PROVE Piece(r.rx, al[j]) # Piece(r.rx, x)
    <3>1. j \in UsedIn(al2) /\ n \in UsedIn(al2) /\ j # n /\ al2[j] = al[j] /\ al2[n] = x
      BY <1>9, <2>1, Zenon DEF Entered
    <3>2. r.rx \in Nat
      BY <1>1, RegionFields
    <3>3. Piece(r.rx, al2[j]) # Piece(r.rx, al2[n])
      BY <1>12, <3>1, <3>2, PiecesDiffer
    <3>4. QED
      BY <3>1, <3>3, Zenon
  <2>2. Pieces(r) = {Piece(r.rx, al[j]) : j \in UsedIn(al)}
    BY Zenon DEF Pieces, al
  <2>3. QED
    BY <2>1, <2>2
<1>21. [address |-> r.rx + offset, size |-> size] \notin LiveIn(r)
  BY <1>15, <1>17, <1>20, Zenon
<1>22. QED
  BY <1>2, <1>14, <1>18, <1>19, <1>21, Zenon DEF Added

\* AddPoolAllocation adds a run of free pages.
LEMMA AddFacts ==
  ASSUME NEW r, RegionOK(r), r.used = TRUE, r.quarantined = FALSE, r.pooled = TRUE,
         Table(r.pages),
         NEW a \in Nat, NEW s \in Nat \ {0}, a + s <= PoolPages, Whole(s * PAGE_SIZE),
         \A q \in a .. a + s - 1 : r.pages[q] = 0
  PROVE  Added(AddPoolAllocation(r, a * PAGE_SIZE, s * PAGE_SIZE), r, a * PAGE_SIZE, s * PAGE_SIZE)
<1> DEFINE offset == a * PAGE_SIZE
           size == s * PAGE_SIZE
           x == [offset |-> offset, size |-> size, used |-> TRUE]
<1>1. PAGE_SIZE \in Nat
  BY PageAssumption
<1>2. offset \in Nat /\ size \in Nat
  BY <1>1, SMT
<1>4. Slice(x) /\ PagesOf(x) = a .. a + s - 1
  <2>1. x.offset = a * PAGE_SIZE /\ x.size = s * PAGE_SIZE
    OBVIOUS
  <2> HIDE DEF x
  <2>2. QED
    BY <2>1, SliceFacts
<1> HIDE DEF offset, size
<1>3. x \in Allocation
  BY <1>2 DEF Allocation
<1>5. \A q \in PagesOf(x) : r.pages[q] = 0
  BY <1>4, Zenon
<1>6. x = [offset |-> offset, size |-> size, used |-> TRUE]
  OBVIOUS
<1> HIDE DEF x
<1>7. Added(AddPoolAllocation(r, offset, size), r, offset, size)
  BY <1>3, <1>4, <1>5, <1>6, AddSlice, Zenon
<1>8. QED
  BY <1>7, Zenon DEF offset, size

\* Region r2 is r without one of its allocations.
Removed(r2, r, a) ==
  /\ RegionOK(r2) /\ r2.used = TRUE /\ r2.rx = r.rx /\ r2.rw = r.rw
  /\ LiveIn(r2) = LiveIn(r) \ {a} /\ r2.pooled = TRUE

\* Resetting an entry takes it off the list.
LEMMA OldEntry ==
  ASSUME NEW al \in Seq(Allocation), NEW n \in UsedIn(al)
  PROVE  Left([al EXCEPT ![n] = Unused], al, n)
<1>1. DOMAIN al = 1 .. Len(al) /\ Len(al) \in Nat
  BY LenProperties
<1>2. n \in 1 .. Len(al)
  BY DEF UsedIn
<1>3. Unused \in Allocation /\ Unused.used = FALSE
  BY DEF Unused, Allocation
<1> DEFINE u == Unused
           al2 == [al EXCEPT ![n] = u]
<1> HIDE DEF u
<1>4. al2 \in Seq(Allocation) /\ Len(al2) = Len(al) /\ al2[n] = u
      /\ \A j \in 1 .. Len(al) : j # n => al2[j] = al[j]
  BY <1>1, <1>2, <1>3, ExceptSeq DEF u
<1>5. u.used = FALSE
  BY <1>3 DEF u
<1> HIDE DEF al2
<1>6. UsedIn(al2) = UsedIn(al) \ {n}
  BY <1>2, <1>4, <1>5 DEF UsedIn
<1>7. \A j \in UsedIn(al2) : al2[j] = al[j]
  BY <1>4, <1>6 DEF UsedIn
<1>8. Left(al2, al, n)
  BY <1>4, <1>6, <1>7, Zenon DEF Left
<1>9. QED
  BY <1>8 DEF al2, u

\* ReleasePages removes one allocation and leaves the others alone.
LEMMA ReleaseFacts ==
  ASSUME NEW r, NEW n, RegionOK(r), r.used = TRUE, r.quarantined = FALSE, r.pooled = TRUE,
         n \in UsedIn(r.allocations), r.active_allocations # 1
  PROVE  Removed(ReleasePages(r, n), r, Piece(r.rx, r.allocations[n]))
<1> DEFINE al == r.allocations
           al2 == [al EXCEPT ![n] = Unused]
           x == al[n]
           t == r.pages
           t2 == FillPages(t, x.offset, x.size, 0)
           m == r.active_allocations
           r2 == [r EXCEPT !.pages = t2, !.allocations = al2, !.active_allocations = m - 1]
<1>1. r \in Region /\ r.size = SMALL_JIT_POOL_SIZE /\ PoolOK(t, al, m) /\ r.rx \in Nat
  BY RegionFields DEF RegionOK
<1>2. ReleasePages(r, n) = r2
  BY Zenon DEF ReleasePages
<1>3. al \in Seq(Allocation) /\ m \in Nat /\ Table(t)
  BY <1>1, RegionFields DEF PoolOK, Table
<1>4. Left(al2, al, n)
  <2> HIDE DEF al
  <2>1. n \in UsedIn(al)
    BY DEF al
  <2>2. QED
    BY <1>3, <2>1, OldEntry
<1> HIDE DEF al2
<1>5. Filled(t2, t, x, 0)
  <2> HIDE DEF t, x
  <2>1. QED
    BY <1>3, FillFacts
<1> HIDE DEF t2, t, al, m
<1>6. PoolOK(t2, al2, m - 1)
  BY <1>1, <1>3, <1>4, <1>5, PoolRemove, Zenon
<1>7. /\ r2 \in Region /\ r2.used = TRUE /\ r2.quarantined = FALSE /\ r2.pooled = TRUE
      /\ r2.rx = r.rx /\ r2.rw = r.rw /\ r2.size = SMALL_JIT_POOL_SIZE
      /\ r2.pages = t2 /\ r2.allocations = al2 /\ r2.active_allocations = m - 1
  <2> DEFINE m2 == m - 1
             y == [r EXCEPT !.pages = t2, !.allocations = al2, !.active_allocations = m2]
  <2>1. r2 = y /\ m2 \in Nat /\ al2 \in Seq(Allocation) /\ t2 \in [0 .. PoolPages - 1 -> Nat]
    BY <1>4, <1>5, <1>6 DEF Left, Filled, Table, PoolOK
  <2> HIDE DEF m2, r2
  <2>2. /\ y \in Region /\ y.used = TRUE /\ y.quarantined = FALSE /\ y.pooled = TRUE
        /\ y.rx = r.rx /\ y.rw = r.rw /\ y.size = SMALL_JIT_POOL_SIZE
        /\ y.pages = t2 /\ y.allocations = al2 /\ y.active_allocations = m2
    BY <1>1, <2>1 DEF Region
  <2>3. QED
    BY <2>1, <2>2, Zenon DEF m2
<1> HIDE DEF r2
<1>7a. ListFits(r2)
  <2>1. m - 1 # 0
    BY <1>3 DEF m
  <2>2. Len(al2) = Len(al)
    BY <1>4 DEF Left
  <2>3. Len(al) <= PoolPages
    BY DEF RegionOK, ListFits, al
  <2>4. QED
    BY <1>7, <2>1, <2>2, <2>3, Zenon DEF ListFits
<1>8. RegionOK(r2)
  BY <1>6, <1>7, <1>7a DEF RegionOK
<1>9. ASSUME NEW j \in UsedIn(al), j # n PROVE Piece(r.rx, al[j]) # Piece(r.rx, al[n])
  <2>1. n \in UsedIn(al)
    BY DEF al
  <2>2. QED
    BY <1>1, <1>9, <2>1, PiecesDiffer, Zenon
<1>10. Pieces(r2) = Pieces(r) \ {Piece(r.rx, al[n])}
  <2>1. \A j \in UsedIn(al2) : Piece(r2.rx, al2[j]) = Piece(r.rx, al[j])
    BY <1>4, <1>7, Zenon DEF Left
  <2>2. Pieces(r2) = {Piece(r2.rx, al2[j]) : j \in UsedIn(al2)}
    BY <1>7, Zenon DEF Pieces
  <2>3. Pieces(r) = {Piece(r.rx, al[j]) : j \in UsedIn(al)}
    BY Zenon DEF Pieces, al
  <2>4. UsedIn(al2) = UsedIn(al) \ {n}
    BY <1>4, Zenon DEF Left
  <2>5. QED
    BY <1>9, <2>1, <2>2, <2>3, <2>4
<1>11. LiveIn(r2) = Pieces(r2) /\ LiveIn(r) = Pieces(r)
  BY <1>7 DEF LiveIn
<1>12. r2.used = TRUE /\ r2.rx = r.rx /\ r2.rw = r.rw /\ r2.pooled = TRUE
  BY <1>7
<1>13. LiveIn(r2) = LiveIn(r) \ {Piece(r.rx, r.allocations[n])}
  BY <1>10, <1>11, Zenon DEF al
<1>14. QED
  BY <1>2, <1>8, <1>12, <1>13, Zenon DEF Removed

\* The region of the last allocation holds nothing else.
LEMMA LastFacts ==
  ASSUME NEW r, NEW a, RegionOK(r), a \in LiveIn(r), IsLast(r)
  PROVE  LiveIn(r) = {a}
<1>1. r \in Region /\ r.used = TRUE /\ r.quarantined = FALSE
  BY LiveBounds DEF RegionOK
<1>2. r.pooled \in BOOLEAN
  BY <1>1, RegionFields
<1>3. CASE r.pooled = TRUE
  <2>1. PoolOK(r.pages, r.allocations, r.active_allocations) /\ r.active_allocations = 1
    BY <1>1, <1>3 DEF RegionOK, IsLast
  <2> DEFINE U == UsedIn(r.allocations)
  <2>2. IsFiniteSet(U) /\ Cardinality(U) = 1
    BY <2>1 DEF PoolOK
  <2>3. LiveIn(r) = {Piece(r.rx, r.allocations[j]) : j \in U}
    BY <1>1, <1>3 DEF LiveIn, Pieces
  <2> HIDE DEF U
  <2>4. PICK n : U = {n}
    BY <2>2, FS_Singleton
  <2>5. QED
    BY <2>3, <2>4
<1>4. CASE r.pooled = FALSE
  BY <1>1, <1>4 DEF LiveIn
<1>5. QED
  BY <1>2, <1>3, <1>4

-----------------------------------------------------------------------------
(* What a step books: act allocations, ker objects and pag pages more.     *)

StatsType == [active : Nat, kernel_regions_active : Nat, pooled_pages_active : Nat]

BooksStats(act, ker, pag) ==
  stats \in StatsType =>
    stats' = [active |-> stats.active + act,
              kernel_regions_active |-> stats.kernel_regions_active + ker,
              pooled_pages_active |-> stats.pooled_pages_active + pag]

\* The kernel opens or closes the object that is counted.
BooksKernel(ker) ==
  \/ ker = 0 /\ code_memory' = code_memory
  \/ ker = 1 /\ \E k : k \notin code_memory /\ code_memory' = code_memory \union {k}
  \/ ker = -1 /\ \E k \in code_memory : code_memory' = code_memory \ {k}

\* A small allocation follows the policy, and its pages are counted for a pool only.
Counted(r2, a, pag) ==
  \/ r2.pooled = TRUE /\ pag * PAGE_SIZE = a.size /\ small_pooling_enabled # FALSE
  \/ /\ r2.pooled = FALSE /\ pag = 0
     /\ a.size <= SMALL_JIT_MAX_ALLOCATION => small_pooling_enabled # TRUE

\* Entry r becomes r2 and takes a.
Takes(r, r2, a, pag) ==
  /\ live' = live \union {a} /\ a \notin LiveIn(r) /\ LiveIn(r2) = LiveIn(r) \union {a}
  /\ (r.pooled = TRUE /\ r2.pooled = TRUE) \/ LiveIn(r) = {}
  /\ Counted(r2, a, pag)

\* Entry r becomes r2 and gives a back.
Gives(r, r2, a, pag) ==
  /\ live' = live \ {a} /\ a \in LiveIn(r) /\ LiveIn(r2) = LiveIn(r) \ {a}
  /\ (r.pooled = TRUE /\ r2.pooled = TRUE) \/ LiveIn(r2) = {}
  /\ \/ r.pooled = TRUE /\ (0 - pag) * PAGE_SIZE = a.size
     \/ r.pooled = FALSE /\ pag = 0

BooksLive(r, r2, act, pag) ==
  \/ act = 0 /\ pag = 0 /\ live' = live /\ LiveIn(r) = {} /\ LiveIn(r2) = {}
  \/ act = 1 /\ \E a : Takes(r, r2, a, pag)
  \/ act = -1 /\ \E a : Gives(r, r2, a, pag)

Booked(i, r, act, ker, pag) ==
  /\ regions' = [regions EXCEPT ![i] = r] /\ small_pooling_enabled' = small_pooling_enabled
  /\ BooksStats(act, ker, pag) /\ BooksKernel(ker) /\ BooksLive(regions[i], r, act, pag)

BookStep ==
  \E i \in RegionIds, act, ker, pag \in Int : \E r : Booked(i, r, act, ker, pag)

\* Counters, updated field by field.
Counters(b, c, d) == [active |-> b, kernel_regions_active |-> c, pooled_pages_active |-> d]

SetObjects(s, c) == [s EXCEPT !.kernel_regions_active = c]
SetAllocations(s, b, d) == [s EXCEPT !.active = b, !.pooled_pages_active = d]
SetAll(s, b, c, d) ==
  [s EXCEPT !.active = b, !.kernel_regions_active = c, !.pooled_pages_active = d]

\* Booking a kernel object changes one counter.
LEMMA UpdateObjects ==
  ASSUME NEW b \in Int, NEW c \in Int, NEW d \in Int, NEW c2 \in Int, NEW s,
         s = Counters(b, c, d)
  PROVE  SetObjects(s, c2) = Counters(b, c2, d)
BY DEF Counters, SetObjects

\* Booking an allocation changes two counters.
LEMMA UpdateAllocations ==
  ASSUME NEW b \in Int, NEW c \in Int, NEW d \in Int, NEW b2 \in Int, NEW d2 \in Int, NEW s,
         s = Counters(b, c, d)
  PROVE  SetAllocations(s, b2, d2) = Counters(b2, c, d2)
<1> DEFINE T == [active : Int, kernel_regions_active : Int, pooled_pages_active : Int]
           y == [s EXCEPT !.active = b2, !.pooled_pages_active = d2]
<1>1. s \in T /\ s.active = b /\ s.kernel_regions_active = c /\ s.pooled_pages_active = d
  BY DEF Counters
<1>2. y \in T /\ y.active = b2 /\ y.kernel_regions_active = c /\ y.pooled_pages_active = d2
  BY <1>1
<1> HIDE DEF y
<1>3. y = Counters(b2, c, d2)
  BY <1>2 DEF Counters
<1>4. QED
  BY <1>3 DEF y, SetAllocations

\* Booking a dedicated region with its allocation changes all three.
LEMMA UpdateAll ==
  ASSUME NEW b \in Int, NEW c \in Int, NEW d \in Int, NEW b2 \in Int, NEW c2 \in Int,
         NEW d2 \in Int, NEW s, s = Counters(b, c, d)
  PROVE  SetAll(s, b2, c2, d2) = Counters(b2, c2, d2)
<1> DEFINE T == [active : Int, kernel_regions_active : Int, pooled_pages_active : Int]
           y == [s EXCEPT !.active = b2, !.kernel_regions_active = c2, !.pooled_pages_active = d2]
<1>1. s \in T
  BY DEF Counters
<1>2. y \in T /\ y.active = b2 /\ y.kernel_regions_active = c2 /\ y.pooled_pages_active = d2
  BY <1>1
<1> HIDE DEF y
<1>3. y = Counters(b2, c2, d2)
  BY <1>2 DEF Counters
<1>4. QED
  BY <1>3 DEF y, SetAll

\* What the operations do to the counters.
LEMMA StatsFacts ==
  ASSUME NEW pag \in Int, NEW ker \in Int
  PROVE  /\ stats' = OneMoreObject => BooksStats(0, 1, 0)
         /\ stats' = RecordAllocation(stats, pag) => BooksStats(1, 0, pag)
         /\ stats' = RecordAllocation(OneMoreObject, pag) => BooksStats(1, 1, pag)
         /\ \A rx, z : Released(rx, z, ker, pag) => BooksStats(-1, 0 - ker, 0 - pag)
<1>1. CASE stats \notin StatsType
  BY <1>1, Zenon DEF BooksStats
<1>2. CASE stats \in StatsType
  <2> DEFINE b == stats.active
             c == stats.kernel_regions_active
             d == stats.pooled_pages_active
             b1 == b + 1
             c1 == c + 1
             d1 == d + pag
             b0 == b - 1
             c0 == c - ker
             d0 == d - pag
  <2>1. stats = Counters(b, c, d) /\ b \in Int /\ c \in Int /\ d \in Int
    BY <1>2 DEF StatsType, Counters
  <2>2. \A act, k, p : BooksStats(act, k, p) <=> stats' = Counters(b + act, c + k, d + p)
    BY <1>2, Zenon DEF BooksStats, Counters
  <2>3. /\ OneMoreObject = SetObjects(stats, c1)
        /\ \A s : RecordAllocation(s, pag) =
                   SetAllocations(s, s.active + 1, s.pooled_pages_active + pag)
    BY Zenon DEF OneMoreObject, RecordAllocation, SetObjects, SetAllocations
  <2>4. ASSUME NEW rx, NEW z, Released(rx, z, ker, pag)
        PROVE  stats' = SetAll(stats, b0, c0, d0)
    BY <2>4, Zenon DEF Released, SetAll
  <2>5. RecordAllocation(stats, pag) = SetAllocations(stats, b1, d1)
    BY <2>3, Zenon
  <2> HIDE DEF b, c, d
  <2>6. b1 \in Int /\ c1 \in Int /\ d1 \in Int /\ b0 \in Int /\ c0 \in Int /\ d0 \in Int
        /\ b + 0 = b /\ c + 0 = c /\ d + 0 = d /\ b + -1 = b0 /\ c + (0 - ker) = c0
        /\ d + (0 - pag) = d0
    BY <2>1
  <2>8. b + 1 = b1 /\ c + 1 = c1 /\ d + pag = d1
    OBVIOUS
  <2> HIDE DEF b1, c1, d1, b0, c0, d0
  <2>9. OneMoreObject = Counters(b, c1, d)
    BY <2>1, <2>3, <2>6, UpdateObjects
  <2>10. RecordAllocation(stats, pag) = Counters(b1, c, d1)
    BY <2>1, <2>5, <2>6, UpdateAllocations
  <2>11. RecordAllocation(OneMoreObject, pag) = Counters(b1, c1, d1)
    <3> DEFINE s == OneMoreObject
    <3>1. s.active = b /\ s.pooled_pages_active = d
      BY <2>9 DEF Counters
    <3>2. RecordAllocation(s, pag) = SetAllocations(s, b1, d1)
      BY <2>3, <2>8, <3>1, Zenon
    <3>3. s = Counters(b, c1, d)
      BY <2>9
    <3> HIDE DEF s
    <3>4. SetAllocations(s, b1, d1) = Counters(b1, c1, d1)
      BY <2>1, <2>6, <3>3, UpdateAllocations
    <3>5. QED
      BY <3>2, <3>4, Zenon DEF s
  <2>12. \A rx, z : Released(rx, z, ker, pag) => stats' = Counters(b0, c0, d0)
    <3>1. SetAll(stats, b0, c0, d0) = Counters(b0, c0, d0)
      BY <2>1, <2>6, UpdateAll
    <3>2. QED
      BY <2>4, <3>1, Zenon
  <2>13. QED
    BY <2>2, <2>6, <2>8, <2>9, <2>10, <2>11, <2>12, Zenon
<1>3. QED
  BY <1>1, <1>2

\* A size that callers hold is its number of pages.
LEMMA WholePages ==
  ASSUME NEW z, Whole(z)
  PROVE  z \div PAGE_SIZE \in Nat /\ (z \div PAGE_SIZE) * PAGE_SIZE = z
<1>1. PICK s \in Nat \ {0} : z = s * PAGE_SIZE
  BY DEF Whole
<1> DEFINE P == PAGE_SIZE
<1>2. P \in Nat \ {0}
  BY PageAssumption
<1> HIDE DEF P
<1>3. z \in Int /\ z = s * P /\ s \in Int
  BY <1>1, WholeFacts DEF P
<1>4. s * P <= z /\ z < s * P + P
  <2> DEFINE u == s * P
  <2>1. u = z
    BY <1>3
  <2> HIDE DEF u
  <2>2. u <= z /\ z < u + P
    BY <1>2, <1>3, <2>1
  <2>3. QED
    BY <2>2 DEF u
<1>5. z \div P = s
  BY <1>2, <1>3, <1>4, Divide
<1>6. QED
  BY <1>1, <1>5, Zenon DEF P

-----------------------------------------------------------------------------
(* Every step preserves the invariant and books what it does. *)

\* A region is opened in an unused entry, over a new object.
LEMMA OccupyStep ==
  ASSUME JitInv, NEW r, NEW k, Occupy(r, k), RegionOK(r), r.used = TRUE,
         r.rx = RX(k), r.rw = RW(k), live' = live \union LiveIn(r)
  PROVE  JitInv'
<1> DEFINE i == Slot
<1>1. /\ CanCreate /\ k \in Objects /\ k \notin code_memory
      /\ regions' = [regions EXCEPT ![i] = r] /\ code_memory' = code_memory \union {k}
  BY DEF Occupy
<1>2. i \in RegionIds /\ ~regions[i].used
  <2> DEFINE T == {j \in RegionIds : ~regions[j].used}
  <2>1. T \in SUBSET Nat /\ T # {}
    BY <1>1, LimitAssumption DEF CanCreate, RegionIds
  <2> HIDE DEF T
  <2>2. Min(T) \in T
    BY <2>1, Minimum
  <2>3. QED
    BY <2>2 DEF T, Slot
<1> HIDE DEF i
<1>3. /\ regions \in [RegionIds -> Region] /\ code_memory \subseteq Objects
      /\ \A j \in RegionIds : RegionOK(regions[j])
      /\ \A j \in RegionIds : Owned(j)
      /\ \A l \in code_memory : \E j \in RegionIds : regions[j].used = TRUE /\ regions[j].rx = RX(l)
      /\ \A a, b \in RegionIds :
           regions[a].used = TRUE /\ regions[b].used = TRUE /\ regions[a].rx = regions[b].rx => a = b
  BY DEF JitInv
<1>4. r \in Region
  BY DEF RegionOK
<1>5. regions[i].used = FALSE
  BY <1>2, <1>3, RegionFields
<1>6. LiveIn(regions[i]) = {}
  BY <1>5 DEF LiveIn
<1>7. /\ regions' \in [RegionIds -> Region] /\ regions'[i] = r
      /\ \A j \in RegionIds : j # i => regions'[j] = regions[j]
  BY <1>1, <1>2, <1>3, <1>4
<1>8. code_memory' \subseteq Objects
  BY <1>1, <1>3
<1>9. \A j \in RegionIds : RegionOK(regions'[j])
  BY <1>3, <1>7
<1>10. ASSUME NEW j \in RegionIds, regions'[j].used = TRUE
       PROVE  \E l \in code_memory' : regions'[j].rx = RX(l) /\ regions'[j].rw = RW(l)
  <2>1. CASE j = i
    BY <1>1, <1>7, <2>1
  <2>2. CASE j # i
    <3>1. regions'[j] = regions[j]
      BY <1>7, <2>2
    <3>2. PICK l \in code_memory : regions[j].rx = RX(l) /\ regions[j].rw = RW(l)
      BY <1>3, <1>10, <3>1 DEF Owned
    <3>3. QED
      BY <1>1, <3>1, <3>2
  <2>3. QED
    BY <2>1, <2>2
<1>11. \A l \in code_memory' : \E j \in RegionIds : regions'[j].used = TRUE /\ regions'[j].rx = RX(l)
  <2> SUFFICES ASSUME NEW l \in code_memory'
               PROVE  \E j \in RegionIds : regions'[j].used = TRUE /\ regions'[j].rx = RX(l)
    OBVIOUS
  <2>1. CASE l = k
    BY <1>2, <1>7, <2>1
  <2>2. CASE l \in code_memory
    <3>1. PICK j \in RegionIds : regions[j].used = TRUE /\ regions[j].rx = RX(l)
      BY <1>3, <2>2
    <3>2. j # i
      BY <1>5, <3>1
    <3>3. QED
      BY <1>7, <3>1, <3>2
  <2>3. QED
    BY <1>1, <2>1, <2>2
<1>12. ASSUME NEW j \in RegionIds, regions[j].used = TRUE
       PROVE  regions[j].rx # RX(k)
  <2>1. PICK l \in code_memory : regions[j].rx = RX(l)
    BY <1>3, <1>12 DEF Owned
  <2>2. l \in Objects /\ l # k
    BY <1>1, <1>3
  <2>3. QED
    BY <1>1, <2>1, <2>2, RXDistinct, Zenon
<1>13. ASSUME NEW a \in RegionIds, NEW b \in RegionIds, regions'[a].used = TRUE,
              regions'[b].used = TRUE, regions'[a].rx = regions'[b].rx
       PROVE  a = b
  <2>1. CASE a # i /\ b # i
    BY <1>3, <1>7, <1>13, <2>1
  <2>2. CASE a = i /\ b # i
    BY <1>7, <1>12, <1>13, <2>2
  <2>3. CASE a # i /\ b = i
    BY <1>7, <1>12, <1>13, <2>3
  <2>4. QED
    BY <2>1, <2>2, <2>3
<1>14. live' = UNION {LiveIn(regions'[j]) : j \in RegionIds}
  <2>1. ASSUME NEW a PROVE a \in live' <=> \E j \in RegionIds : a \in LiveIn(regions'[j])
    <3>1. a \in live <=> \E j \in RegionIds : a \in LiveIn(regions[j])
      BY LiveIs
    <3>2. \A j \in RegionIds : j # i => LiveIn(regions'[j]) = LiveIn(regions[j])
      BY <1>7
    <3>3. LiveIn(regions'[i]) = LiveIn(r)
      BY <1>7
    <3>4. QED
      BY <1>2, <1>6, <3>1, <3>2, <3>3, Zenon
  <2>2. QED
    BY <2>1, Zenon
<1>15. QED
  BY <1>7, <1>8, <1>9, <1>10, <1>11, <1>13, <1>14, Zenon DEF JitInv, Owned

\* An open region changes its allocations in place.
LEMMA ChangeStep ==
  ASSUME JitInv, NEW i \in RegionIds, NEW r, regions' = [regions EXCEPT ![i] = r],
         UNCHANGED code_memory, RegionOK(r), regions[i].used = TRUE, r.used = TRUE,
         r.rx = regions[i].rx, r.rw = regions[i].rw,
         \A a : a \in live' <=> a \in LiveIn(r)
                                \/ \E j \in RegionIds \ {i} : a \in LiveIn(regions[j])
  PROVE  JitInv'
<1>1. /\ regions \in [RegionIds -> Region] /\ code_memory \subseteq Objects
      /\ \A j \in RegionIds : RegionOK(regions[j])
      /\ \A j \in RegionIds : Owned(j)
      /\ \A l \in code_memory : \E j \in RegionIds : regions[j].used = TRUE /\ regions[j].rx = RX(l)
      /\ \A a, b \in RegionIds :
           regions[a].used = TRUE /\ regions[b].used = TRUE /\ regions[a].rx = regions[b].rx => a = b
  BY DEF JitInv
<1>2. r \in Region
  BY DEF RegionOK
<1>3. /\ regions' \in [RegionIds -> Region] /\ regions'[i] = r
      /\ \A j \in RegionIds : j # i => regions'[j] = regions[j]
  BY <1>1, <1>2
<1>4. \A j \in RegionIds : /\ regions'[j].used = regions[j].used
                           /\ regions'[j].rx = regions[j].rx /\ regions'[j].rw = regions[j].rw
  BY <1>3
<1>5. code_memory' = code_memory
  OBVIOUS
<1>6. \A j \in RegionIds : RegionOK(regions'[j])
  BY <1>1, <1>3
<1>7. \A j \in RegionIds : regions'[j].used = TRUE =>
        \E l \in code_memory' : regions'[j].rx = RX(l) /\ regions'[j].rw = RW(l)
  BY <1>1, <1>4, <1>5 DEF Owned
<1>8. \A l \in code_memory' : \E j \in RegionIds : regions'[j].used = TRUE /\ regions'[j].rx = RX(l)
  BY <1>1, <1>4, <1>5
<1>9. \A a, b \in RegionIds :
        regions'[a].used = TRUE /\ regions'[b].used = TRUE /\ regions'[a].rx = regions'[b].rx => a = b
  BY <1>1, <1>4
<1>10. live' = UNION {LiveIn(regions'[j]) : j \in RegionIds}
  <2>1. ASSUME NEW a PROVE a \in live' <=> \E j \in RegionIds : a \in LiveIn(regions'[j])
    BY <1>3, Zenon
  <2>2. QED
    BY <2>1, Zenon
<1>11. code_memory' \subseteq Objects
  BY <1>1, <1>5
<1>12. QED
  BY <1>3, <1>6, <1>7, <1>8, <1>9, <1>10, <1>11, Zenon DEF JitInv, Owned

\* A region is closed with its allocations.
LEMMA CloseStep ==
  ASSUME JitInv, NEW i \in RegionIds, CloseRegion(i), regions[i].used = TRUE,
         \A a : a \in live' <=> \E j \in RegionIds \ {i} : a \in LiveIn(regions[j])
  PROVE  JitInv'
<1>0. /\ regions' = [regions EXCEPT ![i] = NoRegion]
      /\ code_memory' = {k \in code_memory : RX(k) # regions[i].rx}
  BY DEF CloseRegion
<1>1. /\ regions \in [RegionIds -> Region] /\ code_memory \subseteq Objects
      /\ \A j \in RegionIds : RegionOK(regions[j])
      /\ \A j \in RegionIds : Owned(j)
      /\ \A l \in code_memory : \E j \in RegionIds : regions[j].used = TRUE /\ regions[j].rx = RX(l)
      /\ \A a, b \in RegionIds :
           regions[a].used = TRUE /\ regions[b].used = TRUE /\ regions[a].rx = regions[b].rx => a = b
  BY DEF JitInv
<1>2. NoRegion \in Region /\ RegionOK(NoRegion) /\ NoRegion.used = FALSE /\ LiveIn(NoRegion) = {}
  BY NoRegionFacts DEF RegionOK
<1>3. /\ regions' \in [RegionIds -> Region] /\ regions'[i] = NoRegion
      /\ \A j \in RegionIds : j # i => regions'[j] = regions[j]
  BY <1>0, <1>1, <1>2
<1>4. \A j \in RegionIds : RegionOK(regions'[j])
  BY <1>1, <1>2, <1>3
<1>5. ASSUME NEW j \in RegionIds, regions'[j].used = TRUE
      PROVE  j # i /\ regions'[j] = regions[j] /\ regions[j].used = TRUE
  <2>1. j # i
    BY <1>2, <1>3, <1>5
  <2>2. QED
    BY <1>3, <1>5, <2>1
<1>6. ASSUME NEW j \in RegionIds, regions'[j].used = TRUE
      PROVE  \E l \in code_memory' : regions'[j].rx = RX(l) /\ regions'[j].rw = RW(l)
  <2>1. j # i /\ regions'[j] = regions[j] /\ regions[j].used = TRUE
    BY <1>5, <1>6
  <2>2. PICK l \in code_memory : regions[j].rx = RX(l) /\ regions[j].rw = RW(l)
    BY <1>1, <2>1 DEF Owned
  <2>3. RX(l) # regions[i].rx
    BY <1>1, <2>1, <2>2, Zenon
  <2>4. l \in code_memory'
    BY <1>0, <2>3
  <2>5. QED
    BY <2>1, <2>2, <2>4
<1>7. ASSUME NEW l \in code_memory'
      PROVE  \E j \in RegionIds : regions'[j].used = TRUE /\ regions'[j].rx = RX(l)
  <2>1. l \in code_memory /\ RX(l) # regions[i].rx
    BY <1>0, <1>7
  <2>2. PICK j \in RegionIds : regions[j].used = TRUE /\ regions[j].rx = RX(l)
    BY <1>1, <2>1
  <2>3. j # i
    BY <2>1, <2>2
  <2>4. QED
    BY <1>3, <2>2, <2>3
<1>8. \A a, b \in RegionIds :
        regions'[a].used = TRUE /\ regions'[b].used = TRUE /\ regions'[a].rx = regions'[b].rx => a = b
  BY <1>1, <1>5, Zenon
<1>9. live' = UNION {LiveIn(regions'[j]) : j \in RegionIds}
  <2>1. ASSUME NEW a PROVE a \in live' <=> \E j \in RegionIds : a \in LiveIn(regions'[j])
    BY <1>2, <1>3, Zenon
  <2>2. QED
    BY <2>1, Zenon
<1>10. code_memory' \subseteq Objects
  BY <1>0, <1>1
<1>11. QED
  BY <1>3, <1>4, <1>6, <1>7, <1>8, <1>9, <1>10, Zenon DEF JitInv, Owned

\* The entry and the object that OpenRegion takes.
LEMMA OccupyFacts ==
  ASSUME JitInv, NEW r, NEW k, Occupy(r, k)
  PROVE  /\ Slot \in RegionIds /\ LiveIn(regions[Slot]) = {}
         /\ regions' = [regions EXCEPT ![Slot] = r] /\ BooksKernel(1)
<1> DEFINE T == {j \in RegionIds : ~regions[j].used}
<1>1. T \in SUBSET Nat /\ T # {}
  BY LimitAssumption DEF Occupy, CanCreate, RegionIds
<1> HIDE DEF T
<1>2. Min(T) \in T
  BY <1>1, Minimum
<1>3. Slot \in RegionIds /\ ~regions[Slot].used
  BY <1>2 DEF T, Slot
<1>4. regions[Slot].used = FALSE
  BY <1>3, RegionFields DEF JitInv
<1>5. LiveIn(regions[Slot]) = {}
  BY <1>4 DEF LiveIn
<1>6. regions' = [regions EXCEPT ![Slot] = r] /\ BooksKernel(1)
  BY Zenon DEF Occupy, BooksKernel
<1>7. QED
  BY <1>3, <1>5, <1>6

\* A region that is opened for no allocation is booked as an object.
LEMMA OpenBooks ==
  ASSUME JitInv, NEW r, NEW k, Occupy(r, k), LiveIn(r) = {}, live' = live,
         stats' = OneMoreObject, small_pooling_enabled' = small_pooling_enabled
  PROVE  BookStep
<1> DEFINE i == Slot
<1>1. /\ i \in RegionIds /\ LiveIn(regions[i]) = {}
      /\ regions' = [regions EXCEPT ![i] = r] /\ BooksKernel(1)
  BY OccupyFacts
<1> HIDE DEF i
<1>2. BooksStats(0, 1, 0)
  BY StatsFacts
<1>3. BooksLive(regions[i], r, 0, 0)
  BY <1>1, Zenon DEF BooksLive
<1>4. Booked(i, r, 0, 1, 0)
  BY <1>1, <1>2, <1>3, Zenon DEF Booked
<1>5. 0 \in Int /\ 1 \in Int
  OBVIOUS
<1>6. QED
  BY <1>1, <1>4, <1>5, Zenon DEF BookStep

\* A region that is opened for an allocation is booked as both.
LEMMA TakeBooks ==
  ASSUME JitInv, NEW r, NEW k, Occupy(r, k), NEW a, LiveIn(r) = {a}, live' = live \union {a},
         NEW pag \in Int, stats' = RecordAllocation(OneMoreObject, pag), Counted(r, a, pag),
         small_pooling_enabled' = small_pooling_enabled
  PROVE  BookStep
<1> DEFINE i == Slot
<1>1. /\ i \in RegionIds /\ LiveIn(regions[i]) = {}
      /\ regions' = [regions EXCEPT ![i] = r] /\ BooksKernel(1)
  BY OccupyFacts
<1> HIDE DEF i
<1>2. BooksStats(1, 1, pag)
  BY StatsFacts
<1>3. LiveIn(r) = LiveIn(regions[i]) \union {a}
  BY <1>1
<1>4. Takes(regions[i], r, a, pag)
  BY <1>1, <1>3, Zenon DEF Takes
<1>5. BooksLive(regions[i], r, 1, pag)
  BY <1>4, Zenon DEF BooksLive
<1>6. Booked(i, r, 1, 1, pag)
  BY <1>1, <1>2, <1>5, Zenon DEF Booked
<1>7. 1 \in Int
  OBVIOUS
<1>8. QED
  BY <1>1, <1>6, <1>7, Zenon DEF BookStep

\* The policy and the counters do not matter to the invariant.
LEMMA SameStep ==
  ASSUME JitInv, UNCHANGED <<regions, code_memory, live>>
  PROVE  JitInv'
BY DEF JitInv, Owned

\* OpenRegion leaves a region in quarantine.
LEMMA QuarantineStep ==
  ASSUME JitInv, NEW size \in Nat, OpenRegionQuarantines(size)
  PROVE  JitInv' /\ BookStep
<1>1. PICK k \in Objects : Occupy([Opened(k, size, FALSE) EXCEPT !.quarantined = TRUE], k)
  BY DEF OpenRegionQuarantines
<1> DEFINE r == [Opened(k, size, FALSE) EXCEPT !.quarantined = TRUE]
<1>2. RegionOK(r) /\ r.used = TRUE /\ r.rx = RX(k) /\ r.rw = RW(k) /\ LiveIn(r) = {}
  BY QuarantineFacts
<1>3. Occupy(r, k)
  BY <1>1
<1> HIDE DEF r
<1>4. live' = live /\ stats' = OneMoreObject /\ small_pooling_enabled' = small_pooling_enabled
  BY Zenon DEF OpenRegionQuarantines
<1>5. live' = live \union LiveIn(r)
  BY <1>2, <1>4
<1>6. BookStep
  BY <1>2, <1>3, <1>4, OpenBooks
<1>7. QED
  BY <1>2, <1>3, <1>5, <1>6, OccupyStep

\* OpenRegion leaves a pool without pages.
LEMMA StrandStep ==
  ASSUME JitInv, OpenRegionStrands
  PROVE  JitInv' /\ BookStep
<1>1. PICK k \in Objects : Occupy(Opened(k, SMALL_JIT_POOL_SIZE, TRUE), k)
  BY DEF OpenRegionStrands
<1> DEFINE r == Opened(k, SMALL_JIT_POOL_SIZE, TRUE)
<1>2. RegionOK(r) /\ r.used = TRUE /\ r.rx = RX(k) /\ r.rw = RW(k) /\ LiveIn(r) = {}
  BY StrandedFacts
<1>3. Occupy(r, k)
  BY <1>1
<1> HIDE DEF r
<1>4. live' = live /\ stats' = OneMoreObject /\ small_pooling_enabled' = small_pooling_enabled
  BY Zenon DEF OpenRegionStrands
<1>5. live' = live \union LiveIn(r)
  BY <1>2, <1>4
<1>6. BookStep
  BY <1>2, <1>3, <1>4, OpenBooks
<1>7. QED
  BY <1>2, <1>3, <1>5, <1>6, OccupyStep

\* AllocateDedicated, in all its outcomes.
LEMMA DedicatedStep ==
  ASSUME JitInv, NEW size \in Nat, Whole(size), size <= Window, AllocateDedicated(size),
         size <= SMALL_JIT_MAX_ALLOCATION => small_pooling_enabled # TRUE
  PROVE  JitInv' /\ (BookStep \/ UNCHANGED vars)
<1>1. CASE OpenRegionThrows
  BY <1>1, SameStep DEF OpenRegionThrows, vars
<1>2. CASE OpenRegionQuarantines(size)
  BY <1>2, QuarantineStep
<1>3. CASE /\ \E k \in Objects :
                /\ Occupy(Opened(k, size, FALSE), k)
                /\ live' = live \union {[address |-> RX(k), size |-> size]}
           /\ stats' = RecordAllocation(OneMoreObject, 0)
           /\ UNCHANGED small_pooling_enabled
  <2>1. PICK k \in Objects :
          /\ Occupy(Opened(k, size, FALSE), k)
          /\ live' = live \union {[address |-> RX(k), size |-> size]}
    BY <1>3
  <2> DEFINE r == Opened(k, size, FALSE)
             a == [address |-> RX(k), size |-> size]
  <2>2. /\ RegionOK(r) /\ r.used = TRUE /\ r.rx = RX(k) /\ r.rw = RW(k)
        /\ LiveIn(r) = {a} /\ r.pooled = FALSE
    BY DedicatedFacts
  <2>3. Occupy(r, k) /\ live' = live \union {a}
    BY <2>1
  <2>4. a.size = size
    OBVIOUS
  <2> HIDE DEF r, a
  <2>5. live' = live \union LiveIn(r)
    BY <2>2, <2>3, Zenon
  <2>6. Counted(r, a, 0)
    BY <2>2, <2>4, Zenon DEF Counted
  <2>7. 0 \in Int /\ small_pooling_enabled' = small_pooling_enabled
    BY <1>3
  <2>8. BookStep
    BY <1>3, <2>2, <2>3, <2>6, <2>7, TakeBooks
  <2>9. QED
    BY <2>2, <2>3, <2>5, <2>8, OccupyStep
<1>4. QED
  BY <1>1, <1>2, <1>3 DEF AllocateDedicated

\* An allocation that a pool may serve is a number of pages that fits the pool.
Pooled(size, s) ==
  /\ s \in Nat \ {0} /\ size = s * PAGE_SIZE /\ size \div PAGE_SIZE = s
  /\ s <= PoolPages /\ Whole(size)

\* A size up to SMALL_JIT_MAX_ALLOCATION is such a number of pages.
LEMMA PooledSize ==
  ASSUME NEW size \in Nat, Whole(size), size <= SMALL_JIT_MAX_ALLOCATION
  PROVE  \E s : Pooled(size, s)
<1>1. PICK s \in Nat \ {0} : size = s * PAGE_SIZE
  BY DEF Whole
<1>2. PAGE_SIZE \in Nat \ {0} /\ PoolPages \in Nat /\ SMALL_JIT_POOL_SIZE = PoolPages * PAGE_SIZE
  BY PoolSize DEF PageFacts
<1>3. size <= SMALL_JIT_POOL_SIZE
  BY LimitAssumption, InputAssumption
<1> DEFINE P == PAGE_SIZE
           u == s * P
<1>4. u \in Nat /\ u = size
  BY <1>1
<1>5. s <= PoolPages
  <2> SUFFICES ASSUME PoolPages < s PROVE FALSE
    BY <1>1, <1>2
  <2>1. PoolPages * P + P <= s * P
    BY <1>1, <1>2, Times
  <2> DEFINE v == PoolPages * P
  <2>2. v = SMALL_JIT_POOL_SIZE /\ v + P <= u /\ P \in Nat \ {0} /\ v \in Nat
    BY <1>2, <2>1, PoolSize DEF PageFacts
  <2> HIDE DEF u, v, P
  <2>3. QED
    BY <1>3, <1>4, <2>2
<1>6. size \div P = s
  <2>1. s * P <= size /\ size < s * P + P
    <3> HIDE DEF u
    <3>1. u <= size /\ size < u + P
      BY <1>2, <1>4
    <3>2. QED
      BY <3>1 DEF u
  <2> HIDE DEF P
  <2>2. P \in Nat \ {0} /\ s \in Int /\ size \in Int
    BY <1>1, <1>2 DEF P
  <2>3. QED
    BY <2>1, <2>2, Divide
<1>7. Pooled(size, s)
  BY <1>1, <1>5, <1>6, Zenon DEF Pooled
<1>8. QED
  BY <1>7

\* AllocateInPool finds free pages of an open pool.
LEMMA InPoolStep ==
  ASSUME JitInv, NEW size, NEW s, Pooled(size, s), AllocateInPool(size),
         small_pooling_enabled # FALSE
  PROVE  JitInv' /\ BookStep
<1> DEFINE i == Min(Roomy(size))
           r == regions[i]
           runs == FreeRuns(r, s)
           a == Min(runs)
           r2 == AddPoolAllocation(r, a * PAGE_SIZE, s * PAGE_SIZE)
<1>1. size = s * PAGE_SIZE /\ size \div PAGE_SIZE = s /\ s \in Nat \ {0} /\ Whole(s * PAGE_SIZE)
      /\ s <= PoolPages
  BY Zenon DEF Pooled
<1>2. /\ Roomy(size) # {} /\ code_memory' = code_memory
      /\ regions' = [regions EXCEPT ![i] = r2]
      /\ live' = live \union {[address |-> r.rx + a * PAGE_SIZE, size |-> s * PAGE_SIZE]}
  BY <1>1, Zenon DEF AllocateInPool, FindFreePages
<1>3. i \in Roomy(size)
  <2> DEFINE T == Roomy(size)
  <2>1. T \in SUBSET Nat /\ T # {}
    BY <1>2, LimitAssumption DEF Roomy, Pools, RegionIds
  <2> HIDE DEF T
  <2>2. Min(T) \in T
    BY <2>1, Minimum
  <2>3. QED
    BY <2>2 DEF T
<1>4. i \in RegionIds /\ r.used /\ r.pooled /\ ~r.quarantined /\ runs # {}
  BY <1>1, <1>3, Zenon DEF Roomy, Pools
<1> HIDE DEF i
<1>5. RegionOK(r) /\ r \in Region
  BY <1>4 DEF JitInv
<1>6. r.used = TRUE /\ r.quarantined = FALSE /\ r.pooled = TRUE
  BY <1>4, <1>5, RegionFields
<1>7. r.pages \in [{} -> Nat] \union [0 .. PoolPages - 1 -> Nat]
  BY <1>5, RegionFields
<1>8. runs \subseteq DOMAIN r.pages
      /\ \A page \in runs : \A q \in page .. page + s - 1 : q \in DOMAIN r.pages /\ r.pages[q] = 0
  BY Zenon DEF FreeRuns
<1>9. Table(r.pages) /\ DOMAIN r.pages = 0 .. PoolPages - 1
  <2>1. DOMAIN r.pages # {}
    BY <1>4, <1>8
  <2>2. r.pages \notin [{} -> Nat]
    BY <2>1
  <2>3. QED
    BY <1>7, <2>2 DEF Table
<1>10. PoolPages \in Nat
  BY PoolSize DEF PageFacts
<1>11. a \in runs
  <2>1. runs \in SUBSET Nat
    BY <1>8, <1>9, <1>10
  <2> HIDE DEF runs
  <2>2. QED
    BY <1>4, <2>1, Minimum
<1>12. \A q \in a .. a + s - 1 : q \in 0 .. PoolPages - 1 /\ r.pages[q] = 0
  BY <1>8, <1>9, <1>11
<1>13. a \in Nat
  BY <1>8, <1>9, <1>10, <1>11
<1> HIDE DEF a, runs
<1>14. a + s <= PoolPages
  <2>1. a + s - 1 \in a .. a + s - 1
    BY <1>1, <1>13
  <2>2. a + s - 1 \in 0 .. PoolPages - 1
    BY <1>12, <2>1
  <2>3. QED
    BY <1>1, <1>10, <1>13, <2>2
<1>15. Added(r2, r, a * PAGE_SIZE, s * PAGE_SIZE)
  <2>1. \A q \in a .. a + s - 1 : r.pages[q] = 0
    BY <1>12, Zenon
  <2> HIDE DEF r
  <2>2. QED
    BY <1>1, <1>5, <1>6, <1>9, <1>13, <1>14, <2>1, AddFacts, Zenon
<1> HIDE DEF r2
<1> DEFINE b == [address |-> r.rx + a * PAGE_SIZE, size |-> s * PAGE_SIZE]
<1>16. /\ RegionOK(r2) /\ r2.used = TRUE /\ r2.rx = r.rx /\ r2.rw = r.rw
       /\ LiveIn(r2) = LiveIn(r) \union {b} /\ b \notin LiveIn(r)
       /\ r.pooled = TRUE /\ r2.pooled = TRUE
  BY <1>15, Zenon DEF Added
<1>17. live' = live \union {b} /\ b.size = s * PAGE_SIZE
  BY <1>2
<1>17a. stats' = RecordAllocation(stats, s) /\ small_pooling_enabled' = small_pooling_enabled
  BY <1>1, Zenon DEF AllocateInPool
<1> HIDE DEF b
<1>18. ASSUME NEW c
       PROVE  c \in live' <=> c \in LiveIn(r2) \/ \E j \in RegionIds \ {i} : c \in LiveIn(regions[j])
  <2>1. c \in live <=> \E j \in RegionIds : c \in LiveIn(regions[j])
    BY LiveIs
  <2>2. QED
    BY <1>4, <1>16, <1>17, <2>1, Zenon
<1>19. QED
  <2>1. UNCHANGED code_memory
    BY <1>2
  <2>2. regions' = [regions EXCEPT ![i] = r2]
    BY <1>2, Zenon
  <2>3. r2.rx = regions[i].rx /\ r2.rw = regions[i].rw /\ regions[i].used = TRUE
    BY <1>6, <1>16
  <2>4. JitInv'
    BY <1>4, <1>16, <1>18, <2>1, <2>2, <2>3, ChangeStep
  <2>5. 0 \in Int /\ 1 \in Int /\ s \in Int
    BY <1>1
  <2>6. BooksStats(1, 0, s) /\ BooksKernel(0)
    BY <1>2, <1>17a, <2>5, StatsFacts DEF BooksKernel
  <2>7. Counted(r2, b, s)
    BY <1>16, <1>17, Zenon DEF Counted
  <2>8. Takes(regions[i], r2, b, s)
    BY <1>16, <1>17, <2>7, Zenon DEF Takes
  <2>9. BooksLive(regions[i], r2, 1, s)
    BY <2>8, Zenon DEF BooksLive
  <2>10. Booked(i, r2, 1, 0, s)
    BY <1>17a, <2>2, <2>6, <2>9, Zenon DEF Booked
  <2>11. BookStep
    BY <1>4, <2>5, <2>10, Zenon DEF BookStep
  <2>12. QED
    BY <2>4, <2>11

\* AllocateInNewPool, in all its outcomes.
LEMMA NewPoolStep ==
  ASSUME JitInv, NEW size, NEW s, Pooled(size, s), AllocateInNewPool(size),
         small_pooling_enabled # FALSE
  PROVE  JitInv' /\ (BookStep \/ UNCHANGED vars)
<1>1. size = s * PAGE_SIZE /\ s \in Nat \ {0} /\ Whole(s * PAGE_SIZE) /\ s <= PoolPages
      /\ size \div PAGE_SIZE = s
  BY Zenon DEF Pooled
<1>2. SMALL_JIT_POOL_SIZE \in Nat /\ PoolPages \in Nat /\ PAGE_SIZE \in Nat
  BY PoolSize DEF PageFacts
<1>3. CASE OpenRegionThrows
  BY <1>3, SameStep DEF OpenRegionThrows, vars
<1>4. CASE OpenRegionQuarantines(SMALL_JIT_POOL_SIZE)
  BY <1>2, <1>4, QuarantineStep
<1>5. CASE OpenRegionStrands
  BY <1>5, StrandStep
<1>6. CASE /\ \E k \in Objects :
                /\ Occupy(AddPoolAllocation(EmptyPool(k), 0, size), k)
                /\ live' = live \union {[address |-> RX(k), size |-> size]}
           /\ stats' = RecordAllocation(OneMoreObject, size \div PAGE_SIZE)
           /\ UNCHANGED small_pooling_enabled
  <2>1. PICK k \in Objects :
          /\ Occupy(AddPoolAllocation(EmptyPool(k), 0, size), k)
          /\ live' = live \union {[address |-> RX(k), size |-> size]}
    BY <1>6
  <2> DEFINE r == EmptyPool(k)
             r2 == AddPoolAllocation(r, 0 * PAGE_SIZE, s * PAGE_SIZE)
  <2>2. /\ RegionOK(r) /\ r.used = TRUE /\ r.quarantined = FALSE /\ r.pooled = TRUE
        /\ r.rx = RX(k) /\ r.rw = RW(k) /\ LiveIn(r) = {}
        /\ r.pages = [page \in 0 .. PoolPages - 1 |-> 0]
    BY EmptyPoolFacts
  <2> HIDE DEF r
  <2>3. Table(r.pages)
    BY <2>2 DEF Table
  <2>4. 0 + s <= PoolPages /\ 0 \in Nat
    BY <1>1, <1>2
  <2>5. \A q \in 0 .. 0 + s - 1 : r.pages[q] = 0
    <3>1. \A q \in 0 .. 0 + s - 1 : q \in 0 .. PoolPages - 1
      BY <1>1, <1>2
    <3>2. QED
      BY <2>2, <3>1
  <2>6. Added(r2, r, 0 * PAGE_SIZE, s * PAGE_SIZE)
    BY <1>1, <2>2, <2>3, <2>4, <2>5, AddFacts, Zenon
  <2>7. 0 * PAGE_SIZE = 0
    BY <1>2
  <2>8. AddPoolAllocation(EmptyPool(k), 0, size) = r2
    BY <1>1, <2>7, Zenon DEF r
  <2>9. Occupy(r2, k)
    BY <2>1, <2>8, Zenon
  <2> HIDE DEF r2
  <2>10. r.rx + 0 * PAGE_SIZE = RX(k)
    <3>1. RX(k) \in Nat
      BY Windows
    <3> DEFINE z == RX(k)
    <3> HIDE DEF z
    <3>2. z + 0 = z
      BY <3>1 DEF z
    <3>3. QED
      BY <2>2, <2>7, <3>2, Zenon DEF z
  <2>11. /\ RegionOK(r2) /\ r2.used = TRUE /\ r2.rx = r.rx /\ r2.rw = r.rw
         /\ LiveIn(r2) = LiveIn(r)
              \union {[address |-> r.rx + 0 * PAGE_SIZE, size |-> s * PAGE_SIZE]}
         /\ r2.pooled = TRUE
    BY <2>6, Zenon DEF Added
  <2>12. LiveIn(r2) = {[address |-> RX(k), size |-> size]}
    BY <1>1, <2>2, <2>10, <2>11, Zenon
  <2>13. live' = live \union LiveIn(r2)
    BY <2>1, <2>12, Zenon
  <2>14. r2.rx = RX(k) /\ r2.rw = RW(k)
    BY <2>2, <2>11, Zenon
  <2> DEFINE a == [address |-> RX(k), size |-> size]
  <2>15. LiveIn(r2) = {a} /\ live' = live \union {a} /\ a.size = s * PAGE_SIZE
    BY <1>1, <2>1, <2>12
  <2> HIDE DEF a
  <2>16. Counted(r2, a, s)
    BY <2>11, <2>15, Zenon DEF Counted
  <2>16a. s \in Int
    BY <1>1
  <2>17. /\ stats' = RecordAllocation(OneMoreObject, s)
         /\ small_pooling_enabled' = small_pooling_enabled
    BY <1>1, <1>6
  <2>18. BookStep
    BY <2>9, <2>15, <2>16, <2>16a, <2>17, TakeBooks
  <2>19. QED
    BY <2>9, <2>11, <2>13, <2>14, <2>18, OccupyStep
<1>7. CASE /\ \E k \in Objects : Occupy(EmptyPool(k), k)
           /\ stats' = OneMoreObject /\ UNCHANGED <<small_pooling_enabled, live>>
  <2>1. PICK k \in Objects : Occupy(EmptyPool(k), k)
    BY <1>7
  <2> DEFINE r == EmptyPool(k)
  <2>2. RegionOK(r) /\ r.used = TRUE /\ r.rx = RX(k) /\ r.rw = RW(k) /\ LiveIn(r) = {}
    BY EmptyPoolFacts
  <2>3. Occupy(r, k)
    BY <2>1
  <2> HIDE DEF r
  <2>4. live' = live \union LiveIn(r)
    BY <1>7, <2>2
  <2>5. live' = live /\ small_pooling_enabled' = small_pooling_enabled
    BY <1>7
  <2>6. BookStep
    BY <1>7, <2>2, <2>3, <2>5, OpenBooks
  <2>7. QED
    BY <2>2, <2>3, <2>4, <2>6, OccupyStep
<1>8. QED
  BY <1>3, <1>4, <1>5, <1>6, <1>7, Zenon DEF AllocateInNewPool

\* AllocateJitMemory preserves the invariant.
LEMMA AllocateStep ==
  ASSUME JitInv, NEW size \in Sizes, AllocateJitMemory(size)
  PROVE  JitInv' /\ (BookStep \/ UNCHANGED vars)
<1>1. CASE UNCHANGED vars
  BY <1>1, SameStep DEF vars
<1>2. CASE Alignable(size) /\ ~UNCHANGED vars
  <2> DEFINE z == AlignSize(size)
  <2>1. size \in 0 .. SIZE_MAX
    BY InputAssumption
  <2>2. z \in Nat /\ Whole(z) /\ z <= Window
    BY <1>2, <2>1, AlignFacts, WindowAssumption
  <2>3. \/ /\ z <= SMALL_JIT_MAX_ALLOCATION /\ (AllocateInPool(z) \/ AllocateInNewPool(z))
           /\ small_pooling_enabled # FALSE
        \/ /\ AllocateDedicated(z)
           /\ z <= SMALL_JIT_MAX_ALLOCATION => small_pooling_enabled # TRUE
    BY <1>2, Zenon DEF AllocateJitMemory, AllocateInPoolThrows, PoolsExhausted
  <2> HIDE DEF z
  <2>4. CASE /\ AllocateDedicated(z)
             /\ z <= SMALL_JIT_MAX_ALLOCATION => small_pooling_enabled # TRUE
    BY <2>2, <2>4, DedicatedStep
  <2>5. CASE /\ z <= SMALL_JIT_MAX_ALLOCATION /\ (AllocateInPool(z) \/ AllocateInNewPool(z))
             /\ small_pooling_enabled # FALSE
    <3>1. PICK s : Pooled(z, s)
      BY <2>2, <2>5, PooledSize
    <3>2. QED
      BY <2>5, <3>1, InPoolStep, NewPoolStep, Zenon
  <2>6. QED
    BY <2>3, <2>4, <2>5
<1>3. QED
  BY <1>1, <1>2, Zenon DEF AllocateJitMemory

\* FreeJitMemory preserves the invariant.
LEMMA FreeStep ==
  ASSUME JitInv, NEW rx, NEW size \in Sizes, FreeJitMemory(rx, size)
  PROVE  JitInv' /\ (BookStep \/ UNCHANGED vars)
<1> DEFINE i == Min(Holders(rx))
           r == regions[i]
           a == [address |-> rx, size |-> AlignSize(size)]
           z == AlignSize(size)
<1>1. CASE UNCHANGED vars
  BY <1>1, SameStep DEF vars
<1>2. CASE ~UNCHANGED vars
  <2>1. Holders(rx) # {} /\ Accepts(r, rx, size) /\ (FreeLast(i, rx, z) \/ FreeInPool(i, rx, z))
    BY <1>2, Zenon DEF FreeJitMemory
  <2>2. i \in Holders(rx)
    <3> DEFINE T == Holders(rx)
    <3>1. T \in SUBSET Nat /\ T # {}
      BY <2>1, LimitAssumption DEF Holders, RegionIds
    <3> HIDE DEF T
    <3>2. Min(T) \in T
      BY <3>1, Minimum
    <3>3. QED
      BY <3>2 DEF T
  <2>3. i \in RegionIds /\ r.used /\ ~r.quarantined
    BY <2>2, Zenon DEF Holders
  <2> HIDE DEF i
  <2>4. RegionOK(r) /\ r \in Region
    BY <2>3 DEF JitInv
  <2>5. r.used = TRUE /\ r.quarantined = FALSE /\ r.pooled \in BOOLEAN
    BY <2>3, <2>4, RegionFields
  <2>6. a \in LiveIn(r)
    <3> HIDE DEF r
    <3>1. QED
      BY <2>1, <2>4, <2>5, AcceptedIsLive
  <2>7. ASSUME NEW j \in RegionIds, j # i PROVE a \notin LiveIn(regions[j])
    BY <2>3, <2>6, <2>7, RegionsPrivate
  <2>8. ASSUME NEW c
        PROVE  c \in live <=> c \in LiveIn(r) \/ \E j \in RegionIds \ {i} : c \in LiveIn(regions[j])
    <3>1. c \in live <=> \E j \in RegionIds : c \in LiveIn(regions[j])
      BY LiveIs
    <3>2. QED
      BY <2>3, <3>1, Zenon
  <2> DEFINE P == PAGE_SIZE
             pages == z \div P
  <2>8a. a.size = z /\ pages \in Nat /\ pages * P = z
    <3>1. Whole(a.size) /\ a.size = z
      BY <2>4, <2>6, LiveBounds
    <3>2. QED
      BY <3>1, WholePages, Zenon
  <2> HIDE DEF P, pages
  <2>8b. 0 \in Int /\ 1 \in Int /\ -1 \in Int /\ pages \in Int /\ 0 - pages \in Int
         /\ 0 - (0 - pages) = pages /\ 0 - 0 = 0 /\ 0 - 1 = -1
    BY <2>8a
  <2>9. CASE FreeLast(i, rx, z)
    <3>1. IsLast(r) /\ CloseRegion(i) /\ live' = live \ {a}
      BY <1>2, <2>9, Zenon DEF FreeLast, Released
    <3>2. LiveIn(r) = {a}
      <4> HIDE DEF r
      <4>1. QED
        BY <2>4, <2>6, <3>1, LastFacts
    <3> HIDE DEF a
    <3>3. ASSUME NEW c
          PROVE  c \in live' <=> \E j \in RegionIds \ {i} : c \in LiveIn(regions[j])
      BY <2>7, <2>8, <3>1, <3>2, Zenon
    <3>4. JitInv'
      BY <2>3, <2>5, <3>1, <3>3, CloseStep
    <3>5. /\ regions' = [regions EXCEPT ![i] = NoRegion]
          /\ code_memory' = {k \in code_memory : RX(k) # regions[i].rx}
      BY <3>1 DEF CloseRegion
    <3>6. BooksKernel(-1)
      <4>1. PICK l \in code_memory : regions[i].rx = RX(l)
        BY <2>3, <2>5 DEF JitInv, Owned
      <4>2. code_memory \subseteq Objects
        BY DEF JitInv
      <4>3. \A k \in code_memory : RX(k) = RX(l) => k = l
        BY <4>1, <4>2, RXDistinct
      <4>4. code_memory' = code_memory \ {l}
        BY <3>5, <4>1, <4>3
      <4>5. QED
        BY <4>1, <4>4 DEF BooksKernel
    <3>7. LiveIn(NoRegion) = {}
      BY NoRegionFacts
    <3>8. LiveIn(NoRegion) = LiveIn(r) \ {a}
      BY <3>2, <3>7
    <3>9. Released(rx, z, 1, IF r.pooled THEN pages ELSE 0)
      BY <1>2, <2>9, Zenon DEF FreeLast, pages, P
    <3>10. small_pooling_enabled' = small_pooling_enabled
      BY <3>9, Zenon DEF Released
    <3>11. CASE r.pooled = TRUE
      <4>1. Released(rx, z, 1, pages)
        BY <3>9, <3>11
      <4>2. BooksStats(-1, 0 - 1, 0 - pages)
        BY <2>8b, <4>1, StatsFacts
      <4>3. (0 - (0 - pages)) * PAGE_SIZE = a.size
        BY <2>8a, <2>8b, Zenon DEF P
      <4>4. Gives(r, NoRegion, a, 0 - pages)
        BY <2>6, <3>1, <3>7, <3>8, <3>11, <4>3, Zenon DEF Gives
      <4>5. BooksLive(regions[i], NoRegion, -1, 0 - pages)
        BY <4>4, Zenon DEF BooksLive
      <4>6. Booked(i, NoRegion, -1, -1, 0 - pages)
        BY <2>8b, <3>5, <3>6, <3>10, <4>2, <4>5, Zenon DEF Booked
      <4>7. QED
        BY <2>3, <2>8b, <3>4, <4>6, Zenon DEF BookStep
    <3>12. CASE r.pooled = FALSE
      <4>1. Released(rx, z, 1, 0)
        BY <3>9, <3>12
      <4>2. BooksStats(-1, 0 - 1, 0 - 0)
        BY <2>8b, <4>1, StatsFacts
      <4>3. Gives(r, NoRegion, a, 0)
        BY <2>6, <3>1, <3>7, <3>8, <3>12, Zenon DEF Gives
      <4>4. BooksLive(regions[i], NoRegion, -1, 0)
        BY <4>3, Zenon DEF BooksLive
      <4>5. Booked(i, NoRegion, -1, -1, 0)
        BY <2>8b, <3>5, <3>6, <3>10, <4>2, <4>4, Zenon DEF Booked
      <4>6. QED
        BY <2>3, <2>8b, <3>4, <4>5, Zenon DEF BookStep
    <3>13. QED
      BY <2>5, <3>11, <3>12
  <2>10. CASE FreeInPool(i, rx, z)
    <3> DEFINE n == FindPoolAllocation(r, rx, 1)
               r2 == ReleasePages(r, n)
    <3>1. /\ ~IsLast(r) /\ regions' = [regions EXCEPT ![i] = r2] /\ live' = live \ {a}
          /\ code_memory' = code_memory
      BY <2>10, Zenon DEF FreeInPool, Released
    <3>2. r.pooled = TRUE /\ r.active_allocations # 1
      BY <2>5, <3>1 DEF IsLast
    <3>3. n \in UsedIn(r.allocations) /\ Piece(r.rx, r.allocations[n]) = a
      <4> HIDE DEF r
      <4>1. QED
        BY <2>1, <2>4, <2>5, <3>2, AcceptedIsLive
    <3> HIDE DEF n
    <3>4. Removed(r2, r, a)
      <4>1. Removed(r2, r, Piece(r.rx, r.allocations[n]))
        <5> HIDE DEF r
        <5>1. QED
          BY <2>4, <2>5, <3>2, <3>3, ReleaseFacts
      <4>2. QED
        BY <3>3, <4>1, Zenon
    <3> HIDE DEF r2, a
    <3>5. /\ RegionOK(r2) /\ r2.used = TRUE /\ r2.rx = r.rx /\ r2.rw = r.rw
          /\ LiveIn(r2) = LiveIn(r) \ {a} /\ r2.pooled = TRUE
      BY <3>4, Zenon DEF Removed
    <3>6. ASSUME NEW c
          PROVE  c \in live' <=> c \in LiveIn(r2) \/ \E j \in RegionIds \ {i} : c \in LiveIn(regions[j])
      BY <2>7, <2>8, <3>1, <3>5, Zenon
    <3>7. r2.rx = regions[i].rx /\ r2.rw = regions[i].rw /\ regions[i].used = TRUE
      BY <2>5, <3>5
    <3>8. UNCHANGED code_memory
      BY <3>1
    <3>9. regions' = [regions EXCEPT ![i] = r2]
      BY <3>1, Zenon
    <3>10. JitInv'
      BY <2>3, <3>5, <3>6, <3>7, <3>8, <3>9, ChangeStep
    <3>11. Released(rx, z, 0, pages)
      BY <2>10, Zenon DEF FreeInPool, pages, P
    <3>12. small_pooling_enabled' = small_pooling_enabled
      BY <3>11, Zenon DEF Released
    <3>13. BooksStats(-1, 0 - 0, 0 - pages)
      BY <2>8b, <3>11, StatsFacts
    <3>14. (0 - (0 - pages)) * PAGE_SIZE = a.size
      BY <2>8a, <2>8b, Zenon DEF P
    <3>15. Gives(r, r2, a, 0 - pages)
      BY <2>6, <3>1, <3>2, <3>5, <3>14, Zenon DEF Gives
    <3>16. BooksLive(regions[i], r2, -1, 0 - pages)
      BY <3>15, Zenon DEF BooksLive
    <3>17. BooksKernel(0)
      BY <3>8 DEF BooksKernel
    <3>18. Booked(i, r2, -1, 0, 0 - pages)
      BY <2>8b, <3>9, <3>12, <3>13, <3>16, <3>17, Zenon DEF Booked
    <3>19. QED
      BY <2>3, <2>8b, <3>10, <3>18, Zenon DEF BookStep
  <2>11. QED
    BY <2>1, <2>9, <2>10
<1>3. QED
  BY <1>1, <1>2

\* The invariant holds in the empty registry.
LEMMA JitInit ==
  Init => JitInv
<1> SUFFICES ASSUME Init PROVE JitInv
  OBVIOUS
<1>1. regions = [i \in RegionIds |-> NoRegion] /\ code_memory = {} /\ live = {}
  BY DEF Init
<1>2. NoRegion \in Region /\ RegionOK(NoRegion) /\ NoRegion.used = FALSE /\ LiveIn(NoRegion) = {}
  BY NoRegionFacts DEF RegionOK
<1>3. \A i \in RegionIds : regions[i] = NoRegion
  BY <1>1
<1>4. regions \in [RegionIds -> Region]
  BY <1>1, <1>2
<1>5. live = UNION {LiveIn(regions[i]) : i \in RegionIds}
  BY <1>1, <1>2, <1>3
<1>6. \A i \in RegionIds : regions[i].used = FALSE /\ RegionOK(regions[i])
  BY <1>2, <1>3
<1>7. QED
  BY <1>1, <1>4, <1>5, <1>6 DEF JitInv, Owned

\* Every step preserves the invariant.
LEMMA JitNext ==
  JitInv /\ [Next]_vars => JitInv'
<1> SUFFICES ASSUME JitInv, [Next]_vars PROVE JitInv'
  OBVIOUS
<1>1. CASE UNCHANGED vars
  BY <1>1, SameStep DEF vars
<1>2. CASE \E size \in Sizes : AllocateJitMemory(size)
  BY <1>2, AllocateStep
<1>3. CASE \E rx \in {address \in Addresses : WasHandedOut(address)}, size \in Sizes :
             FreeJitMemory(rx, size)
  BY <1>3, FreeStep
<1>4. CASE \E enabled \in BOOLEAN : SetSmallJitPoolingEnabled(enabled)
  BY <1>4, SameStep DEF SetSmallJitPoolingEnabled
<1>5. QED
  BY <1>1, <1>2, <1>3, <1>4 DEF Next

\* The invariant holds in every reachable state.
LEMMA JitInvariant ==
  Spec => []JitInv
BY JitInit, JitNext, PTL DEF Spec

-----------------------------------------------------------------------------
(* The books: the counters agree with what is live and what is open. *)

\* The allocations in pools, and the bytes of allocations.
PooledIn(r) == IF r.pooled = TRUE THEN LiveIn(r) ELSE {}

InPools == UNION {PooledIn(regions[i]) : i \in RegionIds}

RangeOf(a) == a.address .. a.address + a.size - 1

Bytes(S) == UNION {RangeOf(a) : a \in S}

Counts(n, S) == IsFiniteSet(S) /\ n = Cardinality(S)

FollowsPolicy(a) ==
  a.size <= SMALL_JIT_MAX_ALLOCATION => (a \in InPools <=> small_pooling_enabled = TRUE)

Books ==
  /\ small_pooling_enabled \in BOOLEAN
  /\ stats \in StatsType
  /\ Counts(stats.active, live)
  /\ Counts(stats.kernel_regions_active, code_memory)
  /\ Counts(stats.pooled_pages_active * PAGE_SIZE, Bytes(InPools))
  /\ \A a \in live : FollowsPolicy(a)

\* Live allocations are ranges, apart from each other, of one region each.
Proper(a) == a.address \in Nat /\ a.size \in Nat \ {0}

Separate ==
  /\ \A a \in live : Proper(a)
  /\ \A a, b \in live : a # b => ~Overlap(a, b)
  /\ \A i, j \in RegionIds : i # j =>
       \A a : ~(a \in LiveIn(regions[i]) /\ a \in LiveIn(regions[j]))

\* The allocations the regions record are well formed and occupy different bytes.
LEMMA InvSeparate ==
  JitInv => Separate
<1> SUFFICES ASSUME JitInv PROVE Separate
  OBVIOUS
<1>1. ASSUME NEW a \in live PROVE Proper(a)
  <2>1. PICK i \in RegionIds : a \in LiveIn(regions[i])
    BY LiveIs
  <2>2. RegionOK(regions[i])
    BY DEF JitInv
  <2>3. QED
    BY <2>1, <2>2, LiveBounds DEF Proper
<1>2. \A a, b \in live : a # b => ~Overlap(a, b)
  BY InvPrivate DEF CodeIsPrivate
<1>3. ASSUME NEW i \in RegionIds, NEW j \in RegionIds, i # j,
             NEW a, a \in LiveIn(regions[i]), a \in LiveIn(regions[j])
      PROVE  FALSE
  BY <1>3, RegionsPrivate
<1>4. QED
  BY <1>1, <1>2, <1>3, Zenon DEF Separate

\* And so they do after a step that keeps the invariant.
LEMMA InvSeparateNext ==
  JitInv' => Separate'
BY InvSeparate, PTL

\* Adding to and removing from a set that is counted.
LEMMA CountUp ==
  ASSUME NEW n, NEW S, NEW x, Counts(n, S), x \notin S
  PROVE  Counts(n + 1, S \union {x})
BY FS_AddElement DEF Counts

\* Removing one member counts one down.
LEMMA CountDown ==
  ASSUME NEW n, NEW S, NEW x, Counts(n, S), x \in S
  PROVE  Counts(n - 1, S \ {x})
BY FS_RemoveElement DEF Counts

\* What counts a set is a natural number.
LEMMA CountType ==
  ASSUME NEW n, NEW S, Counts(n, S)
  PROVE  n \in Nat
BY FS_CardinalityType DEF Counts

\* The bytes of an allocation that overlaps no other are counted apart.
LEMMA BytesAdd ==
  ASSUME NEW S, NEW a, Proper(a), \A b \in S : Proper(b) /\ ~Overlap(a, b),
         IsFiniteSet(Bytes(S))
  PROVE  Counts(Cardinality(Bytes(S)) + a.size, Bytes(S \union {a}))
<1> DEFINE p == a.address
           z == a.size
           T == Bytes(S)
           I == RangeOf(a)
<1>1. p \in Nat /\ z \in Nat \ {0}
  BY DEF Proper
<1>2. I = p .. p + z - 1
  BY DEF RangeOf
<1>3. Bytes(S \union {a}) = T \union I
  BY DEF Bytes
<1>4. T \cap I = {}
  <2> SUFFICES ASSUME NEW x, x \in T, x \in I PROVE FALSE
    OBVIOUS
  <2>1. PICK b \in S : x \in RangeOf(b)
    BY DEF Bytes
  <2> DEFINE q == b.address
             y == b.size
  <2>2. q \in Nat /\ y \in Nat /\ ~(p < q + y /\ q < p + z) /\ x \in q .. q + y - 1
    BY <2>1 DEF Proper, Overlap, RangeOf
  <2>3. x \in p .. p + z - 1
    BY <1>2
  <2> HIDE DEF p, z, q, y
  <2>4. QED
    BY <1>1, <2>2, <2>3
<1> HIDE DEF p, z, T
<1>5. IsFiniteSet(I) /\ Cardinality(I) = z
  <2>1. p \in Int /\ p + z - 1 \in Int /\ ~(p > p + z - 1) /\ p + z - 1 - p + 1 = z
    BY <1>1
  <2> DEFINE e == p + z - 1
  <2> HIDE DEF e
  <2>2. IsFiniteSet(p .. e) /\ Cardinality(p .. e) = e - p + 1
    BY <2>1, FS_Interval DEF e
  <2>3. I = p .. e
    BY <1>2, Zenon DEF e
  <2>3a. e - p + 1 = z
    BY <1>1 DEF e
  <2>4. QED
    BY <2>2, <2>3, <2>3a, Zenon
<1> HIDE DEF I
<1>6. IsFiniteSet(T) /\ Cardinality(T) \in Nat
  BY FS_CardinalityType DEF T
<1>7. IsFiniteSet(T \union I)
      /\ Cardinality(T \union I) = Cardinality(T) + Cardinality(I) - Cardinality(T \cap I)
  BY <1>5, <1>6, FS_Union
<1>8. Cardinality(T \cap I) = 0
  BY <1>4, FS_EmptySet
<1>9. Cardinality(T \union I) = Cardinality(T) + z
  BY <1>1, <1>5, <1>6, <1>7, <1>8
<1>10. QED
  BY <1>3, <1>7, <1>9 DEF Counts, T, z

\* An allocation that does not touch the others adds exactly its own bytes.
LEMMA BytesTake ==
  ASSUME NEW S, NEW a, NEW n, Proper(a), \A b \in S : Proper(b) /\ ~Overlap(a, b),
         Counts(n, Bytes(S))
  PROVE  Counts(n + a.size, Bytes(S \union {a}))
BY BytesAdd DEF Counts

\* Releasing it removes exactly its own bytes.
LEMMA BytesGive ==
  ASSUME NEW S, NEW a \in S, NEW n, Proper(a),
         \A b \in S : b # a => Proper(b) /\ ~Overlap(a, b), Counts(n, Bytes(S))
  PROVE  Counts(n - a.size, Bytes(S \ {a}))
<1> DEFINE T == S \ {a}
           m == Cardinality(Bytes(T))
           z == a.size
<1>1. T \union {a} = S
  OBVIOUS
<1>2. \A b \in T : Proper(b) /\ ~Overlap(a, b)
  OBVIOUS
<1>3. Bytes(T) \in SUBSET Bytes(S)
  BY DEF Bytes
<1>4. IsFiniteSet(Bytes(T))
  BY <1>3, FS_Subset DEF Counts
<1>5. m \in Nat
  BY <1>4, FS_CardinalityType
<1> HIDE DEF T
<1>6. Counts(m + z, Bytes(S))
  BY <1>1, <1>2, <1>4, BytesAdd
<1>7. n = m + z /\ z \in Nat
  BY <1>6 DEF Counts, Proper
<1> HIDE DEF m, z
<1>8. m = n - z
  BY <1>5, <1>7
<1>9. QED
  BY <1>4, <1>8 DEF Counts, T, m, z

\* What the change of one entry does to the allocations in pools.
LEMMA PoolsMove ==
  ASSUME JitInv, NEW i \in RegionIds, NEW r, regions' = [regions EXCEPT ![i] = r], NEW a
  PROVE  /\ regions'[i] = r /\ \A j \in RegionIds : j # i => regions'[j] = regions[j]
         /\ a \in InPools <=> \/ a \in PooledIn(regions[i])
                              \/ \E j \in RegionIds \ {i} : a \in PooledIn(regions[j])
         /\ a \in InPools' <=> \/ a \in PooledIn(r)
                               \/ \E j \in RegionIds \ {i} : a \in PooledIn(regions[j])
<1>1. regions'[i] = r /\ \A j \in RegionIds : j # i => regions'[j] = regions[j]
  BY DEF JitInv
<1>2. a \in InPools <=> \E j \in RegionIds : a \in PooledIn(regions[j])
  BY Zenon DEF InPools
<1>3. a \in InPools' <=> \E j \in RegionIds : a \in PooledIn(regions'[j])
  BY Zenon DEF InPools
<1>4. QED
  BY <1>1, <1>2, <1>3, Zenon

\* Allocations in pools are live.
LEMMA PoolsLive ==
  ASSUME JitInv, NEW a \in InPools
  PROVE  a \in live
<1>1. PICK i \in RegionIds : a \in PooledIn(regions[i])
  BY DEF InPools
<1>2. a \in LiveIn(regions[i])
  BY <1>1 DEF PooledIn
<1>3. QED
  BY <1>2, LiveIs

\* What taking pages does to the sets the pool counters count.
LEMMA TakeSets ==
  ASSUME JitInv, JitInv', NEW i \in RegionIds, NEW r, regions' = [regions EXCEPT ![i] = r],
         NEW a, NEW pag, Takes(regions[i], r, a, pag)
  PROVE  /\ a \notin live
         /\ r.pooled = TRUE => InPools' = InPools \union {a}
         /\ r.pooled = FALSE => InPools' = InPools
<1> DEFINE r0 == regions[i]
<1>1. /\ a \notin LiveIn(r0) /\ LiveIn(r) = LiveIn(r0) \union {a}
      /\ (r0.pooled = TRUE /\ r.pooled = TRUE) \/ LiveIn(r0) = {}
  BY Zenon DEF Takes
<1>2. regions'[i] = r /\ \A j \in RegionIds : j # i => regions'[j] = regions[j]
  BY PoolsMove
<1>3. ASSUME NEW j \in RegionIds, j # i PROVE a \notin LiveIn(regions[j])
  <2>1. \A m, n \in RegionIds : m # n => \A x : ~(x \in LiveIn(regions'[m]) /\ x \in LiveIn(regions'[n]))
    BY InvSeparateNext DEF Separate
  <2>2. a \in LiveIn(regions'[i]) /\ regions'[j] = regions[j]
    BY <1>1, <1>2, <1>3
  <2>3. QED
    BY <1>3, <2>1, <2>2, Zenon
<1>4. a \notin live
  BY <1>1, <1>3, LiveIs, Zenon
<1>5. ASSUME r.pooled = TRUE PROVE InPools' = InPools \union {a}
  <2>1. PooledIn(r) = PooledIn(r0) \union {a}
    BY <1>1, <1>5 DEF PooledIn
  <2>2. \A x : x \in InPools' <=> x \in InPools \/ x = a
    BY <2>1, PoolsMove, Zenon
  <2>3. QED
    BY <2>2
<1>6. ASSUME r.pooled = FALSE PROVE InPools' = InPools
  <2>1. PooledIn(r) = PooledIn(r0)
    BY <1>1, <1>6 DEF PooledIn
  <2>2. \A x : x \in InPools' <=> x \in InPools
    BY <2>1, PoolsMove, Zenon
  <2>3. QED
    BY <2>2
<1>7. QED
  BY <1>4, <1>5, <1>6

\* What giving pages back does to them.
LEMMA GiveSets ==
  ASSUME JitInv, JitInv', NEW i \in RegionIds, NEW r, regions' = [regions EXCEPT ![i] = r],
         NEW a, NEW pag, Gives(regions[i], r, a, pag)
  PROVE  /\ a \in live
         /\ regions[i].pooled = TRUE => a \in InPools /\ InPools' = InPools \ {a}
         /\ regions[i].pooled = FALSE => InPools' = InPools
<1> DEFINE r0 == regions[i]
<1>1. /\ a \in LiveIn(r0) /\ LiveIn(r) = LiveIn(r0) \ {a}
      /\ (r0.pooled = TRUE /\ r.pooled = TRUE) \/ LiveIn(r) = {}
  BY Zenon DEF Gives
<1>2. ASSUME NEW j \in RegionIds, j # i PROVE a \notin PooledIn(regions[j])
  <2>1. a \notin LiveIn(regions[j])
    BY <1>1, <1>2, InvSeparate, Zenon DEF Separate
  <2>2. QED
    BY <2>1 DEF PooledIn
<1>3. a \in live
  BY <1>1, LiveIs
<1>4. ASSUME r0.pooled = TRUE PROVE a \in InPools /\ InPools' = InPools \ {a}
  <2>1. PooledIn(r) = PooledIn(r0) \ {a} /\ a \in PooledIn(r0)
    BY <1>1, <1>4 DEF PooledIn
  <2>2. \A x : x \in InPools' <=> x \in InPools /\ x # a
    BY <1>2, <2>1, PoolsMove, Zenon
  <2>3. a \in InPools
    BY <2>1, PoolsMove, Zenon
  <2>4. QED
    BY <2>2, <2>3
<1>5. ASSUME r0.pooled = FALSE PROVE InPools' = InPools
  <2>1. PooledIn(r) = PooledIn(r0)
    BY <1>1, <1>5 DEF PooledIn
  <2>2. \A x : x \in InPools' <=> x \in InPools
    BY <2>1, PoolsMove, Zenon
  <2>3. QED
    BY <2>2
<1>6. QED
  BY <1>3, <1>4, <1>5

\* What the books say after a step that books act allocations and pag pages.
Kept(act, pag) ==
  /\ Counts(stats.active + act, live')
  /\ Counts((stats.pooled_pages_active + pag) * PAGE_SIZE, Bytes(InPools'))
  /\ \A a \in live' : FollowsPolicy(a)'

\* Taking an allocation keeps the counters in step with what is held.
LEMMA TakeKept ==
  ASSUME JitInv, JitInv', Books, NEW i \in RegionIds, NEW r,
         regions' = [regions EXCEPT ![i] = r], small_pooling_enabled' = small_pooling_enabled,
         NEW a, NEW pag \in Int, Takes(regions[i], r, a, pag)
  PROVE  Kept(1, pag)
<1> DEFINE d == stats.pooled_pages_active
           P == PAGE_SIZE
           n == d * P
           z == a.size
<1>1. live' = live \union {a} /\ Counted(r, a, pag)
  BY Zenon DEF Takes
<1>2. /\ a \notin live
      /\ r.pooled = TRUE => InPools' = InPools \union {a}
      /\ r.pooled = FALSE => InPools' = InPools
  BY TakeSets
<1>3. Counts(stats.active + 1, live')
  BY <1>1, <1>2, CountUp DEF Books
<1>4. Proper(a) /\ \A b \in InPools : Proper(b) /\ ~Overlap(a, b)
  <2>1. a \in live' /\ \A b \in InPools : b \in live' /\ b # a
    BY <1>1, <1>2, PoolsLive
  <2>2. (\A x \in live' : Proper(x)) /\ \A x, y \in live' : x # y => ~Overlap(x, y)
    BY InvSeparateNext DEF Separate
  <2>3. QED
    BY <2>1, <2>2, Zenon
<1>5. Counts(n, Bytes(InPools)) /\ small_pooling_enabled \in BOOLEAN /\ d \in Int /\ P \in Nat
  BY PageAssumption DEF Books, StatsType
<1>6. \A b \in live : FollowsPolicy(b)
  BY DEF Books
<1>7. CASE r.pooled = TRUE
  <2>1. pag * P = z /\ small_pooling_enabled = TRUE
    BY <1>1, <1>5, <1>7 DEF Counted
  <2>2. (d + pag) * P = n + z
    <3> HIDE DEF d, P, z
    <3>1. (d + pag) * P = d * P + pag * P
      BY <1>5, Times
    <3>2. QED
      BY <2>1, <3>1
  <2> HIDE DEF n, z
  <2>3. Counts(n + a.size, Bytes(InPools \union {a}))
    BY <1>4, <1>5, BytesTake
  <2>4. Counts((d + pag) * P, Bytes(InPools'))
    BY <1>2, <1>7, <2>2, <2>3, Zenon DEF z
  <2>5. ASSUME NEW b \in live' PROVE FollowsPolicy(b)'
    <3>1. CASE b = a
      BY <1>2, <1>7, <2>1, <3>1 DEF FollowsPolicy
    <3>2. CASE b # a
      <4>1. b \in live /\ (b \in InPools' <=> b \in InPools)
        BY <1>1, <1>2, <1>7, <2>5, <3>2
      <4>2. QED
        BY <1>6, <4>1, Zenon DEF FollowsPolicy
    <3>3. QED
      BY <3>1, <3>2
  <2>6. QED
    BY <1>3, <2>4, <2>5, Zenon DEF Kept, d, P
<1>8. CASE r.pooled = FALSE
  <2>1. pag = 0 /\ (a.size <= SMALL_JIT_MAX_ALLOCATION => small_pooling_enabled # TRUE)
    BY <1>1, <1>8 DEF Counted
  <2>2. d + pag = d
    BY <1>5, <2>1
  <2>3. Counts((d + pag) * P, Bytes(InPools'))
    BY <1>2, <1>5, <1>8, <2>2, Zenon
  <2>4. a \notin InPools
    BY <1>2, PoolsLive
  <2>5. ASSUME NEW b \in live' PROVE FollowsPolicy(b)'
    <3>1. CASE b = a
      BY <1>2, <1>8, <2>1, <2>4, <3>1 DEF FollowsPolicy
    <3>2. CASE b # a
      <4>1. b \in live /\ (b \in InPools' <=> b \in InPools)
        BY <1>1, <1>2, <1>8, <2>5, <3>2
      <4>2. QED
        BY <1>6, <4>1, Zenon DEF FollowsPolicy
    <3>3. QED
      BY <3>1, <3>2
  <2>6. QED
    BY <1>3, <2>3, <2>5, Zenon DEF Kept
<1>9. QED
  BY <1>1, <1>7, <1>8 DEF Counted

\* Giving one back keeps the counters in step with what is held.
LEMMA GiveKept ==
  ASSUME JitInv, JitInv', Books, NEW i \in RegionIds, NEW r,
         regions' = [regions EXCEPT ![i] = r], small_pooling_enabled' = small_pooling_enabled,
         NEW a, NEW pag \in Int, Gives(regions[i], r, a, pag)
  PROVE  Kept(-1, pag)
<1> DEFINE b == stats.active
           d == stats.pooled_pages_active
           P == PAGE_SIZE
           n == d * P
           z == a.size
           r0 == regions[i]
<1>1. /\ live' = live \ {a}
      /\ \/ r0.pooled = TRUE /\ (0 - pag) * P = z
         \/ r0.pooled = FALSE /\ pag = 0
  BY Zenon DEF Gives
<1>2. /\ a \in live
      /\ r0.pooled = TRUE => a \in InPools /\ InPools' = InPools \ {a}
      /\ r0.pooled = FALSE => InPools' = InPools
  BY GiveSets
<1>3. /\ Counts(n, Bytes(InPools)) /\ small_pooling_enabled \in BOOLEAN /\ d \in Int /\ P \in Nat
      /\ b \in Int /\ Counts(b, live)
  BY PageAssumption DEF Books, StatsType
<1>4. Counts(b + -1, live')
  <2> HIDE DEF b
  <2>1. b + -1 = b - 1
    BY <1>3
  <2>2. Counts(b - 1, live \ {a})
    BY <1>2, <1>3, CountDown
  <2>3. QED
    BY <1>1, <2>1, <2>2, Zenon
<1>5. Proper(a) /\ \A x \in InPools : x # a => Proper(x) /\ ~Overlap(a, x)
  <2>1. \A x \in InPools : x \in live
    BY PoolsLive
  <2>2. (\A x \in live : Proper(x)) /\ \A x, y \in live : x # y => ~Overlap(x, y)
    BY InvSeparate DEF Separate
  <2>3. QED
    BY <1>2, <2>1, <2>2, Zenon
<1>6. \A x \in live : FollowsPolicy(x)
  BY DEF Books
<1>7. ASSUME NEW x \in live' PROVE FollowsPolicy(x)'
  <2>1. x \in live /\ (x \in InPools' <=> x \in InPools)
    BY <1>1, <1>2, <1>7
  <2>2. QED
    BY <1>6, <2>1, Zenon DEF FollowsPolicy
<1>8. CASE r0.pooled = TRUE
  <2>1. (0 - pag) * P = z
    BY <1>1, <1>8
  <2>2. (d + pag) * P = n - z
    <3> DEFINE e == 0 - pag
    <3> HIDE DEF d, P, z
    <3>1. e \in Int /\ d - e = d + pag
      BY <1>3
    <3>a. e * P = z
      BY <2>1
    <3> HIDE DEF e
    <3>2. (d - e) * P = d * P - e * P
      BY <1>3, <3>1, Times
    <3>3. QED
      BY <3>a, <3>1, <3>2, Zenon
  <2> HIDE DEF n, z
  <2>3. Counts(n - a.size, Bytes(InPools \ {a}))
    BY <1>2, <1>3, <1>5, <1>8, BytesGive
  <2>4. Counts((d + pag) * P, Bytes(InPools'))
    BY <1>2, <1>8, <2>2, <2>3, Zenon DEF z
  <2>5. QED
    BY <1>4, <1>7, <2>4, Zenon DEF Kept
<1>9. CASE r0.pooled = FALSE
  <2>1. d + pag = d
    BY <1>1, <1>3, <1>9
  <2>2. Counts((d + pag) * P, Bytes(InPools'))
    BY <1>2, <1>3, <1>9, <2>1, Zenon
  <2>3. QED
    BY <1>4, <1>7, <2>2, Zenon DEF Kept
<1>10. QED
  BY <1>1, <1>8, <1>9

\* Every step that books something keeps the books.
LEMMA BooksKept ==
  ASSUME JitInv, JitInv', Books, BookStep
  PROVE  Books'
<1>0. PICK i \in RegionIds, act \in Int, ker \in Int, pag \in Int :
         \E r : Booked(i, r, act, ker, pag)
  BY DEF BookStep
<1>1. PICK r : Booked(i, r, act, ker, pag)
  BY <1>0
<1> DEFINE b == stats.active
           c == stats.kernel_regions_active
           d == stats.pooled_pages_active
<1>2. /\ regions' = [regions EXCEPT ![i] = r] /\ small_pooling_enabled' = small_pooling_enabled
      /\ BooksStats(act, ker, pag) /\ BooksKernel(ker) /\ BooksLive(regions[i], r, act, pag)
  BY <1>1, Zenon DEF Booked
<1>3. /\ small_pooling_enabled \in BOOLEAN /\ stats \in StatsType
      /\ Counts(b, live) /\ Counts(c, code_memory)
      /\ Counts(d * PAGE_SIZE, Bytes(InPools)) /\ \A a \in live : FollowsPolicy(a)
  BY DEF Books
<1>4. b \in Nat /\ c \in Nat /\ d \in Nat
  BY <1>3 DEF StatsType
<1>5. stats' = [active |-> b + act, kernel_regions_active |-> c + ker,
                pooled_pages_active |-> d + pag]
  BY <1>2, <1>3, Zenon DEF BooksStats
<1>6. Counts(c + ker, code_memory')
  <2> HIDE DEF c
  <2>0. c + 0 = c /\ c + -1 = c - 1
    BY <1>4
  <2>1. CASE ker = 0 /\ code_memory' = code_memory
    BY <1>3, <2>0, <2>1, Zenon
  <2>2. CASE ker = 1 /\ \E k : k \notin code_memory /\ code_memory' = code_memory \union {k}
    <3>1. PICK k : k \notin code_memory /\ code_memory' = code_memory \union {k}
      BY <2>2
    <3>2. Counts(c + 1, code_memory \union {k})
      BY <1>3, <3>1, CountUp
    <3>3. QED
      BY <2>2, <3>1, <3>2, Zenon
  <2>3. CASE ker = -1 /\ \E k \in code_memory : code_memory' = code_memory \ {k}
    <3>1. PICK k \in code_memory : code_memory' = code_memory \ {k}
      BY <2>3
    <3>2. Counts(c - 1, code_memory \ {k})
      BY <1>3, <3>1, CountDown
    <3>3. QED
      BY <2>0, <2>3, <3>1, <3>2, Zenon
  <2>4. QED
    BY <1>2, <2>1, <2>2, <2>3, Zenon DEF BooksKernel
<1>7. Kept(act, pag)
  <2>1. CASE act = 0 /\ pag = 0 /\ live' = live /\ LiveIn(regions[i]) = {} /\ LiveIn(r) = {}
    <3>1. PooledIn(r) = {} /\ PooledIn(regions[i]) = {}
      BY <2>1 DEF PooledIn
    <3>2. \A x : x \in InPools' <=> x \in InPools
      BY <1>2, <3>1, PoolsMove, Zenon
    <3>3. InPools' = InPools
      BY <3>2
    <3>4. ASSUME NEW x \in live' PROVE FollowsPolicy(x)'
      BY <1>2, <1>3, <2>1, <3>2, <3>4, Zenon DEF FollowsPolicy
    <3>5. b + act = b /\ d + pag = d
      BY <1>4, <2>1
    <3>6. Counts(b + act, live') /\ Counts((d + pag) * PAGE_SIZE, Bytes(InPools'))
      BY <1>3, <2>1, <3>3, <3>5, Zenon
    <3>7. QED
      BY <3>4, <3>6, Zenon DEF Kept
  <2>2. CASE act = 1 /\ \E a : Takes(regions[i], r, a, pag)
    <3>1. PICK a : Takes(regions[i], r, a, pag)
      BY <2>2
    <3>2. QED
      BY <1>2, <2>2, <3>1, TakeKept
  <2>3. CASE act = -1 /\ \E a : Gives(regions[i], r, a, pag)
    <3>1. PICK a : Gives(regions[i], r, a, pag)
      BY <2>3
    <3>2. QED
      BY <1>2, <2>3, <3>1, GiveKept
  <2>4. QED
    BY <1>2, <2>1, <2>2, <2>3, Zenon DEF BooksLive
<1>8. /\ Counts(b + act, live')
      /\ Counts((d + pag) * PAGE_SIZE, Bytes(InPools'))
      /\ \A a \in live' : FollowsPolicy(a)'
  BY <1>7, Zenon DEF Kept
<1> DEFINE b2 == b + act
           c2 == c + ker
           d2 == d + pag
           P == PAGE_SIZE
<1>9. d2 \in Nat
  <2>1. d2 \in Int
    BY <1>4
  <2>2. d2 * P \in Nat
    BY <1>8, CountType
  <2>3. P \in Nat \ {0}
    BY PageAssumption
  <2> HIDE DEF d2, P
  <2>4. ASSUME d2 < 0 PROVE FALSE
    <3>1. d2 * P + P <= 0 * P
      BY <2>1, <2>3, <2>4, Times
    <3>2. 0 * P = 0
      BY <2>3
    <3> DEFINE u == d2 * P
    <3>3. u \in Nat /\ u + P <= 0
      BY <2>2, <3>1, <3>2
    <3> HIDE DEF u
    <3>4. QED
      BY <2>3, <3>3
  <2>5. QED
    BY <2>1, <2>4
<1>10. b2 \in Nat /\ c2 \in Nat
  BY <1>6, <1>8, CountType
<1>11. stats' = [active |-> b2, kernel_regions_active |-> c2, pooled_pages_active |-> d2]
  BY <1>5
<1>12. /\ Counts(b2, live') /\ Counts(c2, code_memory') /\ Counts(d2 * PAGE_SIZE, Bytes(InPools'))
  BY <1>6, <1>8
<1> HIDE DEF b2, c2, d2
<1>13. /\ stats' \in StatsType /\ stats'.active = b2 /\ stats'.kernel_regions_active = c2
       /\ stats'.pooled_pages_active = d2
  BY <1>9, <1>10, <1>11 DEF StatsType
<1>14. small_pooling_enabled' \in BOOLEAN
  BY <1>2, <1>3
<1>15. Bytes(InPools)' = Bytes(InPools')
  BY Zenon DEF Bytes
<1>16. QED
  BY <1>8, <1>12, <1>13, <1>14, <1>15, Zenon DEF Books

\* The policy changes only while nothing is live.
LEMMA PolicyStep ==
  ASSUME Books, NEW enabled \in BOOLEAN, SetSmallJitPoolingEnabled(enabled)
  PROVE  Books'
<1>1. /\ regions' = regions /\ stats' = stats /\ code_memory' = code_memory /\ live' = live
      /\ small_pooling_enabled' =
           IF stats.active # 0 /\ small_pooling_enabled # enabled
           THEN small_pooling_enabled ELSE enabled
  BY DEF SetSmallJitPoolingEnabled
<1>2. small_pooling_enabled' \in BOOLEAN
  BY <1>1 DEF Books
<1>3. InPools' = InPools
  BY <1>1 DEF InPools
<1>4. ASSUME NEW a \in live' PROVE FollowsPolicy(a)'
  <2>1. a \in live
    BY <1>1, <1>4
  <2>2. stats.active # 0
    BY <2>1, FS_EmptySet DEF Books, Counts
  <2>3. small_pooling_enabled' = small_pooling_enabled
    BY <1>1, <2>2
  <2>4. FollowsPolicy(a)
    BY <2>1 DEF Books
  <2>5. QED
    BY <1>3, <2>3, <2>4, Zenon DEF FollowsPolicy
<1>5. QED
  BY <1>1, <1>2, <1>3, <1>4 DEF Books, Bytes

\* The books of the empty registry.
LEMMA BooksInit ==
  Init => Books
<1> SUFFICES ASSUME Init PROVE Books
  OBVIOUS
<1>1. /\ regions = [i \in RegionIds |-> NoRegion] /\ code_memory = {} /\ live = {}
      /\ small_pooling_enabled = TRUE
      /\ stats = [active |-> 0, kernel_regions_active |-> 0, pooled_pages_active |-> 0]
  BY DEF Init
<1>2. /\ stats \in StatsType /\ stats.active = 0 /\ stats.kernel_regions_active = 0
      /\ stats.pooled_pages_active = 0
  BY <1>1 DEF StatsType
<1>3. ASSUME NEW x PROVE x \notin InPools
  <2>1. \A i \in RegionIds : PooledIn(regions[i]) = {}
    BY <1>1, NoRegionFacts DEF PooledIn
  <2>2. QED
    BY <2>1, Zenon DEF InPools
<1>4. Bytes(InPools) = {}
  BY <1>3 DEF Bytes
<1>5. Counts(0, {})
  BY FS_EmptySet DEF Counts
<1>6. 0 * PAGE_SIZE = 0
  BY PageAssumption
<1>7. QED
  BY <1>1, <1>2, <1>4, <1>5, <1>6, Zenon DEF Books

\* The invariant and the books hold in every reachable state.
LEMMA BooksNext ==
  JitInv /\ Books /\ [Next]_vars => JitInv' /\ Books'
<1> SUFFICES ASSUME JitInv, Books, [Next]_vars PROVE JitInv' /\ Books'
  OBVIOUS
<1>1. JitInv'
  BY JitNext
<1>2. CASE UNCHANGED vars
  BY <1>1, <1>2 DEF vars, Books, FollowsPolicy, InPools, Bytes
<1>3. CASE \E size \in Sizes : AllocateJitMemory(size)
  BY <1>1, <1>2, <1>3, AllocateStep, BooksKept
<1>4. CASE \E rx \in {address \in Addresses : WasHandedOut(address)}, size \in Sizes :
             FreeJitMemory(rx, size)
  BY <1>1, <1>2, <1>4, FreeStep, BooksKept
<1>5. CASE \E enabled \in BOOLEAN : SetSmallJitPoolingEnabled(enabled)
  BY <1>1, <1>5, PolicyStep
<1>6. QED
  BY <1>2, <1>3, <1>4, <1>5 DEF Next

\* The books agree in every reachable state.
LEMMA BooksInvariant ==
  Spec => [](JitInv /\ Books)
BY JitInit, BooksInit, BooksNext, PTL DEF Spec

\* A live allocation is backed by the region that records it, and by no other.
LEMMA BackedIs ==
  ASSUME JitInv, NEW i \in RegionIds, NEW a \in live
  PROVE  Backs(i, a) <=> a \in LiveIn(regions[i])
<1>1. PICK j \in RegionIds : a \in LiveIn(regions[j])
  BY LiveIs
<1> DEFINE rx == regions[j].rx
           s == regions[j].size
           rx2 == regions[i].rx
           s2 == regions[i].size
           p == a.address
           z == a.size
<1>2. /\ regions[j].used = TRUE /\ regions[j].quarantined = FALSE
      /\ rx \in Nat /\ s \in Nat /\ p \in Nat /\ z \in Nat /\ z # 0 /\ rx <= p /\ p + z <= rx + s
  BY <1>1, LiveBounds DEF JitInv
<1>3. rx2 \in Nat /\ s2 \in Nat /\ regions[i].used \in BOOLEAN /\ regions[i].quarantined \in BOOLEAN
  BY RegionFields DEF JitInv
<1>4. ASSUME Backs(i, a) PROVE a \in LiveIn(regions[i])
  <2>1. regions[i].used = TRUE /\ regions[i].quarantined = FALSE /\ Contains(rx2, s2, p, z)
    BY <1>3, <1>4 DEF Backs
  <2>2. /\ rx <= p /\ p < rx + s /\ rx2 <= p /\ p < rx2 + s2
    <3> HIDE DEF rx, s, rx2, s2, p, z
    <3>1. rx2 <= p /\ p + z <= rx2 + s2
      BY <1>2, <1>3, <2>1, ContainsFacts
    <3>2. QED
      BY <1>2, <1>3, <3>1
  <2>3. i = j
    BY <1>2, <2>1, <2>2, RegionsApart, Zenon
  <2>4. QED
    BY <1>1, <2>3
<1>5. ASSUME a \in LiveIn(regions[i]) PROVE Backs(i, a)
  <2>1. /\ regions[i].used = TRUE /\ regions[i].quarantined = FALSE /\ rx2 <= p /\ p + z <= rx2 + s2
    BY <1>5, LiveBounds DEF JitInv
  <2> HIDE DEF rx2, s2, p, z
  <2>2. Contains(rx2, s2, p, z)
    BY <1>2, <1>3, <2>1, ContainsFacts
  <2>3. QED
    BY <2>1, <2>2, Zenon DEF Backs, rx2, s2, p, z
<1>6. QED
  BY <1>4, <1>5

\* The invariant and the books imply RegistryIsSound.
LEMMA InvSound ==
  ASSUME JitInv, Books
  PROVE  RegistryIsSound
<1>1. \A i \in RegionIds : /\ RegionOK(regions[i]) /\ regions[i].used \in BOOLEAN
                           /\ regions[i].pooled \in BOOLEAN /\ regions[i].quarantined \in BOOLEAN
  BY RegionFields DEF JitInv
<1>2. TypeOK
  <2>1. ASSUME NEW a \in live PROVE a \in [address : Nat, size : Nat \ {0}]
    <3>1. PICK i \in RegionIds : a \in LiveIn(regions[i])
      BY LiveIs
    <3>2. a = [address |-> a.address, size |-> a.size] /\ a.address \in Nat /\ a.size \in Nat \ {0}
      BY <1>1, <3>1, LiveBounds
    <3>3. QED
      BY <3>2
  <2>2. QED
    BY <2>1 DEF TypeOK, JitInv, Books, StatsType
<1>3. \A i \in RegionIds : i \in Pools <=> regions[i].used = TRUE /\ regions[i].pooled = TRUE
                                           /\ regions[i].quarantined = FALSE
  BY <1>1 DEF Pools
<1>4. PooledLive = InPools
  <2>1. ASSUME NEW a \in PooledLive PROVE a \in InPools
    <3>1. PICK i \in Pools : Backs(i, a) /\ a \in live /\ i \in RegionIds
      BY DEF PooledLive, Pools
    <3>2. a \in LiveIn(regions[i]) /\ regions[i].pooled = TRUE
      BY <1>3, <3>1, BackedIs
    <3>3. QED
      BY <3>1, <3>2 DEF InPools, PooledIn
  <2>2. ASSUME NEW a \in InPools PROVE a \in PooledLive
    <3>1. PICK i \in RegionIds : a \in PooledIn(regions[i])
      BY <2>2 DEF InPools
    <3>2. a \in LiveIn(regions[i]) /\ regions[i].pooled = TRUE
      BY <3>1 DEF PooledIn
    <3>3. i \in Pools
      BY <1>1, <1>3, <3>2, LiveBounds
    <3>4. a \in live /\ Backs(i, a)
      BY <2>2, <3>2, PoolsLive, BackedIs
    <3>5. QED
      BY <3>3, <3>4 DEF PooledLive
  <2>3. QED
    BY <2>1, <2>2
<1>5. PooledBytes = Bytes(InPools)
  BY <1>4 DEF PooledBytes, Bytes, RangeOf
<1>6. ASSUME NEW i \in Pools
      PROVE  regions[i].active_allocations = Cardinality({a \in live : Backs(i, a)})
  <2>1. i \in RegionIds /\ regions[i].used = TRUE /\ regions[i].pooled = TRUE
        /\ regions[i].quarantined = FALSE
    BY <1>3, <1>6 DEF Pools
  <2>2. {a \in live : Backs(i, a)} = LiveIn(regions[i])
    <3>1. \A a : a \in LiveIn(regions[i]) => a \in live
      BY <2>1, LiveIs
    <3>2. \A a \in live : Backs(i, a) <=> a \in LiveIn(regions[i])
      BY <2>1, BackedIs
    <3>3. QED
      BY <3>1, <3>2
  <2>3. QED
    BY <1>1, <2>1, <2>2, PieceCount
<1>7. LedgerAgrees
  BY <1>5, <1>6 DEF LedgerAgrees, Books, Counts
<1>8. RegistryOwnsObjects
  BY InvOwns
<1>9. ObjectsServeLiveCode
  <2> SUFFICES ASSUME NEW i \in RegionIds, regions[i].used = TRUE, regions[i].quarantined = FALSE
               PROVE  \/ \E a \in live : Backs(i, a)
                      \/ regions[i].pooled = TRUE /\ regions[i].allocations = << >>
    BY <1>1, Zenon DEF ObjectsServeLiveCode
  <2>1. ASSUME NEW a \in LiveIn(regions[i]) PROVE \E x \in live : Backs(i, x)
    BY LiveIs, BackedIs
  <2>2. CASE regions[i].pooled = FALSE
    <3>1. LiveIn(regions[i]) # {}
      BY <2>2 DEF LiveIn
    <3>2. QED
      BY <2>1, <3>1
  <2>3. CASE regions[i].pooled = TRUE /\ regions[i].active_allocations # 0
    <3>1. Cardinality(LiveIn(regions[i])) # 0
      BY <1>1, <2>3, PieceCount
    <3>2. LiveIn(regions[i]) # {}
      BY <3>1, FS_EmptySet
    <3>3. QED
      BY <2>1, <3>2
  <2>4. CASE regions[i].pooled = TRUE /\ regions[i].allocations = << >>
    BY <2>4
  <2>5. QED
    BY <1>1, <2>2, <2>3, <2>4 DEF RegionOK, ListFits
<1>10. PolicyIsUniform
  <2>1. small_pooling_enabled \in BOOLEAN /\ \A a \in live : FollowsPolicy(a)
    BY DEF Books
  <2>2. QED
    BY <1>4, <2>1 DEF PolicyIsUniform, FollowsPolicy
<1>11. OwnersFitPages
  BY <1>1 DEF OwnersFitPages, RegionOK, ListFits
<1>12. QED
  BY <1>2, <1>7, <1>8, <1>9, <1>10, <1>11 DEF RegistryIsSound

-----------------------------------------------------------------------------
(* The theorems. *)

\* No two live allocations overlap and each lies in an open region, however
\* AllocateJitMemory and FreeJitMemory alternate and whatever the kernel refuses.
THEOREM CodePrivate ==
  Spec => []CodeIsPrivate
<1>1. JitInv => CodeIsPrivate
  BY InvPrivate
<1>2. QED
  BY <1>1, JitInvariant, PTL

\* FreeJitMemory accepts every live allocation, by the address and the size that
\* AllocateJitMemory returned it with, also after releases that failed.
THEOREM RetryAccepted ==
  Spec => []ReleaseCanBeRetried
<1>1. JitInv => ReleaseCanBeRetried
  BY InvRetry
<1>2. QED
  BY <1>1, JitInvariant, PTL

\* GetWritableJitAddress and FlushJitCode accept exactly the ranges within one live
\* allocation and translate them into the RW alias of an open object.
THEOREM EmitterExact ==
  Spec => []EmitterReachesExactlyLive
<1>1. JitInv => EmitterReachesExactlyLive
  BY InvEmitter
<1>2. QED
  BY <1>1, JitInvariant, PTL

\* Every open CodeMemory object has one entry of the registry and every used entry
\* one object, whatever jitCreate and jitClose refuse.
THEOREM ObjectsOwned ==
  Spec => []RegistryOwnsObjects
<1>1. JitInv => RegistryOwnsObjects
  BY InvOwns
<1>2. QED
  BY <1>1, JitInvariant, PTL

\* Whatever failed before, the counters that limit allocations, guard the policy and
\* recognise the last release of a pool are the numbers of live allocations, open
\* objects and pages; objects are kept for live code only; the policy is uniform; and
\* an owner fits its page.
THEOREM RegistrySound ==
  Spec => []RegistryIsSound
<1>1. JitInv /\ Books => RegistryIsSound
  BY InvSound
<1>2. QED
  BY <1>1, BooksInvariant, PTL
=============================================================================
