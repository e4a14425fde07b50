------------------------- MODULE FenceClientsProofs -------------------------
(***************************************************************************)
(* Proofs about the clients of the fence clock, for a query ring and a     *)
(* stream buffer of any size, any ring of command buffers and any number   *)
(* of them: queries never overwrite one that was not read, a flush reads   *)
(* them all, what a caller writes no pending command buffer reads, and a   *)
(* second reservation succeeds.                                            *)
(***************************************************************************)
EXTENDS FenceClients, SequenceTheorems, WellFoundedInduction, TLAPS

-----------------------------------------------------------------------------
(* Arithmetic. *)

\* Below twice its modulus, a remainder takes off the modulus at most once.
LEMMA Modulo ==
  ASSUME NEW n \in Nat \ {0}, NEW a \in Nat, a < 2 * n
  PROVE  a % n = IF a < n THEN a ELSE a - n
<1> DEFINE q == a \div n
           r == a % n
<1>1. q \in Int /\ r \in 0 .. n - 1 /\ a = n * q + r
  BY SMT
<1> HIDE DEF q, r
<1>2. q >= 2 => n * q >= 2 * n
  BY <1>1, SMT
<1>3. q <= -1 => n * q <= -n
  BY <1>1, SMT
<1>4. q = 0 \/ q = 1
  BY <1>1, <1>2, <1>3, SMT
<1>5. r = IF a < n THEN a ELSE a - n
  BY <1>1, <1>4, SMT
<1>6. QED
  BY <1>5 DEF r

\* A set of naturals that is not empty has a least element.
LEMMA Least ==
  ASSUME NEW T \in SUBSET Nat, T # {}
  PROVE  \E x \in T : \A y \in T : x <= y
<1> DEFINE R == OpToRel(<, Nat)
<1>1. IsWellFoundedOn(R, Nat)
  BY NatLessThanWellFounded
<1>2. PICK x \in T : \A y \in T : ~ (<<y, x>> \in R)
  <2> HIDE DEF R
  <2>1. QED BY <1>1, WFMin
<1>3. \A y \in Nat : y < x => <<y, x>> \in R
  BY DEF OpToRel
<1> HIDE DEF R
<1>4. ASSUME NEW y \in T
      PROVE  x <= y
  <2>1. x \in Nat /\ y \in Nat
    OBVIOUS
  <2>2. ~(y < x)
    BY <1>2, <1>3, <2>1, Zenon
  <2>3. QED
    BY <2>1, <2>2
<1>5. QED
  BY <1>4

LEMMA LessNext ==
  ASSUME NEW i \in Nat, NEW n \in Nat, NEW m, m = n + 1
  PROVE  (i < n \/ i = n => i < m) /\ (~(i < n \/ i = n) => i >= m)
OBVIOUS

-----------------------------------------------------------------------------
(* The clock, as a client sees it between two steps: what is known to be   *)
(* completed was executed, and what is recorded was not.                   *)

ClockInv ==
  /\ current \in Nat /\ executed \in Nat /\ completed \in Nat
  /\ completed <= executed /\ executed < current
  /\ submitted = FALSE

LEMMA ClockStart == ClockInit => ClockInv
BY DEF ClockInit, ClockInv

\* Executing a command buffer; after a blocking execution everything recorded is completed.
LEMMA ExecuteFacts ==
  ASSUME ClockInv, NEW wait \in BOOLEAN, ExecuteCommandBuffer(wait)
  PROVE  /\ ClockInv' /\ current' = current + 1 /\ completed <= completed'
         /\ wait => completed' = current
         /\ completed' <= current /\ completed' + NUM_COMMAND_BUFFERS >= current'
<1>1. NUM_COMMAND_BUFFERS \in Nat /\ NUM_COMMAND_BUFFERS >= 2
  BY BuffersAssumption
<1>2. CASE wait = TRUE
  BY <1>1, <1>2 DEF ClockInv, ExecuteCommandBuffer, CompletedAfter
<1>3. CASE wait = FALSE
  BY <1>1, <1>3 DEF ClockInv, ExecuteCommandBuffer, CompletedAfter
<1>4. QED
  BY <1>2, <1>3

\* The steps of the rest of the thread and of the GPU.
LEMMA OtherFacts ==
  ASSUME ClockInv, OtherExecute \/ OtherWait \/ GpuExecutes
  PROVE  ClockInv' /\ current <= current' /\ completed <= completed'
<1>1. CASE OtherExecute
  <2>1. PICK wait \in BOOLEAN : ExecuteCommandBuffer(wait)
    BY <1>1 DEF OtherExecute
  <2>2. ClockInv' /\ current' = current + 1 /\ completed <= completed'
    BY <2>1, ExecuteFacts
  <2>3. QED
    BY <2>2 DEF ClockInv
<1>2. CASE OtherWait
  BY <1>2 DEF OtherWait, WaitForFenceCounter, ClockInv
<1>3. CASE GpuExecutes
  BY <1>3 DEF GpuExecutes, ClockInv
<1>4. QED
  BY <1>1, <1>2, <1>3

-----------------------------------------------------------------------------
(* The occlusion queries. *)

QueryTypeOK ==
  /\ query \in [Positions -> [has : BOOLEAN, fence : Nat]]
  /\ nextPos \in Positions /\ readPos \in Positions
  /\ count \in Nat /\ open \in BOOLEAN

\* An outstanding query was closed under a command buffer that is not later than the current one.
FencesAreRecorded ==
  \A i \in 0 .. count - 1 : query[Plus(readPos, i)].fence <= current

QueryInv == ClockInv /\ QueryTypeOK /\ QueriesAreExact /\ FencesAreRecorded

\* Going round the ring once.
LEMMA PlusFacts ==
  ASSUME NEW p \in Positions, NEW i \in Nat, i <= PERF_QUERY_BUFFER_SIZE
  PROVE  /\ Plus(p, i) = IF p + i < PERF_QUERY_BUFFER_SIZE THEN p + i
                         ELSE p + i - PERF_QUERY_BUFFER_SIZE
         /\ Plus(p, i) \in Positions
<1> DEFINE n == PERF_QUERY_BUFFER_SIZE
           a == p + i
<1>1. n \in Nat \ {0} /\ a \in Nat /\ a < 2 * n /\ p \in Nat /\ p < n
  BY QueryAssumption DEF Positions
<1>2. a % n = IF a < n THEN a ELSE a - n
  <2> HIDE DEF n, a
  <2>1. QED BY <1>1, Modulo
<1>3. QED
  BY <1>1, <1>2 DEF Plus, Positions

\* The queries that are read are the leading finished ones, and there is such a number.
LEMMA FinishedFacts ==
  ASSUME QueryTypeOK, count <= PERF_QUERY_BUFFER_SIZE, NEW c \in Nat
  PROVE  /\ Finished(c) \in 0 .. count
         /\ \A i \in 0 .. Finished(c) - 1 : query[Plus(readPos, i)].fence <= c
         /\ Finished(c) < count => query[Plus(readPos, Finished(c))].fence > c
<1> DEFINE Fin(n) == /\ \A i \in 0 .. n - 1 : query[Plus(readPos, i)].fence <= c
                     /\ n < count => query[Plus(readPos, n)].fence > c
           T == {n \in 0 .. count : n = count \/ ~(query[Plus(readPos, n)].fence <= c)}
<1>1. count \in Nat /\ T \in SUBSET Nat /\ T # {}
  BY DEF QueryTypeOK
<1>2. PICK m \in T : \A y \in T : m <= y
  <2> HIDE DEF T
  <2>1. QED BY <1>1, Least
<1>3. m \in 0 .. count /\ \A i \in 0 .. m - 1 : query[Plus(readPos, i)].fence <= c
  BY <1>1, <1>2
<1>4. m < count => query[Plus(readPos, m)].fence > c
  <2> SUFFICES ASSUME m < count PROVE query[Plus(readPos, m)].fence > c
    OBVIOUS
  <2>1. PERF_QUERY_BUFFER_SIZE \in Nat /\ m \in Nat /\ m <= PERF_QUERY_BUFFER_SIZE
    BY <1>1, <1>3, QueryAssumption
  <2>2. Plus(readPos, m) \in Positions
    BY <2>1, PlusFacts DEF QueryTypeOK
  <2>3. query[Plus(readPos, m)].fence \in Nat
    BY <2>2 DEF QueryTypeOK
  <2>4. ~(query[Plus(readPos, m)].fence <= c)
    BY <1>1, <1>2, <1>3
  <2>5. QED
    BY <2>3, <2>4
<1>5. \E n \in 0 .. count : Fin(n)
  BY <1>3, <1>4
<1>6. Finished(c) = CHOOSE n \in 0 .. count : Fin(n)
  BY DEF Finished
<1>7. Finished(c) \in 0 .. count /\ Fin(Finished(c))
  <2> HIDE DEF Fin
  <2>1. QED BY <1>5, <1>6
<1>8. QED
  BY <1>7

\* The window of outstanding queries, in a form without equivalences.
InUse(q, r, n) ==
  \A i \in Positions :
    /\ i < n => q[Plus(r, i)].has = TRUE
    /\ i >= n => q[Plus(r, i)].has = FALSE

LEMMA InUseFacts ==
  ASSUME QueryTypeOK, QueriesAreExact
  PROVE  /\ open = FALSE => InUse(query, readPos, count)
         /\ open = TRUE => \A i \in Positions :
              /\ i < count + 1 => query[Plus(readPos, i)].has = TRUE
              /\ i >= count + 1 => query[Plus(readPos, i)].has = FALSE
<1> SUFFICES ASSUME NEW i \in Positions
             PROVE  /\ open = FALSE => /\ i < count => query[Plus(readPos, i)].has = TRUE
                                       /\ i >= count => query[Plus(readPos, i)].has = FALSE
                    /\ open = TRUE => /\ i < count + 1 => query[Plus(readPos, i)].has = TRUE
                                      /\ i >= count + 1 => query[Plus(readPos, i)].has = FALSE
  BY DEF InUse
<1>1. i \in Nat /\ i <= PERF_QUERY_BUFFER_SIZE /\ count \in Nat
  BY QueryAssumption DEF Positions, QueryTypeOK
<1>2. Plus(readPos, i) \in Positions
  BY <1>1, PlusFacts DEF QueryTypeOK
<1>3. query[Plus(readPos, i)].has \in BOOLEAN
  BY <1>2 DEF QueryTypeOK
<1>4. query[Plus(readPos, i)].has <=> (i < count \/ (open /\ i = count))
  BY DEF QueriesAreExact
<1>5. QED
  BY <1>1, <1>3, <1>4

\* The other direction, for the state after a step.
LEMMA ExactWhenClosed ==
  ASSUME QueryTypeOK', open' = FALSE, count' <= PERF_QUERY_BUFFER_SIZE,
         nextPos' = Plus(readPos', count'), InUse(query', readPos', count')
  PROVE  QueriesAreExact'
<1>1. ASSUME NEW i \in Positions
      PROVE  query'[Plus(readPos', i)].has <=> (i < count' \/ (open' /\ i = count'))
  <2>1. i \in Nat /\ count' \in Nat
    BY QueryAssumption DEF Positions, QueryTypeOK
  <2>2. /\ i < count' => query'[Plus(readPos', i)].has = TRUE
        /\ ~(i < count') => query'[Plus(readPos', i)].has = FALSE
    BY <2>1 DEF InUse
  <2>3. QED
    BY <2>2
<1>2. QED
  BY <1>1 DEF QueriesAreExact

LEMMA ExactWhenOpen ==
  ASSUME QueryTypeOK', open' = TRUE, count' < PERF_QUERY_BUFFER_SIZE,
         nextPos' = Plus(readPos', count'), NEW m, m = count' + 1, InUse(query', readPos', m)
  PROVE  QueriesAreExact'
<1>0. count' \in Nat /\ PERF_QUERY_BUFFER_SIZE \in Nat
  BY QueryAssumption DEF QueryTypeOK
<1>1. ASSUME NEW i \in Positions
      PROVE  query'[Plus(readPos', i)].has <=> (i < count' \/ (open' /\ i = count'))
  <2>1. i \in Nat /\ count' \in Nat
    BY QueryAssumption DEF Positions, QueryTypeOK
  <2>2. /\ i < m => query'[Plus(readPos', i)].has = TRUE
        /\ i >= m => query'[Plus(readPos', i)].has = FALSE
    BY DEF InUse
  <2>3. CASE i < count' \/ i = count'
    <3>1. i < m
      BY <2>1, <2>3, LessNext, Zenon
    <3>2. query'[Plus(readPos', i)].has = TRUE
      BY <2>2, <3>1, Zenon
    <3>3. QED
      BY <2>3, <3>2, Zenon
  <2>4. CASE ~(i < count' \/ i = count')
    <3>1. i >= m
      BY <2>1, <2>4, LessNext, Zenon
    <3>2. query'[Plus(readPos', i)].has = FALSE
      BY <2>2, <3>1, Zenon
    <3>3. QED
      BY <2>4, <3>2, Zenon
  <2>5. QED
    BY <2>3, <2>4
<1>2. QED
  BY <1>0, <1>1 DEF QueriesAreExact

\* ReadbackQueries moves the start of the window behind the queries it has read and frees them.
LEMMA ReadbackFacts ==
  ASSUME QueryTypeOK, QueriesAreExact, open = FALSE, NEW c \in Nat
  PROVE  /\ ReadbackQueries(c).query \in [Positions -> [has : BOOLEAN, fence : Nat]]
         /\ ReadbackQueries(c).readPos \in Positions
         /\ ReadbackQueries(c).count \in Nat /\ ReadbackQueries(c).count <= count
         /\ nextPos = Plus(ReadbackQueries(c).readPos, ReadbackQueries(c).count)
         /\ InUse(ReadbackQueries(c).query, ReadbackQueries(c).readPos, ReadbackQueries(c).count)
         /\ \A i \in 0 .. ReadbackQueries(c).count - 1 : \E j \in 0 .. count - 1 :
              ReadbackQueries(c).query[Plus(ReadbackQueries(c).readPos, i)]
                = query[Plus(readPos, j)]
         /\ (\A i \in 0 .. count - 1 : query[Plus(readPos, i)].fence <= c)
              => ReadbackQueries(c).count = 0
<1> DEFINE n == Finished(c)
           N == PERF_QUERY_BUFFER_SIZE
           read == {Plus(readPos, i) : i \in 0 .. n - 1}
           q == [p \in Positions |-> IF p \in read THEN Unused ELSE query[p]]
           r == Plus(readPos, n)
<1>1. /\ N \in Nat \ {0} /\ count \in Nat /\ count <= N /\ readPos \in Positions
      /\ nextPos = Plus(readPos, count) /\ InUse(query, readPos, count)
  BY QueryAssumption, InUseFacts DEF QueryTypeOK, QueriesAreExact
<1>2. /\ n \in 0 .. count /\ (n < count => query[Plus(readPos, n)].fence > c)
  BY <1>1, FinishedFacts
<1>3. ReadbackQueries(c) = [query |-> q, readPos |-> r, count |-> count - n]
  BY DEF ReadbackQueries
<1>4. q \in [Positions -> [has : BOOLEAN, fence : Nat]]
  BY DEF QueryTypeOK, Unused
<1>5. \A p \in Positions : q[p] = IF p \in read THEN Unused ELSE query[p]
  OBVIOUS
<1>6. r \in Positions /\ n \in Nat /\ n <= N
  BY <1>1, <1>2, PlusFacts
<1>7. \A i \in 0 .. N : Plus(readPos, i) = IF readPos + i < N THEN readPos + i ELSE readPos + i - N
  BY PlusFacts, QueryAssumption, <1>1
<1>8. \A i \in 0 .. N : Plus(r, i) = IF r + i < N THEN r + i ELSE r + i - N
  <2> HIDE DEF r
  <2>1. QED BY PlusFacts, QueryAssumption, <1>1, <1>6
<1>9. readPos \in 0 .. N - 1 /\ r = IF readPos + n < N THEN readPos + n ELSE readPos + n - N
  BY <1>1, <1>6, <1>7 DEF Positions
<1>10. \A i \in 0 .. N : n + i <= N => Plus(r, i) = Plus(readPos, n + i)
  <2> HIDE DEF n, N, r
  <2>1. QED BY <1>1, <1>6, <1>7, <1>8, <1>9
<1>11. \A i \in Positions : n + i >= N =>
         Plus(r, i) = Plus(readPos, n + i - N) /\ n + i - N \in 0 .. n - 1
  <2> HIDE DEF n, N, r
  <2>1. QED BY <1>1, <1>6, <1>7, <1>8, <1>9 DEF Positions, N
<1>12. \A i, j \in 0 .. N - 1 : Plus(readPos, i) = Plus(readPos, j) => i = j
  <2> HIDE DEF n, N, r
  <2>1. QED BY <1>1, <1>7, <1>9
<1>13. ASSUME NEW i \in Positions, n + i < N
       PROVE  q[Plus(r, i)] = query[Plus(readPos, n + i)]
  <2>1. Plus(r, i) = Plus(readPos, n + i) /\ n + i \in 0 .. N - 1 /\ Plus(r, i) \in Positions
    <3>1. i \in 0 .. N /\ n + i \in 0 .. N - 1 /\ n + i \in Nat
      BY <1>1, <1>6, <1>13 DEF Positions
    <3>2. QED
      BY <1>1, <1>10, <3>1, PlusFacts
  <2>2. Plus(r, i) \notin read
    <3> SUFFICES ASSUME NEW j \in 0 .. n - 1, Plus(readPos, j) = Plus(readPos, n + i)
                 PROVE  FALSE
      BY <2>1
    <3>1. j = n + i
      BY <1>1, <1>6, <1>12, <2>1
    <3>2. QED
      BY <1>6, <3>1 DEF Positions
  <2>3. QED
    BY <1>5, <2>1, <2>2
<1> HIDE DEF q, r
<1>14. InUse(q, r, count - n)
  <2> SUFFICES ASSUME NEW i \in Positions
               PROVE  /\ i < count - n => q[Plus(r, i)].has = TRUE
                      /\ i >= count - n => q[Plus(r, i)].has = FALSE
    BY DEF InUse
  <2>1. CASE n + i < N
    <3>1. n + i \in Positions /\ q[Plus(r, i)] = query[Plus(readPos, n + i)]
      BY <1>1, <1>6, <1>13, <2>1 DEF Positions
    <3>2. /\ n + i < count => query[Plus(readPos, n + i)].has = TRUE
          /\ n + i >= count => query[Plus(readPos, n + i)].has = FALSE
      BY <1>1, <3>1 DEF InUse
    <3>3. n \in Nat /\ i \in Nat
      BY <1>6 DEF Positions
    <3>4. QED
      <4> HIDE DEF n
      <4>1. QED BY <1>1, <3>1, <3>2, <3>3
  <2>2. CASE n + i >= N
    <3>1. Plus(r, i) \in read /\ Plus(r, i) \in Positions
      BY <1>1, <1>6, <1>11, <2>2, PlusFacts DEF Positions
    <3>2. q[Plus(r, i)].has = FALSE
      BY <1>5, <3>1 DEF Unused
    <3>3. ~(i < count - n)
      <4>1. n \in Nat /\ i \in Nat
        BY <1>6 DEF Positions
      <4>2. QED
        BY <1>1, <2>2, <4>1
    <3>4. QED
      BY <3>2, <3>3
  <2>3. n + i < N \/ n + i >= N
    BY <1>1, <1>6 DEF Positions
  <2>4. QED
    BY <2>1, <2>2, <2>3
<1>15. ASSUME NEW i \in 0 .. count - n - 1
       PROVE  n + i \in 0 .. count - 1 /\ q[Plus(r, i)] = query[Plus(readPos, n + i)]
  <2>1. n + i \in 0 .. count - 1 /\ i \in Positions /\ n + i < N
    <3> HIDE DEF n
    <3>1. QED BY <1>1, <1>2, <1>6 DEF Positions
  <2>2. QED
    BY <1>13, <2>1
<1>16. nextPos = Plus(r, count - n)
  <2>1. count - n \in 0 .. N /\ n + (count - n) = count /\ n + (count - n) <= N
    <3> HIDE DEF n
    <3>1. QED BY <1>1, <1>2, <1>6
  <2>2. QED
    BY <1>1, <1>10, <2>1
<1>17. (\A i \in 0 .. count - 1 : query[Plus(readPos, i)].fence <= c) => count - n = 0
  <2> SUFFICES ASSUME \A i \in 0 .. count - 1 : query[Plus(readPos, i)].fence <= c, n < count
               PROVE  FALSE
    BY <1>1, <1>2
  <2>1. n \in 0 .. count - 1 /\ Plus(readPos, n) \in Positions
    BY <1>1, <1>2, <1>6, PlusFacts
  <2>2. query[Plus(readPos, n)].fence \in Nat
    BY <2>1 DEF QueryTypeOK
  <2>3. QED
    BY <1>2, <2>1, <2>2
<1>18. count - n \in Nat /\ count - n <= count
  BY <1>1, <1>2
<1>19. QED
  <2> HIDE DEF n, read
  <2>1. QED BY <1>3, <1>4, <1>6, <1>14, <1>15, <1>16, <1>17, <1>18

\* PartialFlush: a blocking one completes everything recorded.
LEMMA PartialFlushFacts ==
  ASSUME ClockInv, NEW blocking \in BOOLEAN, PartialFlush(blocking)
  PROVE  /\ ClockInv' /\ current <= current' /\ completed' \in Nat
         /\ blocking = TRUE => completed' = current
<1>1. CASE blocking \/ query[readPos].fence = current
  <2>1. ExecuteCommandBuffer(blocking)
    BY <1>1 DEF PartialFlush
  <2>2. /\ ClockInv' /\ current' = current + 1 /\ (blocking => completed' = current)
    BY <2>1, ExecuteFacts
  <2>3. QED
    BY <2>2 DEF ClockInv
<1>2. CASE ~(blocking \/ query[readPos].fence = current)
  <2>1. UNCHANGED clockVars /\ blocking = FALSE
    BY <1>2 DEF PartialFlush
  <2>2. QED
    BY <2>1 DEF ClockInv, clockVars
<1>3. QED
  BY <1>1, <1>2

Taken(q, next) == [q EXCEPT ![next].has = TRUE]

\* The query that is opened gets the slot behind the window, which is free.
LEMMA OpenedFacts ==
  ASSUME NEW q \in [Positions -> [has : BOOLEAN, fence : Nat]], NEW r \in Positions,
         NEW n \in Nat, n < PERF_QUERY_BUFFER_SIZE, InUse(q, r, n)
  PROVE  /\ Taken(q, Plus(r, n)) \in [Positions -> [has : BOOLEAN, fence : Nat]]
         /\ InUse(Taken(q, Plus(r, n)), r, n + 1)
         /\ \A p \in Positions : Taken(q, Plus(r, n))[p].fence = q[p].fence
<1> DEFINE next == Plus(r, n)
           after == Taken(q, next)
           m == n + 1
<1>0. PERF_QUERY_BUFFER_SIZE \in Nat
  BY QueryAssumption
<1>1. next \in Positions /\ next = Plus(r, n) /\ after = Taken(q, next) /\ m \in Nat /\ m = n + 1
  BY <1>0, PlusFacts
<1> HIDE DEF next, after, m
<1>2. q[next] \in [has : BOOLEAN, fence : Nat]
  BY <1>1
<1> DEFINE e == [q[next] EXCEPT !.has = TRUE]
<1>3. e \in [has : BOOLEAN, fence : Nat] /\ e.fence = q[next].fence /\ e.has = TRUE
  BY <1>2
<1>4. after = [q EXCEPT ![next] = e]
  BY <1>1 DEF Taken
<1> HIDE DEF e
<1>5. /\ after \in [Positions -> [has : BOOLEAN, fence : Nat]]
      /\ \A p \in Positions : after[p] = IF p = next THEN e ELSE q[p]
  BY <1>1, <1>3, <1>4
<1>6. \A p \in Positions : after[p].fence = q[p].fence
  BY <1>3, <1>5
<1>7. ASSUME NEW i \in Positions
      PROVE  /\ i < m => after[Plus(r, i)].has = TRUE
             /\ i >= m => after[Plus(r, i)].has = FALSE
  <2>1. /\ i \in Nat /\ i < PERF_QUERY_BUFFER_SIZE /\ r \in Nat
        /\ r < PERF_QUERY_BUFFER_SIZE
    BY <1>0 DEF Positions
  <2>2. /\ Plus(r, i) \in Positions
        /\ Plus(r, i) = IF r + i < PERF_QUERY_BUFFER_SIZE THEN r + i
                        ELSE r + i - PERF_QUERY_BUFFER_SIZE
        /\ next = IF r + n < PERF_QUERY_BUFFER_SIZE THEN r + n
                  ELSE r + n - PERF_QUERY_BUFFER_SIZE
    BY <1>0, <1>1, <2>1, PlusFacts
  <2>3. Plus(r, i) = next <=> i = n
    BY <1>0, <2>1, <2>2
  <2>4. /\ i < n => q[Plus(r, i)].has = TRUE
        /\ i >= n => q[Plus(r, i)].has = FALSE
    BY DEF InUse
  <2>5. CASE i = n
    <3>1. after[Plus(r, i)].has = TRUE
      BY <1>3, <1>5, <2>2, <2>3, <2>5
    <3>2. ~(i >= m)
      BY <1>1, <2>1, <2>5
    <3>3. QED
      BY <3>1, <3>2
  <2>6. CASE i # n
    <3>1. after[Plus(r, i)] = q[Plus(r, i)]
      BY <1>5, <2>2, <2>3, <2>6
    <3>2. (i < m => i < n) /\ (i >= m => i >= n)
      BY <1>1, <2>1, <2>6
    <3>3. QED
      BY <2>4, <3>1, <3>2
  <2>7. QED
    BY <2>5, <2>6
<1>8. InUse(after, r, m)
  BY <1>7 DEF InUse
<1>9. QED
  BY <1>5, <1>6, <1>8 DEF after, next, m

\* A group that is not counted takes no slot.
LEMMA NotOpenedFacts ==
  ASSUME NEW q \in [Positions -> [has : BOOLEAN, fence : Nat]], NEW next \in Positions
  PROVE  [q EXCEPT ![next].has = @ \/ FALSE] = q
<1> DEFINE e == [q[next] EXCEPT !.has = @ \/ FALSE]
<1>1. q[next] \in [has : BOOLEAN, fence : Nat]
  OBVIOUS
<1>2. e = q[next]
  BY <1>1
<1>3. QED
  BY <1>2

LEMMA EnableQueryKeeps ==
  ASSUME QueryInv, NEW counted \in BOOLEAN, EnableQuery(counted)
  PROVE  QueryInv'
<1> USE DEF QueryInv
<1> DEFINE N == PERF_QUERY_BUFFER_SIZE
           flush == count > N \div 2
           after == IF flush THEN ReadbackQueries(completed')
                    ELSE [query |-> query, readPos |-> readPos, count |-> count]
<1>1. /\ open = FALSE /\ open' = counted /\ nextPos' = nextPos
      /\ IF flush THEN PartialFlush(count = N) ELSE UNCHANGED clockVars
      /\ query' = [after.query EXCEPT ![nextPos].has = @ \/ counted]
      /\ readPos' = after.readPos /\ count' = after.count
  BY DEF EnableQuery, QueryTypeOK
<1>2. N \in Nat \ {0} /\ count \in Nat /\ count <= N
  BY QueryAssumption DEF QueryTypeOK, QueriesAreExact
<1>3. N \div 2 \in Nat /\ N \div 2 < N
  BY <1>2
<1>4. /\ ClockInv' /\ current <= current' /\ current \in Nat /\ current' \in Nat
      /\ flush /\ count = N => completed' = current
  <2>1. CASE flush
    <3>1. PartialFlush(count = N) /\ (count = N) \in BOOLEAN
      BY <1>1, <2>1
    <3>2. ClockInv' /\ current <= current' /\ ((count = N) = TRUE => completed' = current)
      <4> DEFINE b == count = N
      <4> HIDE DEF b
      <4>1. PartialFlush(b) /\ b \in BOOLEAN
        BY <3>1 DEF b
      <4>2. ClockInv' /\ current <= current' /\ (b = TRUE => completed' = current)
        BY <4>1, PartialFlushFacts
      <4>3. QED
        BY <4>2 DEF b
    <3>3. QED
      BY <3>2 DEF ClockInv
  <2>2. CASE ~flush
    BY <1>1, <2>2 DEF ClockInv, clockVars
  <2>3. QED
    BY <2>1, <2>2
<1>5. completed' \in Nat
  BY <1>4 DEF ClockInv
<1>6. /\ after.query \in [Positions -> [has : BOOLEAN, fence : Nat]]
      /\ after.readPos \in Positions
      /\ after.count \in Nat /\ after.count < N
      /\ nextPos = Plus(after.readPos, after.count)
      /\ InUse(after.query, after.readPos, after.count)
      /\ \A i \in 0 .. after.count - 1 : \E j \in 0 .. count - 1 :
           after.query[Plus(after.readPos, i)] = query[Plus(readPos, j)]
  <2>1. CASE flush
    <3> DEFINE b == ReadbackQueries(completed')
    <3>1. after = b
      BY <2>1
    <3>2. /\ b.query \in [Positions -> [has : BOOLEAN, fence : Nat]]
          /\ b.readPos \in Positions
          /\ b.count \in Nat /\ b.count <= count
          /\ nextPos = Plus(b.readPos, b.count)
          /\ InUse(b.query, b.readPos, b.count)
          /\ \A i \in 0 .. b.count - 1 : \E j \in 0 .. count - 1 :
               b.query[Plus(b.readPos, i)] = query[Plus(readPos, j)]
          /\ (\A i \in 0 .. count - 1 : query[Plus(readPos, i)].fence <= completed')
               => b.count = 0
      BY <1>1, <1>5, ReadbackFacts
    <3> HIDE DEF b
    <3>3. b.count < N
      <4>1. CASE count = N
        BY <1>2, <1>4, <2>1, <3>2, <4>1 DEF FencesAreRecorded
      <4>2. CASE count # N
        BY <1>2, <3>2, <4>2
      <4>3. QED
        BY <4>1, <4>2
    <3> HIDE DEF after
    <3>4. QED
      BY <3>1, <3>2, <3>3
  <2>2. CASE ~flush
    <3>1. after.query = query /\ after.readPos = readPos /\ after.count = count
      BY <2>2
    <3>2. count < N
      BY <1>2, <1>3, <2>2
    <3>3. InUse(query, readPos, count) /\ nextPos = Plus(readPos, count)
      BY <1>1, InUseFacts DEF QueriesAreExact
    <3> HIDE DEF after
    <3>4. QED
      BY <1>2, <3>1, <3>2, <3>3 DEF QueryTypeOK
  <2>3. QED
    BY <2>1, <2>2
<1> HIDE DEF after, flush
<1> DEFINE m == count' + 1
<1>7. /\ query' \in [Positions -> [has : BOOLEAN, fence : Nat]]
      /\ counted = FALSE => InUse(query', readPos', count')
      /\ counted = TRUE => InUse(query', readPos', m)
      /\ \A p \in Positions : query'[p].fence = after.query[p].fence
  <2>1. after.count <= N /\ nextPos \in Positions
    BY <1>2, <1>6 DEF QueryTypeOK
  <2> DEFINE q == after.query
             r == after.readPos
             n == after.count
  <2>2. /\ q \in [Positions -> [has : BOOLEAN, fence : Nat]] /\ r \in Positions
        /\ n \in Nat /\ n <= N /\ n < N /\ nextPos = Plus(r, n) /\ InUse(q, r, n)
        /\ query' = [q EXCEPT ![nextPos].has = @ \/ counted]
        /\ readPos' = r /\ count' = n
    BY <1>1, <1>6, <2>1
  <2> DEFINE z == query'
  <2>3. /\ nextPos \in Positions /\ m = n + 1
        /\ counted = TRUE => z = Taken(q, nextPos)
        /\ counted = FALSE => z = [q EXCEPT ![nextPos].has = @ \/ FALSE]
    BY <2>1, <2>2 DEF Taken
  <2> HIDE DEF q, r, n, z, m
  <2>4. CASE counted = TRUE
    <3>1. /\ Taken(q, Plus(r, n)) \in [Positions -> [has : BOOLEAN, fence : Nat]]
          /\ InUse(Taken(q, Plus(r, n)), r, n + 1)
          /\ \A p \in Positions : Taken(q, Plus(r, n))[p].fence = q[p].fence
      BY <2>2, OpenedFacts
    <3>2. /\ z \in [Positions -> [has : BOOLEAN, fence : Nat]] /\ InUse(z, r, m)
          /\ \A p \in Positions : z[p].fence = q[p].fence
      BY <2>2, <2>3, <2>4, <3>1
    <3>3. QED
      BY <2>2, <2>4, <3>2 DEF q, z
  <2>5. CASE counted = FALSE
    <3>1. z = q
      BY <2>2, <2>3, <2>5, NotOpenedFacts
    <3>2. QED
      BY <2>2, <2>5, <3>1 DEF q, z
  <2>6. QED
    BY <2>4, <2>5
<1>8. QueryTypeOK'
  BY <1>1, <1>6, <1>7 DEF QueryTypeOK
<1>9. QueriesAreExact'
  <2>1. /\ count' < N /\ count' <= N /\ nextPos' = Plus(readPos', count')
        /\ open' = TRUE \/ open' = FALSE
    BY <1>1, <1>2, <1>6
  <2>2. CASE open' = TRUE
    <3>1. m = count' + 1
      OBVIOUS
    <3> HIDE DEF m
    <3>2. QED
      BY <1>1, <1>7, <1>8, <2>1, <2>2, <3>1, ExactWhenOpen
  <2>3. CASE open' = FALSE
    BY <1>1, <1>7, <1>8, <2>1, <2>3, ExactWhenClosed
  <2>4. QED
    BY <2>1, <2>2, <2>3
<1>10. FencesAreRecorded'
  <2> SUFFICES ASSUME NEW i \in 0 .. count' - 1
               PROVE  query'[Plus(readPos', i)].fence <= current'
    BY DEF FencesAreRecorded
  <2>1. PICK j \in 0 .. count - 1 : after.query[Plus(readPos', i)] = query[Plus(readPos, j)]
    BY <1>1, <1>6
  <2>2. query[Plus(readPos, j)].fence <= current
    BY DEF FencesAreRecorded
  <2>3. Plus(readPos', i) \in Positions /\ Plus(readPos, j) \in Positions
    <3>1. i \in Nat /\ i <= N /\ j \in Nat /\ j <= N
      BY <1>1, <1>2, <1>6
    <3>2. QED
      BY <1>1, <1>6, <3>1, PlusFacts DEF QueryTypeOK
  <2>4. query'[Plus(readPos', i)].fence = query[Plus(readPos, j)].fence
        /\ query[Plus(readPos, j)].fence \in Nat
    BY <1>7, <2>1, <2>3 DEF QueryTypeOK
  <2>5. QED
    BY <1>4, <2>2, <2>4
<1>11. QED
  BY <1>4, <1>8, <1>9, <1>10

LEMMA DisableQueryKeeps == QueryInv /\ DisableQuery => QueryInv'
<1> SUFFICES ASSUME QueryInv, DisableQuery PROVE QueryInv'
  OBVIOUS
<1> USE DEF QueryInv
<1> DEFINE N == PERF_QUERY_BUFFER_SIZE
           z == query'
           m == count + 1
<1>1. /\ open = TRUE /\ z = [query EXCEPT ![nextPos].fence = current]
      /\ nextPos' = Plus(nextPos, 1) /\ count' = m /\ open' = FALSE
      /\ readPos' = readPos /\ UNCHANGED clockVars
  BY DEF DisableQuery, QueryTypeOK
<1>2. /\ N \in Nat \ {0} /\ count \in Nat /\ count < N /\ nextPos = Plus(readPos, count)
      /\ readPos \in Positions /\ nextPos \in Positions /\ current \in Nat /\ m \in Nat /\ m <= N
      /\ m = count + 1
  BY <1>1, QueryAssumption DEF QueryTypeOK, QueriesAreExact, ClockInv
<1>3. /\ z \in [Positions -> [has : BOOLEAN, fence : Nat]]
      /\ \A p \in Positions : z[p].has = query[p].has
      /\ \A p \in Positions : z[p].fence = IF p = nextPos THEN current ELSE query[p].fence
  BY <1>1, <1>2 DEF QueryTypeOK
<1> HIDE DEF z, m
<1>4. \A i \in Nat : i <= N => Plus(readPos, i) \in Positions
  BY <1>2, PlusFacts
<1>5. InUse(z, readPos, m)
  <2>1. \A i \in Positions :
          /\ i < count + 1 => query[Plus(readPos, i)].has = TRUE
          /\ i >= count + 1 => query[Plus(readPos, i)].has = FALSE
    BY <1>1, InUseFacts
  <2>2. ASSUME NEW i \in Positions
        PROVE  z[Plus(readPos, i)].has = query[Plus(readPos, i)].has
    <3>1. i \in Nat /\ i <= N
      BY <1>2 DEF Positions
    <3>2. QED
      BY <1>3, <1>4, <3>1
  <2>3. QED
    BY <1>2, <2>1, <2>2 DEF InUse
<1>6. Plus(nextPos, 1) = Plus(readPos, m)
  <2> DEFINE n == nextPos
  <2>1. n = IF readPos + count < N THEN readPos + count ELSE readPos + count - N
    BY <1>2, PlusFacts
  <2>2. Plus(n, 1) = IF n + 1 < N THEN n + 1 ELSE n + 1 - N
    BY <1>2, PlusFacts
  <2>3. Plus(readPos, m) = IF readPos + m < N THEN readPos + m ELSE readPos + m - N
    BY <1>2, PlusFacts
  <2>4. n \in 0 .. N - 1 /\ readPos \in 0 .. N - 1
    BY <1>2 DEF Positions
  <2> HIDE DEF n, N
  <2>5. QED
    BY <1>2, <2>1, <2>2, <2>3, <2>4 DEF n
<1>7. ClockInv' /\ current' = current
  BY <1>1 DEF ClockInv, clockVars
<1>8. QueryTypeOK'
  <2>1. Plus(nextPos, 1) \in Positions
    BY <1>2, PlusFacts
  <2>2. QED
    BY <1>1, <1>2, <1>3, <2>1 DEF QueryTypeOK, z
<1>9. QueriesAreExact'
  <2>1. open' = FALSE /\ count' <= PERF_QUERY_BUFFER_SIZE
        /\ nextPos' = Plus(readPos', count') /\ InUse(query', readPos', count')
    BY <1>1, <1>2, <1>5, <1>6 DEF z
  <2>2. QED
    BY <1>8, <2>1, ExactWhenClosed
<1>10. FencesAreRecorded'
  <2>1. ASSUME NEW i \in 0 .. m - 1
        PROVE  z[Plus(readPos, i)].fence <= current
    <3>1. i \in Nat /\ i <= N /\ i <= count
      BY <1>2
    <3>2. Plus(readPos, i) \in Positions
      BY <1>4, <3>1
    <3>3. CASE Plus(readPos, i) = nextPos
      BY <1>2, <1>3, <3>2, <3>3
    <3>4. CASE Plus(readPos, i) # nextPos
      <4>1. i \in 0 .. count - 1
        BY <1>2, <3>1, <3>4
      <4>2. QED
        BY <1>3, <3>2, <3>4, <4>1 DEF FencesAreRecorded
    <3>5. QED
      BY <3>3, <3>4
  <2>2. QED
    BY <1>1, <1>7, <2>1 DEF FencesAreRecorded, z
<1>11. QED
  BY <1>7, <1>8, <1>9, <1>10

\* A ring that was just cleared.
Cleared ==
  /\ query = [p \in Positions |-> Unused]
  /\ nextPos = 0 /\ readPos = 0 /\ count = 0 /\ open = FALSE

LEMMA EmptyRing == Cleared => QueryTypeOK /\ QueriesAreExact /\ FencesAreRecorded
<1> SUFFICES ASSUME Cleared PROVE QueryTypeOK /\ QueriesAreExact /\ FencesAreRecorded
  OBVIOUS
<1> USE DEF Cleared
<1>1. PERF_QUERY_BUFFER_SIZE \in Nat \ {0} /\ 0 \in Positions
  BY QueryAssumption DEF Positions
<1>2. ASSUME NEW i \in Positions
      PROVE  i \in Nat /\ query[Plus(readPos, i)].has = FALSE
  <2>1. i \in Nat /\ i <= PERF_QUERY_BUFFER_SIZE
    BY <1>1 DEF Positions
  <2>2. Plus(0, i) \in Positions
    BY <1>1, <2>1, PlusFacts
  <2>3. QED
    BY <2>1, <2>2 DEF Unused
<1>3. QueryTypeOK
  BY <1>1 DEF QueryTypeOK, Unused
<1>4. Plus(0, 0) = 0
  BY <1>1, PlusFacts
<1>5. QueriesAreExact
  <2>1. ASSUME NEW i \in Positions
        PROVE  query[Plus(readPos, i)].has <=> (i < count \/ (open /\ i = count))
    <3>1. i \in Nat /\ query[Plus(readPos, i)].has = FALSE
      BY <1>2
    <3>2. ~(i < count)
      BY <3>1
    <3>3. QED
      BY <3>1, <3>2, Zenon
  <2>2. QED
    BY <1>1, <1>4, <2>1 DEF QueriesAreExact
<1>6. FencesAreRecorded
  BY DEF FencesAreRecorded
<1>7. QED
  BY <1>3, <1>5, <1>6

LEMMA QueryStart == ClockInit /\ QueryInit => QueryInv
BY EmptyRing, ClockStart DEF QueryInit, QueryInv, Cleared

LEMMA ResetQueryKeeps == QueryInv /\ ResetQuery => QueryInv'
<1> SUFFICES ASSUME QueryInv, ResetQuery PROVE QueryInv'
  OBVIOUS
<1> USE DEF QueryInv
<1>1. Cleared' /\ UNCHANGED clockVars
  BY DEF ResetQuery, QueryTypeOK, Cleared
<1>2. ClockInv'
  BY <1>1 DEF ClockInv, clockVars
<1>3. QueryTypeOK' /\ QueriesAreExact' /\ FencesAreRecorded'
  BY <1>1, EmptyRing, PTL
<1>4. QED
  BY <1>2, <1>3

LEMMA FlushResultsKeeps ==
  ASSUME QueryInv, FlushResults
  PROVE  QueryInv' /\ count' = 0
<1> USE DEF QueryInv
<1> DEFINE b == ReadbackQueries(completed')
<1>1. /\ open = FALSE /\ PartialFlush(TRUE) /\ UNCHANGED <<nextPos, open>>
      /\ query' = b.query /\ readPos' = b.readPos /\ count' = b.count
  BY DEF FlushResults, QueryTypeOK
<1>2. ClockInv' /\ current <= current' /\ completed' \in Nat /\ completed' = current
  BY <1>1, PartialFlushFacts
<1>3. /\ b.query \in [Positions -> [has : BOOLEAN, fence : Nat]]
      /\ b.readPos \in Positions
      /\ b.count \in Nat /\ b.count <= count
      /\ nextPos = Plus(b.readPos, b.count)
      /\ InUse(b.query, b.readPos, b.count)
      /\ (\A i \in 0 .. count - 1 : query[Plus(readPos, i)].fence <= completed') => b.count = 0
  BY <1>1, <1>2, ReadbackFacts
<1> HIDE DEF b
<1>4. b.count = 0
  BY <1>2, <1>3 DEF FencesAreRecorded
<1>5. QueryTypeOK'
  BY <1>1, <1>3 DEF QueryTypeOK
<1>6. QueriesAreExact'
  <2>1. open' = FALSE /\ nextPos' = Plus(readPos', count') /\ InUse(query', readPos', count')
        /\ count' <= PERF_QUERY_BUFFER_SIZE
    BY <1>1, <1>3, <1>4, QueryAssumption
  <2>2. QED
    BY <1>5, <2>1, ExactWhenClosed
<1>7. FencesAreRecorded'
  BY <1>1, <1>4 DEF FencesAreRecorded
<1>8. QED
  BY <1>1, <1>2, <1>4, <1>5, <1>6, <1>7

\* Time passes for the queries.
LEMMA QueriesUnchanged ==
  ASSUME QueryInv, ClockInv', current <= current', UNCHANGED queryVars
  PROVE  QueryInv'
<1> USE DEF QueryInv
<1>1. UNCHANGED <<query, nextPos, readPos, count, open>>
  BY DEF queryVars
<1>2. QueryTypeOK' /\ QueriesAreExact'
  BY <1>1 DEF QueryTypeOK, QueriesAreExact
<1>3. FencesAreRecorded'
  <2> SUFFICES ASSUME NEW i \in 0 .. count - 1
               PROVE  query[Plus(readPos, i)].fence <= current'
    BY <1>1 DEF FencesAreRecorded
  <2>1. i \in Nat /\ i <= PERF_QUERY_BUFFER_SIZE
    BY QueryAssumption DEF QueryTypeOK, QueriesAreExact
  <2>2. query[Plus(readPos, i)].fence \in Nat
    <3>1. Plus(readPos, i) \in Positions
      BY <2>1, PlusFacts DEF QueryTypeOK
    <3>2. QED
      BY <3>1 DEF QueryTypeOK
  <2>3. query[Plus(readPos, i)].fence <= current
    BY DEF FencesAreRecorded
  <2>4. QED
    BY <2>2, <2>3 DEF ClockInv
<1>4. QED
  BY <1>2, <1>3

LEMMA QueryStep ==
  ASSUME QueryInv, QueryNext
  PROVE  QueryInv'
<1>1. CASE \E counted \in BOOLEAN : EnableQuery(counted)
  BY <1>1, EnableQueryKeeps
<1>2. CASE DisableQuery
  BY <1>2, DisableQueryKeeps
<1>3. CASE ResetQuery
  BY <1>3, ResetQueryKeeps
<1>4. CASE FlushResults
  BY <1>4, FlushResultsKeeps
<1>5. CASE QueryElsewhere
  <2>1. ClockInv' /\ current <= current'
    BY <1>5, OtherFacts DEF QueryElsewhere, QueryInv
  <2>2. QED
    BY <1>5, <2>1, QueriesUnchanged DEF QueryElsewhere
<1>6. QED
  BY <1>1, <1>2, <1>3, <1>4, <1>5 DEF QueryNext

-----------------------------------------------------------------------------
(* The stream buffer.  Going up from p and around the end to the offset o: *)
(* the bytes on the way, and the positions.                                *)
Span(p, o) == IF p <= o THEN p .. o - 1 ELSE (p .. Size - 1) \union (0 .. o - 1)
Arc(p, o) == IF p <= o THEN p .. o ELSE (p .. Size) \union (0 .. o)

\* What a command buffer after c reads lies between p and the offset.
Reaches(p, c, o, u) == \A b \in Bytes : u[b] > c => b \in Span(p, o)

Fence == [counter : Nat, position : 0 .. Size]

\* A fence's position lies between the GPU and the offset, and after the fence it stands for.
FenceInv(t, g, o, u, cur, comp) ==
  /\ t \in Seq(Fence)
  /\ g \in 0 .. Size /\ o \in 0 .. Size
  /\ cur \in Nat /\ comp \in Nat
  /\ u \in [Bytes -> Nat] /\ \A b \in Bytes : u[b] <= cur
  /\ Reaches(g, comp, o, u)
  /\ \A i \in 1 .. Len(t) :
       /\ t[i].counter <= cur /\ t[i].position \in Arc(g, o)
       /\ Reaches(t[i].position, t[i].counter, o, u)
  /\ \A i, j \in 1 .. Len(t) : i < j =>
       t[i].counter < t[j].counter /\ t[j].position \in Arc(t[i].position, o)

\* The rounding of Common::AlignUp moves an offset up by less than the alignment.
LEMMA AlignUpFacts ==
  ASSUME NEW v \in Nat, NEW al \in Nat \ {0}
  PROVE  /\ AlignUp(v, al) \in Nat /\ v <= AlignUp(v, al) /\ AlignUp(v, al) < v + al
         /\ v = 0 => AlignUp(v, al) = 0
<1> DEFINE a == v + al - 1
           q == a \div al
           r == a % al
<1>1. a \in Nat /\ q \in Int /\ r \in 0 .. al - 1 /\ a = al * q + r
  BY SMT
<1>2. AlignUp(v, al) = q * al
  BY DEF AlignUp
<1> HIDE DEF q, r
<1>3. q * al = v + al - 1 - r
  BY <1>1, SMT
<1>4. q >= 1 => q * al >= al
  BY <1>1, SMT
<1>5. q <= -1 => q * al <= -al
  BY <1>1, SMT
<1>6. q * al \in Int
  BY <1>1, SMT
<1>7. v = 0 => q * al = 0
  BY <1>1, <1>3, <1>4, <1>5, <1>6, SMT
<1>8. QED
  BY <1>1, <1>2, <1>3, <1>7, SMT

\* Moving the offset up without meeting p keeps what lies between.
LEMMA SpanAdvance ==
  ASSUME NEW p \in 0 .. Size, NEW o \in 0 .. Size, NEW n \in 0 .. Size, o <= n, o < p => n < p
  PROVE  /\ Span(p, o) \subseteq Span(p, n) /\ Arc(p, o) \subseteq Arc(p, n)
         /\ (o .. n - 1) \subseteq Span(p, n)
BY SizeAssumption DEF Span, Arc

\* Going around the end.
LEMMA SpanWrap ==
  ASSUME NEW p \in 0 .. Size, NEW o \in 0 .. Size, 0 < p, p <= o
  PROVE  Span(p, o) \subseteq Span(p, 0) /\ Arc(p, o) \subseteq Arc(p, 0)
BY SizeAssumption DEF Span, Arc

\* A position between g and the offset is met no earlier than g.
LEMMA ArcOrder ==
  ASSUME NEW g \in 0 .. Size, NEW o \in 0 .. Size, NEW p \in Arc(g, o)
  PROVE  /\ p \in 0 .. Size
         /\ o < p => g <= p /\ o < g
         /\ g <= o => g <= p /\ p <= o
BY SizeAssumption DEF Arc

LEMMA ArcEnds ==
  ASSUME NEW g \in 0 .. Size, NEW o \in 0 .. Size
  PROVE  o \in Arc(g, o) /\ g \in Arc(g, o) /\ Span(o, o) = {} /\ Arc(o, o) = {o}
BY SizeAssumption DEF Arc, Span

\* A fence in the sequence.
LEMMA FenceFacts ==
  ASSUME NEW t, NEW g, NEW o, NEW u, NEW cur, NEW comp, FenceInv(t, g, o, u, cur, comp),
         NEW i \in 1 .. Len(t)
  PROVE  /\ Len(t) \in Nat /\ t[i] \in Fence
         /\ t[i].counter \in Nat /\ t[i].position \in 0 .. Size
         /\ t[i] = [counter |-> t[i].counter, position |-> t[i].position]
         /\ t[i].counter <= cur /\ t[i].position \in Arc(g, o)
         /\ Reaches(t[i].position, t[i].counter, o, u)
<1>1. t \in Seq(Fence)
  BY DEF FenceInv
<1>2. Len(t) \in Nat /\ t[i] \in Fence
  BY <1>1, LenProperties, ElementOfSeq
<1>3. QED
  BY <1>2 DEF FenceInv, Fence

\* The offset moves up.
LEMMA FencesAdvance ==
  ASSUME NEW t, NEW g, NEW o, NEW u, NEW cur, NEW comp, FenceInv(t, g, o, u, cur, comp),
         NEW n \in 0 .. Size, o <= n, o < g => n < g
  PROVE  FenceInv(t, g, n, u, cur, comp)
<1>0. g \in 0 .. Size /\ o \in 0 .. Size /\ Size \in Nat
  BY SizeAssumption DEF FenceInv
<1>1. ASSUME NEW p \in Arc(g, o), NEW c, Reaches(p, c, o, u)
      PROVE  p \in Arc(g, n) /\ Reaches(p, c, n, u) /\ Arc(p, o) \subseteq Arc(p, n)
  <2>1. p \in 0 .. Size /\ (o < p => n < p)
    BY <1>0, ArcOrder
  <2>2. Span(p, o) \subseteq Span(p, n) /\ Arc(p, o) \subseteq Arc(p, n)
    BY <1>0, <2>1, SpanAdvance
  <2>3. p \in Arc(g, n)
    BY <1>0, SpanAdvance
  <2>4. QED
    BY <1>1, <2>2, <2>3 DEF Reaches
<1>2. Reaches(g, comp, n, u)
  BY <1>0, <1>1, ArcEnds DEF FenceInv
<1>3. \A i \in 1 .. Len(t) :
        /\ t[i].counter <= cur /\ t[i].position \in Arc(g, n)
        /\ Reaches(t[i].position, t[i].counter, n, u)
        /\ Arc(t[i].position, o) \subseteq Arc(t[i].position, n)
  BY <1>1, FenceFacts
<1>4. QED
  BY <1>0, <1>2, <1>3 DEF FenceInv

\* The offset goes around the end, behind the GPU.
LEMMA FencesWrap ==
  ASSUME NEW t, NEW g, NEW o, NEW u, NEW cur, NEW comp, FenceInv(t, g, o, u, cur, comp),
         0 < g, g <= o
  PROVE  FenceInv(t, g, 0, u, cur, comp)
<1>0. g \in 0 .. Size /\ o \in 0 .. Size /\ Size \in Nat /\ 0 \in 0 .. Size
  BY SizeAssumption DEF FenceInv
<1>1. ASSUME NEW p \in Arc(g, o), NEW c, Reaches(p, c, o, u)
      PROVE  p \in Arc(g, 0) /\ Reaches(p, c, 0, u) /\ Arc(p, o) \subseteq Arc(p, 0)
  <2>1. p \in 0 .. Size /\ 0 < p /\ p <= o
    BY <1>0, ArcOrder
  <2>2. Span(p, o) \subseteq Span(p, 0) /\ Arc(p, o) \subseteq Arc(p, 0)
    BY <1>0, <2>1, SpanWrap
  <2>3. p \in Arc(g, 0)
    BY <1>0, SpanWrap
  <2>4. QED
    BY <1>1, <2>2, <2>3 DEF Reaches
<1>2. Reaches(g, comp, 0, u)
  BY <1>0, <1>1, ArcEnds DEF FenceInv
<1>3. \A i \in 1 .. Len(t) :
        /\ t[i].counter <= cur /\ t[i].position \in Arc(g, 0)
        /\ Reaches(t[i].position, t[i].counter, 0, u)
        /\ Arc(t[i].position, o) \subseteq Arc(t[i].position, 0)
  BY <1>1, FenceFacts
<1>4. QED
  BY <1>0, <1>2, <1>3 DEF FenceInv

\* Fences are completed: the GPU is at the last of them.
LEMMA FencesPass ==
  ASSUME NEW t, NEW g, NEW o, NEW u, NEW cur, NEW comp, FenceInv(t, g, o, u, cur, comp),
         NEW n \in 1 .. Len(t), NEW done \in Nat, comp <= done, t[n].counter <= done
  PROVE  FenceInv(SubSeq(t, n + 1, Len(t)), t[n].position, o, u, cur, done)
<1> DEFINE s == SubSeq(t, n + 1, Len(t))
           p == t[n].position
<1>1. /\ Len(t) \in Nat /\ n \in Nat /\ t[n].counter \in Nat /\ p \in 0 .. Size
      /\ Reaches(p, t[n].counter, o, u)
  <2>1. /\ Len(t) \in Nat /\ t[n].counter \in Nat /\ p \in 0 .. Size
        /\ Reaches(p, t[n].counter, o, u)
    BY FenceFacts
  <2>2. QED
    BY <2>1
<1>2. \A i \in n + 1 .. Len(t) : t[i] \in Fence
  <2> SUFFICES ASSUME NEW i \in n + 1 .. Len(t) PROVE t[i] \in Fence
    OBVIOUS
  <2>1. i \in 1 .. Len(t)
    BY <1>1
  <2>2. QED
    BY <2>1, FenceFacts
<1>3. /\ s \in Seq(Fence) /\ Len(s) = Len(t) - n
      /\ \A i \in 1 .. Len(t) - n : s[i] = t[n + i]
  <2>1. n + 1 \in Int /\ Len(t) \in Int
    BY <1>1
  <2>2. /\ s \in Seq(Fence) /\ Len(s) = IF n + 1 <= Len(t) THEN Len(t) - (n + 1) + 1 ELSE 0
        /\ \A i \in 1 .. Len(t) - (n + 1) + 1 : s[i] = t[(n + 1) + i - 1]
    BY <1>2, <2>1, SubSeqProperties
  <2> HIDE DEF s
  <2>3. QED
    BY <1>1, <2>2
<1>4. Reaches(p, done, o, u)
  <2> SUFFICES ASSUME NEW b \in Bytes, u[b] > done PROVE b \in Span(p, o)
    BY DEF Reaches
  <2>1. u[b] \in Nat
    BY DEF FenceInv
  <2>2. u[b] > t[n].counter
    BY <1>1, <2>1
  <2>3. QED
    BY <1>1, <2>2 DEF Reaches
<1> HIDE DEF s, p
<1>5. ASSUME NEW i \in 1 .. Len(s)
      PROVE  /\ n + i \in 1 .. Len(t) /\ n < n + i /\ s[i] = t[n + i]
             /\ t[n + i].counter <= cur /\ t[n + i].position \in Arc(p, o)
             /\ Reaches(t[n + i].position, t[n + i].counter, o, u)
  <2>1. n + i \in 1 .. Len(t) /\ n < n + i /\ s[i] = t[n + i]
    BY <1>1, <1>3
  <2>2. t[n + i].counter <= cur /\ Reaches(t[n + i].position, t[n + i].counter, o, u)
    BY <2>1, FenceFacts
  <2>3. t[n + i].position \in Arc(p, o)
    BY <2>1 DEF FenceInv, p
  <2>4. QED
    BY <2>1, <2>2, <2>3
<1>6. ASSUME NEW i \in 1 .. Len(s), NEW j \in 1 .. Len(s), i < j
      PROVE  s[i].counter < s[j].counter /\ s[j].position \in Arc(s[i].position, o)
  <2>1. /\ n + i \in 1 .. Len(t) /\ n + j \in 1 .. Len(t) /\ n + i < n + j
        /\ s[i] = t[n + i] /\ s[j] = t[n + j]
    BY <1>1, <1>3, <1>5, <1>6
  <2>2. QED
    BY <2>1 DEF FenceInv
<1>7. FenceInv(s, p, o, u, cur, done)
  BY <1>1, <1>3, <1>4, <1>5, <1>6 DEF FenceInv, p
<1>8. QED
  BY <1>7 DEF s, p

\* Forgetting the last fence.
LEMMA FencesFront ==
  ASSUME NEW t, NEW g, NEW o, NEW u, NEW cur, NEW comp, FenceInv(t, g, o, u, cur, comp),
         t # <<>>
  PROVE  /\ Len(t) \in Nat \ {0} /\ FenceInv(Front(t), g, o, u, cur, comp)
         /\ \A i \in 1 .. Len(Front(t)) : Front(t)[i].counter < t[Len(t)].counter
<1> DEFINE s == SubSeq(t, 1, Len(t) - 1)
<1>1. t \in Seq(Fence) /\ Len(t) \in Nat \ {0}
  BY EmptySeq DEF FenceInv
<1>2. \A i \in 1 .. Len(t) - 1 : t[i] \in Fence
  BY <1>1, FenceFacts
<1>3. /\ s \in Seq(Fence) /\ Len(s) = Len(t) - 1
      /\ \A i \in 1 .. Len(t) - 1 : s[i] = t[i]
  <2> DEFINE k == Len(t) - 1
  <2>1. 1 \in Int /\ k \in Nat /\ \A i \in 1 .. k : t[i] \in Fence
    BY <1>1, <1>2
  <2> HIDE DEF k
  <2>2. /\ SubSeq(t, 1, k) \in Seq(Fence)
        /\ Len(SubSeq(t, 1, k)) = IF 1 <= k THEN k - 1 + 1 ELSE 0
        /\ \A i \in 1 .. k - 1 + 1 : SubSeq(t, 1, k)[i] = t[1 + i - 1]
    BY <2>1, SubSeqProperties
  <2>3. (IF 1 <= k THEN k - 1 + 1 ELSE 0) = k /\ k - 1 + 1 = k /\ \A i \in 1 .. k : 1 + i - 1 = i
    BY <2>1
  <2>4. Len(SubSeq(t, 1, k)) = k /\ \A i \in 1 .. k : SubSeq(t, 1, k)[i] = t[i]
    BY <2>2, <2>3, Zenon
  <2>5. QED
    BY <2>2, <2>4 DEF k
<1> HIDE DEF s
<1>4. ASSUME NEW i \in 1 .. Len(s)
      PROVE  i \in 1 .. Len(t) /\ i < Len(t) /\ Len(t) \in 1 .. Len(t) /\ s[i] = t[i]
  BY <1>1, <1>3
<1>5. FenceInv(s, g, o, u, cur, comp)
  BY <1>1, <1>3, <1>4 DEF FenceInv
<1>6. \A i \in 1 .. Len(s) : s[i].counter < t[Len(t)].counter
  BY <1>4 DEF FenceInv
<1>7. QED
  BY <1>1, <1>5, <1>6 DEF s, Front

\* The fence of the command buffer being recorded.
LEMMA FencesAppend ==
  ASSUME NEW t, NEW g, NEW o, NEW u, NEW cur, NEW comp, FenceInv(t, g, o, u, cur, comp),
         \A i \in 1 .. Len(t) : t[i].counter < cur
  PROVE  LET s == Append(t, [counter |-> cur, position |-> o])
         IN  /\ FenceInv(s, g, o, u, cur, comp) /\ Len(s) = Len(t) + 1 /\ Len(t) \in Nat
             /\ s[Len(t) + 1] = [counter |-> cur, position |-> o]
             /\ \A i \in 1 .. Len(t) : s[i] = t[i]
<1> DEFINE e == [counter |-> cur, position |-> o]
           s == Append(t, e)
<1>1. t \in Seq(Fence) /\ Len(t) \in Nat /\ e \in Fence /\ g \in 0 .. Size /\ o \in 0 .. Size
      /\ cur \in Nat
  BY LenProperties DEF FenceInv, Fence
<1>2. /\ s \in Seq(Fence) /\ Len(s) = Len(t) + 1
      /\ \A i \in 1 .. Len(t) : s[i] = t[i]
      /\ s[Len(t) + 1] = e
  <2> HIDE DEF e
  <2>1. QED BY <1>1, AppendProperties
<1>3. e.counter = cur /\ e.position = o
  OBVIOUS
<1> HIDE DEF e, s
<1>4. Reaches(o, cur, o, u)
  <2> SUFFICES ASSUME NEW b \in Bytes, u[b] > cur PROVE FALSE
    BY DEF Reaches
  <2>1. u[b] \in Nat /\ u[b] <= cur
    BY DEF FenceInv
  <2>2. QED
    BY <1>1, <2>1
<1>5. o \in Arc(g, o)
  BY <1>1, ArcEnds
<1>6. ASSUME NEW i \in 1 .. Len(s)
      PROVE  \/ i \in 1 .. Len(t) /\ s[i] = t[i]
             \/ i = Len(t) + 1 /\ s[i] = e
  BY <1>1, <1>2
<1>7. ASSUME NEW i \in 1 .. Len(s)
      PROVE  /\ s[i].counter <= cur /\ s[i].position \in Arc(g, o)
             /\ Reaches(s[i].position, s[i].counter, o, u)
  <2>1. CASE i \in 1 .. Len(t) /\ s[i] = t[i]
    BY <2>1, FenceFacts
  <2>2. CASE i = Len(t) + 1 /\ s[i] = e
    BY <1>1, <1>3, <1>4, <1>5, <2>2
  <2>3. QED
    BY <1>6, <2>1, <2>2
<1>8. ASSUME NEW i \in 1 .. Len(s), NEW j \in 1 .. Len(s), i < j
      PROVE  s[i].counter < s[j].counter /\ s[j].position \in Arc(s[i].position, o)
  <2>1. i \in 1 .. Len(t) /\ s[i] = t[i]
    BY <1>1, <1>2, <1>8
  <2>2. CASE j \in 1 .. Len(t)
    <3>1. s[j] = t[j]
      BY <1>2, <2>2
    <3>2. QED
      BY <1>8, <2>1, <2>2, <3>1 DEF FenceInv
  <2>3. CASE j = Len(t) + 1
    <3>1. s[j] = e /\ t[i].position \in 0 .. Size
      BY <1>2, <2>1, <2>3, FenceFacts
    <3>2. o \in Arc(t[i].position, o)
      BY <1>1, <3>1, ArcEnds
    <3>3. QED
      BY <1>3, <2>1, <3>1, <3>2
  <2>4. QED
    BY <1>6, <2>2, <2>3
<1>9. FenceInv(s, g, o, u, cur, comp)
  BY <1>2, <1>7, <1>8 DEF FenceInv
<1>10. QED
  BY <1>1, <1>2, <1>9 DEF e, s

\* Nothing lies between: the whole buffer is given back.
LEMMA FencesReset ==
  ASSUME NEW t, NEW o, NEW u, NEW cur, NEW comp, FenceInv(t, o, o, u, cur, comp)
  PROVE  FenceInv(<<>>, 0, 0, u, cur, comp)
<1>1. o \in 0 .. Size /\ 0 \in 0 .. Size
  BY SizeAssumption DEF FenceInv
<1>2. Span(o, o) = {}
  BY <1>1, ArcEnds
<1>3. Reaches(0, comp, 0, u)
  BY <1>2 DEF FenceInv, Reaches
<1>4. <<>> \in Seq(Fence) /\ Len(<<>>) = 0
  BY EmptySeq
<1>5. QED
  BY <1>1, <1>3, <1>4 DEF FenceInv

\* The clock moves on.
LEMMA FencesTime ==
  ASSUME NEW t, NEW g, NEW o, NEW u, NEW cur, NEW comp, FenceInv(t, g, o, u, cur, comp),
         NEW cur2 \in Nat, NEW comp2 \in Nat, cur <= cur2, comp <= comp2
  PROVE  FenceInv(t, g, o, u, cur2, comp2)
<1>1. \A b \in Bytes : u[b] \in Nat /\ u[b] <= cur2
  BY DEF FenceInv
<1>2. Reaches(g, comp2, o, u)
  <2> SUFFICES ASSUME NEW b \in Bytes, u[b] > comp2 PROVE b \in Span(g, o)
    BY DEF Reaches
  <2>1. u[b] > comp
    BY <1>1 DEF FenceInv
  <2>2. QED
    BY <2>1 DEF FenceInv, Reaches
<1>3. \A i \in 1 .. Len(t) : t[i].counter <= cur2
  <2> SUFFICES ASSUME NEW i \in 1 .. Len(t) PROVE t[i].counter <= cur2
    OBVIOUS
  <2>1. t[i].counter \in Nat /\ t[i].counter <= cur /\ cur \in Nat
    BY FenceFacts DEF FenceInv
  <2>2. QED
    BY <2>1
<1>4. QED
  BY <1>1, <1>2, <1>3 DEF FenceInv

\* What is committed is given to the command buffer being recorded.
LEMMA FencesCommit ==
  ASSUME NEW t, NEW g, NEW o, NEW u, NEW cur, NEW comp, FenceInv(t, g, o, u, cur, comp),
         NEW n \in 0 .. Size, o <= n, o < g => n < g, NEW w,
         w = [b \in Bytes |-> IF o <= b /\ b < n THEN cur ELSE u[b]]
  PROVE  FenceInv(t, g, n, w, cur, comp)
<1>1. FenceInv(t, g, n, u, cur, comp) /\ g \in 0 .. Size /\ o \in 0 .. Size /\ Size \in Nat
  BY FencesAdvance, SizeAssumption DEF FenceInv
<1>2. w \in [Bytes -> Nat] /\ \A b \in Bytes : w[b] <= cur
  BY <1>1 DEF FenceInv
<1>3. ASSUME NEW p \in Arc(g, o), NEW c, Reaches(p, c, n, u)
      PROVE  Reaches(p, c, n, w)
  <2>1. p \in 0 .. Size /\ (o < p => n < p)
    BY <1>1, ArcOrder
  <2>2. (o .. n - 1) \subseteq Span(p, n)
    BY <1>1, <2>1, SpanAdvance
  <2>3. ASSUME NEW b \in Bytes, w[b] > c
        PROVE  b \in Span(p, n)
    <3>1. CASE o <= b /\ b < n
      BY <1>1, <2>2, <3>1 DEF Bytes
    <3>2. CASE ~(o <= b /\ b < n)
      BY <1>3, <2>3, <3>2 DEF Reaches
    <3>3. QED
      BY <3>1, <3>2
  <2>4. QED
    BY <2>3 DEF Reaches
<1>4. Reaches(g, comp, n, w)
  BY <1>1, <1>3, ArcEnds DEF FenceInv
<1>5. \A i \in 1 .. Len(t) : Reaches(t[i].position, t[i].counter, n, w)
  BY <1>1, <1>3, FenceFacts
<1>6. QED
  BY <1>1, <1>2, <1>4, <1>5 DEF FenceInv

-----------------------------------------------------------------------------
\* A reservation stays inside the buffer and behind the GPU.
RoomIsLeft ==
  /\ offset + lastSize <= Size
  /\ offset < gpuPosition => offset + lastSize < gpuPosition

\* Between the two attempts the last fence stands at the offset, and is not completed.
LastFenceIs(c) ==
  /\ tracked # <<>>
  /\ tracked[Len(tracked)] = [counter |-> c, position |-> offset]

StreamInv ==
  /\ ClockInv
  /\ FenceInv(tracked, gpuPosition, offset, usedBy, current, completed)
  /\ tracked = <<>> /\ offset = gpuPosition => offset = 0
  /\ lastSize \in Nat
  /\ caller.pc \in {"ready", "reserved", "retry", "again"}
  /\ caller = [pc |-> caller.pc, request |-> caller.request]
  /\ caller.pc = "reserved" => RoomIsLeft
  /\ caller.pc \in {"retry", "again"} => caller.request \in Requests
  /\ caller.pc = "retry" => LastFenceIs(current)
  /\ caller.pc = "again" => LastFenceIs(current - 1) /\ completed < current - 1

\* The fences that UpdateGPUPosition drops.
LEMMA PassedFacts ==
  ASSUME NEW g, NEW o, NEW u, FenceInv(tracked, g, o, u, current, completed)
  PROVE  /\ Len(tracked) \in Nat /\ Passed \in 0 .. Len(tracked)
         /\ \A i \in 1 .. Passed : tracked[i].counter <= completed
<1> DEFINE P(n) == /\ \A i \in 1 .. n : tracked[i].counter <= completed
                   /\ n < Len(tracked) => tracked[n + 1].counter > completed
           T == {n \in 0 .. Len(tracked) : n = Len(tracked) \/ ~(tracked[n + 1].counter <= completed)}
<1>1. Len(tracked) \in Nat /\ T \in SUBSET Nat /\ T # {} /\ completed \in Nat
  <2>1. Len(tracked) \in Nat /\ completed \in Nat
    BY LenProperties DEF FenceInv
  <2>2. Len(tracked) \in T
    BY <2>1
  <2>3. QED
    BY <2>1, <2>2
<1>2. PICK m \in T : \A y \in T : m <= y
  <2> HIDE DEF T
  <2>1. QED BY <1>1, Least
<1>3. m \in 0 .. Len(tracked)
  OBVIOUS
<1>4. ASSUME NEW i \in 1 .. m PROVE tracked[i].counter <= completed
  <2>1. i - 1 \in 0 .. Len(tracked) /\ i - 1 < m /\ i - 1 # Len(tracked) /\ (i - 1) + 1 = i
    BY <1>1, <1>3
  <2>2. i - 1 \notin T
    <3>1. ~(m <= i - 1)
      BY <1>1, <1>3, <2>1
    <3> HIDE DEF T
    <3>2. QED
      BY <1>2, <3>1, Zenon
  <2>3. QED
    BY <2>1, <2>2
<1>5. m < Len(tracked) => tracked[m + 1].counter > completed
  <2> SUFFICES ASSUME m < Len(tracked) PROVE tracked[m + 1].counter > completed
    OBVIOUS
  <2>1. m + 1 \in 1 .. Len(tracked)
    BY <1>1, <1>3
  <2>2. tracked[m + 1].counter \in Nat
    BY <2>1, FenceFacts
  <2>3. ~(tracked[m + 1].counter <= completed)
    BY <1>1, <1>3
  <2>4. QED
    BY <1>1, <2>2, <2>3
<1>6. \E n \in 0 .. Len(tracked) : P(n)
  BY <1>3, <1>4, <1>5
<1>7. Passed = CHOOSE n \in 0 .. Len(tracked) : P(n)
  BY DEF Passed
<1>8. Passed \in 0 .. Len(tracked) /\ P(Passed)
  <2> HIDE DEF P
  <2>1. QED BY <1>6, <1>7
<1>9. QED
  BY <1>1, <1>8

\* UpdateGPUPosition keeps the fences that are not completed, and moves the GPU to the others.
LEMMA KeptFacts ==
  ASSUME NEW o, NEW u, FenceInv(tracked, gpuPosition, o, u, current, completed),
         NEW s, s = SubSeq(tracked, Passed + 1, Len(tracked))
  PROVE  /\ FenceInv(s, GPUPosition, o, u, current, completed)
         /\ Len(tracked) \in Nat /\ Passed \in 0 .. Len(tracked)
         /\ Len(s) = Len(tracked) - Passed
         /\ \A i \in 1 .. Len(s) : Passed + i \in 1 .. Len(tracked) /\ s[i] = tracked[Passed + i]
<1> DEFINE n == Passed
           k == Len(tracked)
<1>1. k \in Nat /\ n \in 0 .. k /\ \A i \in 1 .. n : tracked[i].counter <= completed
  BY PassedFacts
<1>2. tracked \in Seq(Fence) /\ completed \in Nat
  BY DEF FenceInv
<1>3. \A i \in n + 1 .. k : tracked[i] \in Fence
  <2> SUFFICES ASSUME NEW i \in n + 1 .. k PROVE tracked[i] \in Fence
    OBVIOUS
  <2>1. i \in 1 .. k
    BY <1>1
  <2>2. QED
    BY <2>1, FenceFacts
<1>4. /\ SubSeq(tracked, n + 1, k) \in Seq(Fence)
      /\ Len(SubSeq(tracked, n + 1, k)) = k - n
      /\ \A i \in 1 .. k - n : SubSeq(tracked, n + 1, k)[i] = tracked[n + i]
  <2> HIDE DEF n, k
  <2>1. n + 1 \in Int /\ k \in Int /\ n \in Nat /\ k \in Nat /\ n <= k
    BY <1>1
  <2>2. /\ SubSeq(tracked, n + 1, k) \in Seq(Fence)
        /\ Len(SubSeq(tracked, n + 1, k)) = IF n + 1 <= k THEN k - (n + 1) + 1 ELSE 0
        /\ \A i \in 1 .. k - (n + 1) + 1 : SubSeq(tracked, n + 1, k)[i] = tracked[(n + 1) + i - 1]
    BY <1>3, <2>1, SubSeqProperties
  <2>3. /\ (IF n + 1 <= k THEN k - (n + 1) + 1 ELSE 0) = k - n /\ k - (n + 1) + 1 = k - n
        /\ \A i \in 1 .. k - n : (n + 1) + i - 1 = n + i
    BY <2>1
  <2>4. QED
    BY <2>2, <2>3, Zenon
<1>5. FenceInv(s, GPUPosition, o, u, current, completed)
  <2>1. CASE n = 0
    <3>1. n + 1 = 1
      BY <2>1
    <3>2. s = tracked
      BY <1>2, <3>1, SubSeqFull
    <3>3. QED
      BY <2>1, <3>2 DEF GPUPosition
  <2>2. CASE n # 0
    <3>1. n \in 1 .. Len(tracked) /\ tracked[n].counter <= completed /\ completed <= completed
      BY <1>1, <1>2, <2>2
    <3>2. GPUPosition = tracked[n].position
      BY <2>2 DEF GPUPosition
    <3> HIDE DEF n
    <3>3. FenceInv(SubSeq(tracked, n + 1, Len(tracked)), tracked[n].position, o, u, current, completed)
      BY <1>2, <3>1, FencesPass
    <3>4. QED
      BY <3>2, <3>3 DEF n
  <2>3. QED
    BY <2>1, <2>2
<1>6. Len(s) = k - n /\ \A i \in 1 .. k - n : s[i] = tracked[n + i]
  BY <1>4
<1>7. \A i \in 1 .. k - n : n + i \in 1 .. k
  <2> HIDE DEF n, k
  <2>1. QED BY <1>1
<1>8. QED
  BY <1>1, <1>5, <1>6, <1>7


\* The parts of ReserveMemory.
Fences == UpdatedFences.tracked
Gpu == UpdatedFences.gpu
Now == [counter |-> current, position |-> offset]
Needed(request) == request[1] + request[2]
Fitting(bytes) == {i \in 1 .. Len(Fences) : ClearSpace(Fences[i].position, bytes) # {}}
FirstFit(bytes) == CHOOSE i \in Fitting(bytes) : \A j \in Fitting(bytes) : i <= j
EarlierFits(bytes) == Fitting(bytes) # {} /\ Fences[FirstFit(bytes)].counter # current

LEMMA UpdatedCases ==
  \/ offset = gpuPosition /\ Fences = tracked /\ Gpu = gpuPosition
  \/ /\ tracked # <<>> /\ tracked[Len(tracked)].counter = current
     /\ Fences = Append(Front(tracked), Now) /\ Gpu = gpuPosition
  \/ /\ ~(tracked # <<>> /\ tracked[Len(tracked)].counter = current)
     /\ Fences = Append(SubSeq(tracked, Passed + 1, Len(tracked)), Now) /\ Gpu = GPUPosition
<1> DEFINE now == [counter |-> current, position |-> offset]
           A == [tracked |-> tracked, gpu |-> gpuPosition]
           B == [tracked |-> Append(Front(tracked), now), gpu |-> gpuPosition]
           C == [tracked |-> Append(SubSeq(tracked, Passed + 1, Len(tracked)), now),
                 gpu |-> GPUPosition]
<1>1. UpdatedFences = IF offset = gpuPosition THEN A
                      ELSE IF tracked # <<>> /\ tracked[Len(tracked)].counter = current THEN B
                      ELSE C
  BY Zenon DEF UpdatedFences, Last
<1>2. /\ A.tracked = tracked /\ A.gpu = gpuPosition
      /\ B.tracked = Append(Front(tracked), now) /\ B.gpu = gpuPosition
      /\ C.tracked = Append(SubSeq(tracked, Passed + 1, Len(tracked)), now) /\ C.gpu = GPUPosition
  OBVIOUS
<1>3. now = Now
  BY DEF Now
<1> HIDE DEF A, B, C, now
<1>4. QED
  BY <1>1, <1>2, <1>3, Zenon DEF Fences, Gpu

\* The fences are in order, so those before one of the current command buffer are of earlier ones.
LEMMA EarlierCounters ==
  ASSUME NEW t, NEW g, NEW o, NEW u, NEW cur, NEW comp, FenceInv(t, g, o, u, cur, comp),
         ~(t # <<>> /\ t[Len(t)].counter = cur)
  PROVE  \A i \in 1 .. Len(t) : t[i].counter < cur
<1> SUFFICES ASSUME NEW i \in 1 .. Len(t) PROVE t[i].counter < cur
  OBVIOUS
<1>1. /\ t \in Seq(Fence) /\ Len(t) \in Nat /\ cur \in Nat
      /\ t[i].counter \in Nat /\ t[i].counter <= cur
  BY FenceFacts DEF FenceInv
<1>2. t # <<>> /\ Len(t) \in 1 .. Len(t)
  BY <1>1, EmptySeq
<1>3. t[Len(t)].counter \in Nat /\ t[Len(t)].counter <= cur /\ t[Len(t)].counter # cur
  BY <1>2, FenceFacts
<1>4. i < Len(t) => t[i].counter < t[Len(t)].counter
  BY <1>2 DEF FenceInv
<1>5. i < Len(t) \/ i = Len(t)
  BY <1>1
<1>6. QED
  BY <1>1, <1>3, <1>4, <1>5

\* UpdateCurrentFencePosition: unless the GPU has caught up, the last fence is the current
\* command buffer's and stands at the offset; the one before is the one that was executed.
LEMMA UpdatedFacts ==
  ASSUME StreamInv
  PROVE  /\ FenceInv(Fences, Gpu, offset, usedBy, current, completed)
         /\ Len(Fences) \in Nat
         /\ \/ Fences = tracked /\ Gpu = gpuPosition /\ offset = gpuPosition
            \/ /\ Len(Fences) # 0 /\ Fences[Len(Fences)] = Now
               /\ caller.pc = "again" =>
                    /\ Len(Fences) - 1 \in 1 .. Len(Fences)
                    /\ Fences[Len(Fences) - 1] = [counter |-> current - 1, position |-> offset]
<1>0. /\ FenceInv(tracked, gpuPosition, offset, usedBy, current, completed)
      /\ tracked \in Seq(Fence) /\ current \in Nat /\ completed \in Nat
  BY DEF StreamInv, FenceInv
<1>1. CASE offset = gpuPosition /\ Fences = tracked /\ Gpu = gpuPosition
  <2>1. Len(tracked) \in Nat
    BY <1>0, LenProperties
  <2>2. QED
    BY <1>0, <1>1, <2>1
<1>2. CASE /\ tracked # <<>> /\ tracked[Len(tracked)].counter = current
           /\ Fences = Append(Front(tracked), Now) /\ Gpu = gpuPosition
  <2>1. /\ FenceInv(Front(tracked), gpuPosition, offset, usedBy, current, completed)
        /\ \A i \in 1 .. Len(Front(tracked)) : Front(tracked)[i].counter < current
    BY <1>0, <1>2, FencesFront
  <2>2. /\ FenceInv(Fences, gpuPosition, offset, usedBy, current, completed)
        /\ Len(Fences) = Len(Front(tracked)) + 1 /\ Len(Front(tracked)) \in Nat
        /\ Fences[Len(Front(tracked)) + 1] = Now
    BY <1>2, <2>1, FencesAppend DEF Now
  <2>3. caller.pc # "again"
    <3> SUFFICES ASSUME caller.pc = "again" PROVE FALSE
      OBVIOUS
    <3>1. tracked[Len(tracked)] = [counter |-> current - 1, position |-> offset]
      BY DEF StreamInv, LastFenceIs
    <3>2. tracked[Len(tracked)].counter = current - 1
      BY <3>1
    <3>3. QED
      BY <1>0, <1>2, <3>2
  <2>4. Len(Fences) \in Nat /\ Len(Fences) # 0
    BY <2>2
  <2>5. QED
    BY <1>2, <2>2, <2>3, <2>4
<1>3. CASE /\ ~(tracked # <<>> /\ tracked[Len(tracked)].counter = current)
           /\ Fences = Append(SubSeq(tracked, Passed + 1, Len(tracked)), Now)
           /\ Gpu = GPUPosition
  <2> DEFINE s == SubSeq(tracked, Passed + 1, Len(tracked))
  <2>1. /\ FenceInv(s, Gpu, offset, usedBy, current, completed)
        /\ Len(tracked) \in Nat /\ Passed \in 0 .. Len(tracked)
        /\ Len(s) = Len(tracked) - Passed
        /\ \A i \in 1 .. Len(s) : Passed + i \in 1 .. Len(tracked) /\ s[i] = tracked[Passed + i]
    BY <1>0, <1>3, KeptFacts
  <2>2. \A i \in 1 .. Len(tracked) : tracked[i].counter < current
    BY <1>0, <1>3, EarlierCounters
  <2> HIDE DEF s
  <2>3. \A i \in 1 .. Len(s) : s[i].counter < current
    BY <2>1, <2>2
  <2>4. /\ FenceInv(Append(s, Now), Gpu, offset, usedBy, current, completed)
        /\ Len(Append(s, Now)) = Len(s) + 1 /\ Len(s) \in Nat
        /\ Append(s, Now)[Len(s) + 1] = Now
        /\ \A i \in 1 .. Len(s) : Append(s, Now)[i] = s[i]
    BY <2>1, <2>3, FencesAppend DEF Now
  <2>5. Fences = Append(s, Now)
    BY <1>3 DEF s
  <2>6. Len(Fences) \in Nat /\ Len(Fences) # 0 /\ Fences[Len(Fences)] = Now
    BY <2>4, <2>5
  <2>7. ASSUME caller.pc = "again"
        PROVE  /\ Len(Fences) - 1 \in 1 .. Len(Fences)
               /\ Fences[Len(Fences) - 1] = [counter |-> current - 1, position |-> offset]
    <3>1. /\ tracked # <<>> /\ completed < current - 1
          /\ tracked[Len(tracked)] = [counter |-> current - 1, position |-> offset]
      BY <2>7 DEF StreamInv, LastFenceIs
    <3>2. tracked[Len(tracked)].counter = current - 1
      BY <3>1
    <3>3. Passed # Len(tracked)
      <4>1. Len(tracked) \in 1 .. Len(tracked)
        BY <1>0, <2>1, <3>1, EmptySeq
      <4>2. Passed = Len(tracked) => tracked[Len(tracked)].counter <= completed
        BY <1>0, <4>1, PassedFacts
      <4>3. QED
        BY <1>0, <3>1, <3>2, <4>2
    <3>4. Len(s) \in 1 .. Len(s) /\ Passed + Len(s) = Len(tracked)
      BY <2>1, <3>3
    <3>5. s[Len(s)] = tracked[Len(tracked)]
      BY <2>1, <3>4
    <3>6. Fences[Len(s)] = s[Len(s)] /\ Len(Fences) - 1 = Len(s) /\ Len(s) \in 1 .. Len(Fences)
      BY <2>4, <2>5, <3>4
    <3>7. QED
      BY <3>1, <3>5, <3>6
  <2>8. QED
    BY <2>1, <2>4, <2>5, <2>6, <2>7
<1>4. QED
  BY <1>1, <1>2, <1>3, UpdatedCases

LEMMA FirstFacts ==
  ASSUME NEW bytes, Fitting(bytes) # {}, Len(Fences) \in Nat
  PROVE  /\ FirstFit(bytes) \in Fitting(bytes) /\ FirstFit(bytes) \in 1 .. Len(Fences)
         /\ \A j \in Fitting(bytes) : FirstFit(bytes) <= j
<1>1. Fitting(bytes) \in SUBSET (1 .. Len(Fences)) /\ Fitting(bytes) \in SUBSET Nat
  BY DEF Fitting
<1>2. \E i \in Fitting(bytes) : \A j \in Fitting(bytes) : i <= j
  BY <1>1, Least
<1>3. FirstFit(bytes) \in Fitting(bytes) /\ \A j \in Fitting(bytes) : FirstFit(bytes) <= j
  BY <1>2 DEF FirstFit
<1>4. QED
  BY <1>1, <1>3

LEMMA ClearFacts ==
  ASSUME NEW p, NEW n, NEW space \in ClearSpace(p, n)
  PROVE  \/ offset = p /\ space = <<0, 0>>
         \/ offset > p /\ Size - offset >= n /\ space = <<offset, p>>
         \/ offset > p /\ p > n /\ space = <<0, p>>
         \/ ~(offset > p) /\ offset # p /\ p - offset > n /\ space = <<offset, p>>
BY Zenon DEF ClearSpace

LEMMA FreeFacts ==
  ASSUME NEW g, NEW n, NEW al, NEW o \in FreeSpace(g, n, al)
  PROVE  \/ offset >= g /\ n <= Size - offset /\ o = AlignUp(offset, al)
         \/ offset >= g /\ n < g /\ o = 0
         \/ ~(offset >= g) /\ n < g - offset /\ o = AlignUp(offset, al)
BY Zenon DEF FreeSpace

\* The three ways ReserveMemory ends.
ReserveNow(request) ==
  \E o \in FreeSpace(Gpu, Needed(request), request[2]) :
    /\ offset' = o /\ lastSize' = request[1]
    /\ caller' = [pc |-> "reserved", request |-> request]
    /\ gpuPosition' = Gpu /\ tracked' = Fences
    /\ UNCHANGED clockVars

ReserveAfterWait(request) ==
  LET fence == Fences[FirstFit(Needed(request))]
  IN  /\ EarlierFits(Needed(request))
      /\ \/ WaitForFenceCounter(fence.counter)
         \/ fence.counter <= completed /\ UNCHANGED clockVars
      /\ \E space \in ClearSpace(fence.position, Needed(request)) :
           /\ offset' = AlignUp(space[1], request[2]) /\ lastSize' = request[1]
           /\ caller' = [pc |-> "reserved", request |-> request]
           /\ gpuPosition' = space[2]
      /\ tracked' = IF fence.position = offset THEN <<>>
                    ELSE SubSeq(Fences, FirstFit(Needed(request)) + 1, Len(Fences))

ReserveFails(request, fail) ==
  /\ FreeSpace(Gpu, Needed(request), request[2]) = {}
  /\ ~EarlierFits(Needed(request))
  /\ caller' = [pc |-> fail, request |-> request]
  /\ gpuPosition' = Gpu /\ tracked' = Fences
  /\ UNCHANGED <<offset, lastSize, clockVars>>

LEMMA ReserveCases ==
  ASSUME NEW request, NEW fail, ReserveMemory(request, fail)
  PROVE  ReserveNow(request) \/ ReserveAfterWait(request) \/ ReserveFails(request, fail)
BY Zenon DEF ReserveMemory, ReserveNow, ReserveAfterWait, ReserveFails, Fences, Gpu, Needed, Fitting,
   FirstFit, EarlierFits

LEMMA RequestFacts ==
  ASSUME NEW request \in Requests
  PROVE  /\ request[1] \in Nat /\ request[2] \in Nat \ {0} /\ Needed(request) \in Nat
         /\ Needed(request) = request[1] + request[2] /\ Needed(request) <= Size
BY SizeAssumption DEF Needed

LEMMA NoFences ==
  ASSUME StreamInv, Fences = <<>>
  PROVE  offset = Gpu /\ offset = 0
<1>1. Len(Fences) = 0
  BY EmptySeq
<1>2. Fences = tracked /\ Gpu = gpuPosition /\ offset = gpuPosition
  BY <1>1, UpdatedFacts
<1>3. QED
  BY <1>2 DEF StreamInv

\* Where the arithmetic of a reservation leaves room.
LEMMA RoomAhead ==
  ASSUME NEW o \in 0 .. Size, NEW g \in 0 .. Size, NEW r1 \in Nat, NEW al \in Nat \ {0},
         NEW a, a = AlignUp(o, al),
         \/ g <= o /\ r1 + al <= Size - o
         \/ o < g /\ r1 + al < g - o
  PROVE  /\ a \in 0 .. Size /\ o <= a /\ (o < g => a < g)
         /\ a + r1 <= Size /\ (a < g => a + r1 < g)
         /\ (a = g => o = g)
<1>1. a \in Nat /\ o <= a /\ a < o + al
  BY SizeAssumption, AlignUpFacts
<1>2. QED
  BY <1>1, SizeAssumption

LEMMA ReservedKeeps ==
  ASSUME ClockInv', FenceInv(tracked', gpuPosition', offset', usedBy', current', completed'),
         tracked' = <<>> /\ offset' = gpuPosition' => offset' = 0,
         lastSize' \in Nat, NEW request, caller' = [pc |-> "reserved", request |-> request],
         RoomIsLeft'
  PROVE  StreamInv'
<1>1. caller'.pc = "reserved" /\ caller'.request = request
  OBVIOUS
<1>2. QED
  BY <1>1 DEF StreamInv

LEMMA ReserveNowKeeps ==
  ASSUME StreamInv, NEW request \in Requests, ReserveNow(request), UNCHANGED usedBy
  PROVE  StreamInv'
<1>1. PICK o \in FreeSpace(Gpu, Needed(request), request[2]) :
        /\ offset' = o /\ lastSize' = request[1]
        /\ caller' = [pc |-> "reserved", request |-> request]
        /\ gpuPosition' = Gpu /\ tracked' = Fences
        /\ UNCHANGED clockVars
  BY DEF ReserveNow
<1> DEFINE r1 == request[1]
           al == request[2]
<1>2. r1 \in Nat /\ al \in Nat \ {0} /\ Needed(request) = r1 + al /\ r1 + al <= Size
  BY RequestFacts
<1>3. FenceInv(Fences, Gpu, offset, usedBy, current, completed) /\ ClockInv
  BY UpdatedFacts DEF StreamInv
<1>4. offset \in 0 .. Size /\ Gpu \in 0 .. Size /\ Size \in Nat
  BY <1>3, SizeAssumption DEF FenceInv
<1>5. \/ offset >= Gpu /\ r1 + al <= Size - offset /\ o = AlignUp(offset, al)
      \/ offset >= Gpu /\ r1 + al < Gpu /\ o = 0
      \/ ~(offset >= Gpu) /\ r1 + al < Gpu - offset /\ o = AlignUp(offset, al)
  BY <1>2, FreeFacts
<1> HIDE DEF r1, al
<1>6. /\ FenceInv(Fences, Gpu, o, usedBy, current, completed)
      /\ o + r1 <= Size /\ (o < Gpu => o + r1 < Gpu) /\ (Fences = <<>> /\ o = Gpu => o = 0)
  <2>1. CASE \/ offset >= Gpu /\ r1 + al <= Size - offset /\ o = AlignUp(offset, al)
             \/ ~(offset >= Gpu) /\ r1 + al < Gpu - offset /\ o = AlignUp(offset, al)
    <3>1. /\ o = AlignUp(offset, al)
          /\ \/ Gpu <= offset /\ r1 + al <= Size - offset
             \/ offset < Gpu /\ r1 + al < Gpu - offset
      BY <1>4, <2>1
    <3>2. /\ o \in 0 .. Size /\ offset <= o /\ (offset < Gpu => o < Gpu)
          /\ o + r1 <= Size /\ (o < Gpu => o + r1 < Gpu)
      BY <1>2, <1>4, <3>1, RoomAhead
    <3>3. FenceInv(Fences, Gpu, o, usedBy, current, completed)
      BY <1>3, <3>2, FencesAdvance
    <3>4. Fences = <<>> => o = 0
      <4>1. offset = 0 => o = 0
        BY <1>2, <3>1, AlignUpFacts
      <4>2. QED
        BY <4>1, NoFences
    <3>5. QED
      BY <3>2, <3>3, <3>4
  <2>2. CASE offset >= Gpu /\ r1 + al < Gpu /\ o = 0
    <3>1. 0 < Gpu /\ Gpu <= offset /\ 0 + r1 <= Size /\ 0 + r1 < Gpu
      BY <1>2, <1>4, <2>2
    <3>2. FenceInv(Fences, Gpu, 0, usedBy, current, completed)
      BY <1>3, <3>1, FencesWrap
    <3>3. QED
      BY <2>2, <3>1, <3>2
  <2>3. QED
    BY <1>5, <2>1, <2>2
<1>7. ClockInv' /\ current' = current /\ completed' = completed
  BY <1>1, <1>3 DEF clockVars, ClockInv
<1>8. FenceInv(tracked', gpuPosition', offset', usedBy', current', completed')
  BY <1>1, <1>6, <1>7
<1>9. RoomIsLeft'
  BY <1>1, <1>6 DEF RoomIsLeft, r1
<1>10. lastSize' \in Nat /\ (tracked' = <<>> /\ offset' = gpuPosition' => offset' = 0)
  BY <1>1, <1>2, <1>6 DEF r1
<1>11. QED
  BY <1>1, <1>7, <1>8, <1>9, <1>10, ReservedKeeps

LEMMA ReserveAfterWaitKeeps ==
  ASSUME StreamInv, NEW request \in Requests, ReserveAfterWait(request), UNCHANGED usedBy
  PROVE  StreamInv'
<1> DEFINE r1 == request[1]
           al == request[2]
           n == FirstFit(Needed(request))
           p == Fences[n].position
           c == Fences[n].counter
           done == completed'
           s == SubSeq(Fences, n + 1, Len(Fences))
<1>1. r1 \in Nat /\ al \in Nat \ {0} /\ Needed(request) = r1 + al /\ r1 + al <= Size
  BY RequestFacts
<1>2. FenceInv(Fences, Gpu, offset, usedBy, current, completed) /\ ClockInv /\ Len(Fences) \in Nat
  BY UpdatedFacts DEF StreamInv
<1>3. n \in 1 .. Len(Fences)
  BY <1>2, FirstFacts DEF ReserveAfterWait, EarlierFits
<1>4. c \in Nat /\ p \in 0 .. Size /\ offset \in 0 .. Size /\ Size \in Nat
  BY <1>2, <1>3, FenceFacts, SizeAssumption DEF FenceInv
<1>5. WaitForFenceCounter(c) \/ (c <= completed /\ UNCHANGED clockVars)
  BY DEF ReserveAfterWait
<1> HIDE DEF c
<1>6. ClockInv' /\ current' = current /\ done \in Nat /\ completed <= done /\ c <= done
  <2>1. CASE WaitForFenceCounter(c)
    BY <1>2, <1>4, <2>1 DEF WaitForFenceCounter, ClockInv
  <2>2. CASE c <= completed /\ UNCHANGED clockVars
    BY <1>2, <1>4, <2>2 DEF clockVars, ClockInv
  <2>3. QED
    BY <1>5, <2>1, <2>2
<1>7. PICK space \in ClearSpace(p, Needed(request)) :
        /\ offset' = AlignUp(space[1], al) /\ lastSize' = r1
        /\ caller' = [pc |-> "reserved", request |-> request]
        /\ gpuPosition' = space[2]
  BY DEF ReserveAfterWait
<1>8. tracked' = IF p = offset THEN <<>> ELSE s
  BY DEF ReserveAfterWait
<1> HIDE DEF done, r1, al
<1>9. FenceInv(s, p, offset, usedBy, current, done)
  <2> HIDE DEF n
  <2>1. QED
    BY <1>2, <1>3, <1>6, FencesPass DEF c
<1> HIDE DEF p, s, n
<1>10. \/ offset = p /\ space = <<0, 0>>
       \/ offset > p /\ Size - offset >= r1 + al /\ space = <<offset, p>>
       \/ offset > p /\ p > r1 + al /\ space = <<0, p>>
       \/ ~(offset > p) /\ offset # p /\ p - offset > r1 + al /\ space = <<offset, p>>
  BY <1>1, <1>7, ClearFacts
<1> DEFINE o == AlignUp(space[1], al)
           g == space[2]
<1>11. /\ FenceInv(tracked', g, o, usedBy, current, done)
       /\ o + r1 <= Size /\ (o < g => o + r1 < g) /\ (tracked' = <<>> /\ o = g => o = 0)
  <2>0. AlignUp(0, al) = 0
    BY <1>1, AlignUpFacts
  <2>1. CASE offset = p /\ space = <<0, 0>>
    <3>1. o = 0 /\ g = 0 /\ tracked' = <<>>
      BY <1>8, <2>0, <2>1
    <3>2. FenceInv(<<>>, 0, 0, usedBy, current, done)
      BY <1>9, <2>1, FencesReset
    <3> HIDE DEF o, g
    <3>3. QED
      BY <1>1, <1>4, <3>1, <3>2
  <2>2. CASE \/ offset > p /\ Size - offset >= r1 + al /\ space = <<offset, p>>
             \/ ~(offset > p) /\ offset # p /\ p - offset > r1 + al /\ space = <<offset, p>>
    <3>1. /\ o = AlignUp(offset, al) /\ g = p /\ tracked' = s /\ offset # p
          /\ \/ p <= offset /\ r1 + al <= Size - offset
             \/ offset < p /\ r1 + al < p - offset
      BY <1>1, <1>4, <1>8, <2>2
    <3> HIDE DEF o, g
    <3>2. /\ o \in 0 .. Size /\ offset <= o /\ (offset < p => o < p)
          /\ o + r1 <= Size /\ (o < p => o + r1 < p) /\ o # p
      BY <1>1, <1>4, <3>1, RoomAhead
    <3>3. FenceInv(s, p, o, usedBy, current, done)
      BY <1>9, <3>2, FencesAdvance
    <3>4. QED
      BY <3>1, <3>2, <3>3
  <2>3. CASE offset > p /\ p > r1 + al /\ space = <<0, p>>
    <3>1. /\ o = 0 /\ g = p /\ tracked' = s
          /\ 0 < p /\ p <= offset /\ 0 + r1 <= Size /\ 0 + r1 < p
      BY <1>1, <1>4, <1>8, <2>0, <2>3
    <3> HIDE DEF o, g
    <3>2. FenceInv(s, p, 0, usedBy, current, done)
      BY <1>9, <3>1, FencesWrap
    <3>3. QED
      BY <3>1, <3>2
  <2>4. QED
    BY <1>10, <2>1, <2>2, <2>3
<1>12. offset' = o /\ gpuPosition' = g /\ lastSize' = r1
  BY <1>7
<1> HIDE DEF o, g
<1>13. FenceInv(tracked', gpuPosition', offset', usedBy', current', completed')
  BY <1>6, <1>11, <1>12 DEF done
<1>14. RoomIsLeft'
  BY <1>11, <1>12 DEF RoomIsLeft
<1>15. lastSize' \in Nat /\ (tracked' = <<>> /\ offset' = gpuPosition' => offset' = 0)
  BY <1>1, <1>11, <1>12
<1>16. QED
  BY <1>6, <1>7, <1>13, <1>14, <1>15, ReservedKeeps

\* A fence at the offset gives the whole buffer back.
LEMMA OffsetFits ==
  ASSUME NEW bytes, NEW k \in 1 .. Len(Fences), Fences[k].position = offset
  PROVE  k \in Fitting(bytes)
<1>1. ClearSpace(Fences[k].position, bytes) = {<<0, 0>>}
  BY DEF ClearSpace
<1>2. QED
  BY <1>1 DEF Fitting

\* A reservation that fails has left a fence of the current command buffer at the offset.
LEMMA FailureFacts ==
  ASSUME StreamInv, NEW request \in Requests,
         FreeSpace(Gpu, Needed(request), request[2]) = {}, ~EarlierFits(Needed(request))
  PROVE  Fences # <<>> /\ Fences[Len(Fences)] = Now
<1>0. FenceInv(Fences, Gpu, offset, usedBy, current, completed) /\ Len(Fences) \in Nat
      /\ Fences \in Seq(Fence) /\ current \in Nat /\ Size \in Nat /\ offset \in 0 .. Size
  BY UpdatedFacts, SizeAssumption DEF FenceInv
<1>1. Fences # <<>>
  <2> SUFFICES ASSUME Fences = <<>> PROVE FALSE
    OBVIOUS
  <2>1. offset = 0 /\ Gpu = 0
    BY NoFences
  <2>2. offset >= Gpu /\ Needed(request) <= Size - offset
    BY <1>0, <2>1, RequestFacts
  <2>3. FreeSpace(Gpu, Needed(request), request[2]) = {AlignUp(offset, request[2])}
    BY <2>2 DEF FreeSpace
  <2>4. QED
    BY <2>3
<1>2. Len(Fences) \in Nat \ {0}
  BY <1>0, <1>1, EmptySeq
<1>3. CASE Fences = tracked /\ Gpu = gpuPosition /\ offset = gpuPosition
  <2>1. 1 \in 1 .. Len(Fences) /\ Len(Fences) \in 1 .. Len(Fences)
    BY <1>2
  <2>2. /\ Fences[1].position \in Arc(offset, offset) /\ Fences[1].counter \in Nat
        /\ Fences[1] = [counter |-> Fences[1].counter, position |-> Fences[1].position]
    BY <1>0, <1>3, <2>1, FenceFacts
  <2>3. Fences[1].position = offset
    BY <1>0, <2>2, ArcEnds
  <2>4. 1 \in Fitting(Needed(request))
    BY <2>1, <2>3, OffsetFits
  <2>5. FirstFit(Needed(request)) \in 1 .. Len(Fences) /\ FirstFit(Needed(request)) <= 1
    BY <1>0, <2>4, FirstFacts
  <2>6. FirstFit(Needed(request)) = 1
    BY <1>2, <2>5
  <2>7. Fences[1].counter = current
    BY <2>4, <2>6 DEF EarlierFits
  <2>8. Len(Fences) = 1
    <3> SUFFICES ASSUME 1 < Len(Fences) PROVE FALSE
      BY <1>2
    <3>1. /\ Fences[1].counter < Fences[Len(Fences)].counter
          /\ Fences[Len(Fences)].counter \in Nat /\ Fences[Len(Fences)].counter <= current
      BY <1>0, <2>1, FenceFacts DEF FenceInv
    <3>2. QED
      BY <1>0, <2>7, <3>1
  <2>9. QED
    BY <1>1, <2>2, <2>3, <2>7, <2>8 DEF Now
<1>4. CASE ~(Fences = tracked /\ Gpu = gpuPosition /\ offset = gpuPosition)
  BY <1>1, <1>4, UpdatedFacts
<1>5. QED
  BY <1>3, <1>4

LEMMA ReserveFailsKeeps ==
  ASSUME StreamInv, NEW request \in Requests, ReserveFails(request, "retry"), UNCHANGED usedBy
  PROVE  StreamInv'
<1>1. /\ caller' = [pc |-> "retry", request |-> request]
      /\ gpuPosition' = Gpu /\ tracked' = Fences /\ offset' = offset /\ lastSize' = lastSize
      /\ UNCHANGED clockVars
  BY DEF ReserveFails
<1>2. FenceInv(Fences, Gpu, offset, usedBy, current, completed) /\ ClockInv
  BY UpdatedFacts DEF StreamInv
<1>3. Fences # <<>> /\ Fences[Len(Fences)] = Now
  BY FailureFacts DEF ReserveFails
<1>4. ClockInv' /\ current' = current /\ completed' = completed
  BY <1>1, <1>2 DEF clockVars, ClockInv
<1>5. FenceInv(tracked', gpuPosition', offset', usedBy', current', completed')
  BY <1>1, <1>2, <1>4
<1>6. LastFenceIs(current)'
  BY <1>1, <1>3, <1>4 DEF LastFenceIs, Now
<1>7. caller'.pc = "retry" /\ caller'.request = request
  BY <1>1
<1>8. QED
  BY <1>1, <1>3, <1>4, <1>5, <1>6, <1>7 DEF StreamInv

\* After the command buffer has been executed, its fence can be waited for.
LEMMA AgainFits ==
  ASSUME StreamInv, caller.pc = "again", NEW bytes
  PROVE  EarlierFits(bytes)
<1>0. FenceInv(Fences, Gpu, offset, usedBy, current, completed) /\ Len(Fences) \in Nat
      /\ Fences \in Seq(Fence) /\ current \in Nat
  BY UpdatedFacts DEF FenceInv
<1>1. \E k \in 1 .. Len(Fences) : Fences[k] = [counter |-> current - 1, position |-> offset]
  <2>1. CASE Fences = tracked /\ Gpu = gpuPosition /\ offset = gpuPosition
    <3>1. Fences # <<>> /\ Fences[Len(Fences)] = [counter |-> current - 1, position |-> offset]
      BY <2>1 DEF StreamInv, LastFenceIs
    <3>2. Len(Fences) \in 1 .. Len(Fences)
      BY <1>0, <3>1, EmptySeq
    <3>3. QED
      BY <3>1, <3>2
  <2>2. CASE ~(Fences = tracked /\ Gpu = gpuPosition /\ offset = gpuPosition)
    BY <2>2, UpdatedFacts
  <2>3. QED
    BY <2>1, <2>2
<1>2. PICK k \in 1 .. Len(Fences) : Fences[k] = [counter |-> current - 1, position |-> offset]
  BY <1>1
<1>3. Fences[k].position = offset /\ Fences[k].counter = current - 1
  BY <1>2
<1>4. k \in Fitting(bytes)
  BY <1>3, OffsetFits
<1> DEFINE n == FirstFit(bytes)
<1>5. n \in 1 .. Len(Fences) /\ n <= k
  BY <1>0, <1>4, FirstFacts
<1> HIDE DEF n
<1>6. n < k \/ n = k
  BY <1>0, <1>5
<1>7. Fences[n].counter \in Nat /\ Fences[n].counter <= current - 1
  <2>1. Fences[n].counter \in Nat
    BY <1>0, <1>5, FenceFacts
  <2>2. n < k => Fences[n].counter < Fences[k].counter
    BY <1>0, <1>5 DEF FenceInv
  <2>3. QED
    BY <1>0, <1>3, <1>6, <2>1, <2>2
<1>8. Fences[n].counter # current
  BY <1>0, <1>7
<1>9. QED
  BY <1>4, <1>8 DEF EarlierFits, n

LEMMA ReserveKeeps ==
  ASSUME StreamInv, "utility" \notin Callers, NEW request \in Requests, Reserve(request)
  PROVE  StreamInv'
<1>1. PICK who \in Callers : ReserveMemory(request, who)
  BY DEF Reserve
<1>2. who = "retry" /\ UNCHANGED usedBy
  BY SizeAssumption DEF Reserve
<1>3. ReserveNow(request) \/ ReserveAfterWait(request) \/ ReserveFails(request, "retry")
  BY <1>1, <1>2, ReserveCases
<1>4. QED
  BY <1>2, <1>3, ReserveNowKeeps, ReserveAfterWaitKeeps, ReserveFailsKeeps

LEMMA ReserveAgainKeeps ==
  ASSUME StreamInv, ReserveAgain
  PROVE  StreamInv'
<1> DEFINE request == caller.request
<1>1. caller.pc = "again" /\ ReserveMemory(request, "panic") /\ UNCHANGED usedBy
  BY DEF ReserveAgain
<1>2. request \in Requests
  BY <1>1 DEF StreamInv
<1> HIDE DEF request
<1>3. ReserveNow(request) \/ ReserveAfterWait(request) \/ ReserveFails(request, "panic")
  BY <1>1, ReserveCases
<1>4. EarlierFits(Needed(request))
  BY <1>1, AgainFits
<1>5. ReserveNow(request) \/ ReserveAfterWait(request)
  BY <1>3, <1>4 DEF ReserveFails
<1>6. QED
  BY <1>1, <1>2, <1>5, ReserveNowKeeps, ReserveAfterWaitKeeps

LEMMA ExecuteForSpaceKeeps ==
  ASSUME StreamInv, "utility" \notin Callers, ExecuteForSpace
  PROVE  StreamInv'
<1>1. /\ ClockInv /\ caller.pc = "retry" /\ ExecuteCommandBuffer(FALSE)
      /\ UNCHANGED <<offset, gpuPosition, lastSize, tracked, usedBy>>
  BY SizeAssumption DEF ExecuteForSpace, StreamInv
<1>2. ClockInv' /\ current' = current + 1 /\ completed <= completed'
  BY <1>1, ExecuteFacts
<1>3. completed' < current
  BY <1>1, BuffersAssumption DEF ExecuteCommandBuffer, CompletedAfter, ClockInv
<1>4. caller' = [pc |-> "again", request |-> caller.request] /\ caller.request \in Requests
  <2>1. caller = [pc |-> "retry", request |-> caller.request] /\ caller.request \in Requests
    BY <1>1 DEF StreamInv
  <2>2. caller' = [caller EXCEPT !.pc = "again"]
    BY <1>1 DEF ExecuteForSpace
  <2>3. QED
    BY <2>1, <2>2
<1>5. caller'.pc = "again" /\ caller'.request = caller.request
  BY <1>4
<1>6. current \in Nat /\ current' \in Nat /\ completed' \in Nat /\ current <= current'
      /\ current' - 1 = current
  BY <1>1, <1>2 DEF ClockInv
<1>7. FenceInv(tracked, gpuPosition, offset, usedBy, current', completed')
  BY <1>2, <1>6, FencesTime DEF StreamInv
<1>8. FenceInv(tracked', gpuPosition', offset', usedBy', current', completed')
  BY <1>1, <1>7
<1>9. LastFenceIs(current)
  BY <1>1 DEF StreamInv
<1>10. LastFenceIs(current - 1)'
  BY <1>1, <1>6, <1>9 DEF LastFenceIs
<1>11. (completed < current - 1)'
  BY <1>3, <1>6
<1>12. QED
  BY <1>1, <1>2, <1>4, <1>5, <1>8, <1>10, <1>11 DEF StreamInv

LEMMA CommitMemoryKeeps ==
  ASSUME StreamInv, NEW bytes \in 0 .. Size, CommitMemory(bytes)
  PROVE  StreamInv'
<1>1. /\ caller.pc = "reserved" /\ RoomIsLeft /\ ClockInv /\ lastSize \in Nat
      /\ FenceInv(tracked, gpuPosition, offset, usedBy, current, completed)
      /\ UNCHANGED <<gpuPosition, lastSize, tracked, clockVars>>
      /\ offset' = offset + bytes /\ bytes <= lastSize
  BY DEF StreamInv, CommitMemory, Written
<1> DEFINE n == offset + bytes
<1>2. /\ offset \in 0 .. Size /\ gpuPosition \in 0 .. Size /\ Size \in Nat
      /\ n \in 0 .. Size /\ offset <= n /\ (offset < gpuPosition => n < gpuPosition)
  BY <1>1, SizeAssumption DEF FenceInv, RoomIsLeft
<1>3. offset' = n /\ usedBy' = [b \in Bytes |-> IF offset <= b /\ b < n THEN current ELSE usedBy[b]]
  BY <1>1 DEF CommitMemory
<1>4. n = gpuPosition => offset = gpuPosition
  BY <1>2
<1> HIDE DEF n
<1>5. FenceInv(tracked, gpuPosition, n, usedBy', current, completed)
  BY <1>1, <1>2, <1>3, FencesCommit
<1>6. ClockInv' /\ current' = current /\ completed' = completed
  BY <1>1 DEF clockVars, ClockInv
<1>7. FenceInv(tracked', gpuPosition', offset', usedBy', current', completed')
  BY <1>1, <1>3, <1>5, <1>6
<1>8. tracked' = <<>> /\ offset' = gpuPosition' => offset' = 0
  BY <1>1, <1>3, <1>4 DEF StreamInv
<1>9. caller'.pc = "ready" /\ caller' = [pc |-> caller'.pc, request |-> caller'.request]
  <2>1. caller = [pc |-> "reserved", request |-> caller.request]
    BY <1>1 DEF StreamInv
  <2>2. caller' = [caller EXCEPT !.pc = "ready"]
    BY DEF CommitMemory
  <2>3. caller' = [pc |-> "ready", request |-> caller.request]
    BY <2>1, <2>2
  <2>4. QED
    BY <2>3
<1>10. QED
  BY <1>1, <1>6, <1>7, <1>8, <1>9 DEF StreamInv

\* The clock moves while no caller is between its two attempts, or the GPU executes.
LEMMA StreamTime ==
  ASSUME StreamInv, ClockInv', current <= current', completed <= completed',
         UNCHANGED streamVars,
         caller.pc \in {"ready", "reserved"} \/ (current' = current /\ completed' = completed)
  PROVE  StreamInv'
<1>1. /\ offset' = offset /\ gpuPosition' = gpuPosition /\ lastSize' = lastSize
      /\ tracked' = tracked /\ usedBy' = usedBy /\ caller' = caller
  BY DEF streamVars
<1>2. current' \in Nat /\ completed' \in Nat
  BY DEF ClockInv
<1>3. FenceInv(tracked, gpuPosition, offset, usedBy, current', completed')
  BY <1>2, FencesTime DEF StreamInv
<1>4. FenceInv(tracked', gpuPosition', offset', usedBy', current', completed')
  BY <1>1, <1>3
<1>5. RoomIsLeft => RoomIsLeft'
  BY <1>1 DEF RoomIsLeft
<1>6. CASE caller.pc \in {"ready", "reserved"}
  BY <1>1, <1>4, <1>5, <1>6 DEF StreamInv
<1>7. CASE current' = current /\ completed' = completed
  <2>1. /\ LastFenceIs(current) => LastFenceIs(current)'
        /\ LastFenceIs(current - 1) => LastFenceIs(current - 1)'
        /\ completed < current - 1 => (completed < current - 1)'
    BY <1>1, <1>7 DEF LastFenceIs
  <2>2. QED
    BY <1>1, <1>4, <1>5, <2>1 DEF StreamInv
<1>8. QED
  BY <1>6, <1>7

LEMMA StreamElsewhereKeeps ==
  ASSUME StreamInv, StreamElsewhere
  PROVE  StreamInv'
<1>1. ClockInv /\ (OtherExecute \/ OtherWait \/ GpuExecutes) /\ UNCHANGED streamVars
  BY DEF StreamInv, StreamElsewhere
<1>2. ClockInv' /\ current <= current' /\ completed <= completed'
  BY <1>1, OtherFacts
<1>3. caller.pc \in {"ready", "reserved"} \/ (current' = current /\ completed' = completed)
  BY DEF StreamElsewhere, GpuExecutes
<1>4. QED
  BY <1>1, <1>2, <1>3, StreamTime

LEMMA StreamStart == ClockInit /\ StreamInit => StreamInv
<1> SUFFICES ASSUME ClockInit, StreamInit PROVE StreamInv
  OBVIOUS
<1>1. /\ offset = 0 /\ gpuPosition = 0 /\ lastSize = 0 /\ tracked = <<>>
      /\ usedBy = [b \in Bytes |-> 0] /\ current = 1 /\ completed = 0
      /\ caller = [pc |-> "ready", request |-> <<0, 1>>]
  BY DEF StreamInit, ClockInit
<1>2. caller.pc = "ready" /\ caller = [pc |-> caller.pc, request |-> caller.request]
  BY <1>1
<1>3. 0 \in 0 .. Size /\ <<>> \in Seq(Fence) /\ Len(<<>>) = 0
  BY SizeAssumption, EmptySeq
<1>4. Reaches(0, 0, 0, [b \in Bytes |-> 0])
  BY DEF Reaches
<1>5. FenceInv(<<>>, 0, 0, [b \in Bytes |-> 0], 1, 0)
  BY <1>3, <1>4 DEF FenceInv
<1>6. QED
  BY <1>1, <1>2, <1>5, ClockStart DEF StreamInv

LEMMA StreamStep ==
  ASSUME StreamInv, "utility" \notin Callers, StreamNext
  PROVE  StreamInv'
<1>1. CASE \E request \in Requests : Reserve(request)
  BY <1>1, ReserveKeeps
<1>2. CASE ExecuteForSpace
  BY <1>2, ExecuteForSpaceKeeps
<1>3. CASE ReserveAgain
  BY <1>3, ReserveAgainKeeps
<1>4. CASE \E bytes \in 0 .. Size : CommitMemory(bytes)
  BY <1>4, CommitMemoryKeeps
<1>5. CASE StreamElsewhere
  BY <1>5, StreamElsewhereKeeps
<1>6. QED
  BY <1>1, <1>2, <1>3, <1>4, <1>5 DEF StreamNext

\* What StreamInv says about the memory a caller writes.
LEMMA StreamInvImplies ==
  StreamInv => WrittenMemoryIsIdle /\ CommitFits /\ SecondAttemptSucceeds
<1> SUFFICES ASSUME StreamInv PROVE WrittenMemoryIsIdle /\ CommitFits /\ SecondAttemptSucceeds
  OBVIOUS
<1>1. caller.pc # "unreserved" /\ SecondAttemptSucceeds
  BY DEF StreamInv, SecondAttemptSucceeds
<1>2. ASSUME caller.pc = "reserved"
      PROVE  /\ offset + lastSize <= Size
             /\ \A b \in offset .. offset + lastSize - 1 : b \in Bytes /\ usedBy[b] <= completed
  <2>1. /\ FenceInv(tracked, gpuPosition, offset, usedBy, current, completed)
        /\ lastSize \in Nat /\ RoomIsLeft
    BY <1>2 DEF StreamInv
  <2>2. /\ offset \in 0 .. Size /\ gpuPosition \in 0 .. Size /\ Size \in Nat /\ completed \in Nat
        /\ usedBy \in [Bytes -> Nat] /\ Reaches(gpuPosition, completed, offset, usedBy)
    BY <2>1, SizeAssumption DEF FenceInv
  <2>3. ASSUME NEW b \in offset .. offset + lastSize - 1
        PROVE  b \in Bytes /\ usedBy[b] <= completed
    <3>1. b \in Bytes /\ usedBy[b] \in Nat
      BY <2>1, <2>2 DEF RoomIsLeft, Bytes
    <3>2. b \notin Span(gpuPosition, offset)
      BY <2>1, <2>2 DEF RoomIsLeft, Span
    <3>3. ~(usedBy[b] > completed)
      BY <2>2, <3>1, <3>2 DEF Reaches
    <3>4. QED
      BY <2>2, <3>1, <3>3
  <2>4. QED
    BY <2>1, <2>3 DEF RoomIsLeft
<1>3. caller.pc = "reserved" => Written = lastSize
  BY DEF Written
<1>4. QED
  BY <1>1, <1>2, <1>3 DEF WrittenMemoryIsIdle, CommitFits

-----------------------------------------------------------------------------
(* The clients on one clock.  The client that does not run keeps its initial state. *)

QueryClientInv ==
  /\ client \in {"stream", "query"}
  /\ client = "query" => QueryInv
  /\ client = "stream" => QueryInit

StreamClientInv ==
  /\ client \in {"stream", "query"}
  /\ client = "stream" => StreamInv
  /\ client = "query" => StreamInit

LEMMA QueryClientStep ==
  ASSUME QueryClientInv, [Next]_vars
  PROVE  QueryClientInv'
<1>1. CASE client = "stream" /\ StreamNext /\ UNCHANGED <<queryVars, client>>
  BY <1>1 DEF QueryClientInv, QueryInit, queryVars
<1>2. CASE client = "query" /\ QueryNext /\ UNCHANGED <<streamVars, client>>
  BY <1>2, QueryStep DEF QueryClientInv
<1>3. CASE UNCHANGED vars
  <2>1. UNCHANGED <<queryVars, client>> /\ UNCHANGED clockVars
    BY <1>3 DEF vars
  <2>2. QueryInit => QueryInit'
    BY <2>1 DEF QueryInit, queryVars
  <2>3. QueryInv => QueryInv'
    <3> SUFFICES ASSUME QueryInv PROVE QueryInv'
      OBVIOUS
    <3>1. ClockInv' /\ current <= current'
      BY <2>1 DEF QueryInv, ClockInv, clockVars
    <3>2. QED
      BY <2>1, <3>1, QueriesUnchanged
  <2>4. QED
    BY <2>1, <2>2, <2>3 DEF QueryClientInv
<1>4. QED
  BY <1>1, <1>2, <1>3 DEF Next

LEMMA QueryClientImplies == QueryClientInv => QueriesAreExact
BY EmptyRing DEF QueryClientInv, QueryInit, QueryInv, Cleared

LEMMA QueryClientStart == Init => QueryClientInv
BY QueryStart DEF Init, QueryClientInv

\* The occlusion queries in use are exactly the outstanding window of the ring and the open
\* one, whatever is executed, waited for or finished in between (EnableQuery and ReadbackQueries
\* of VKPerfQuery.cpp).
THEOREM QueriesExact == Spec => []QueriesAreExact
<1>1. Init => QueryClientInv
  BY QueryClientStart
<1>2. QueryClientInv /\ [Next]_vars => QueryClientInv'
  BY QueryClientStep
<1>3. QED
  BY <1>1, <1>2, QueryClientImplies, PTL DEF Spec

\* FlushResults reads every outstanding query (the assertion of VKPerfQuery.cpp:131).
THEOREM FlushComplete == Spec => FlushIsComplete
<1>1. Init => QueryClientInv
  BY QueryClientStart
<1>2. QueryClientInv /\ [Next]_vars => QueryClientInv'
  BY QueryClientStep
<1>3. QueryClientInv /\ [Next]_vars => [FlushResults => count' = 0]_<<clockVars, queryVars>>
  <2> SUFFICES ASSUME QueryClientInv, FlushResults PROVE count' = 0
    OBVIOUS
  <2>1. CASE client = "query"
    BY <2>1, FlushResultsKeeps DEF QueryClientInv
  <2>2. CASE client = "stream"
    BY <2>2 DEF QueryClientInv, QueryInit, FlushResults
  <2>3. QED
    BY <2>1, <2>2 DEF QueryClientInv
<1>4. QED
  BY <1>1, <1>2, <1>3, PTL DEF Spec, FlushIsComplete

LEMMA StreamClientStep ==
  ASSUME "utility" \notin Callers, StreamClientInv, [Next]_vars
  PROVE  StreamClientInv'
<1>1. CASE client = "stream" /\ StreamNext /\ UNCHANGED <<queryVars, client>>
  BY <1>1, StreamStep DEF StreamClientInv
<1>2. CASE client = "query" /\ QueryNext /\ UNCHANGED <<streamVars, client>>
  BY <1>2 DEF StreamClientInv, StreamInit, streamVars
<1>3. CASE UNCHANGED vars
  <2>1. UNCHANGED <<streamVars, client>> /\ UNCHANGED clockVars
    BY <1>3 DEF vars
  <2>2. StreamInit => StreamInit'
    BY <2>1 DEF StreamInit, streamVars
  <2>3. StreamInv => StreamInv'
    <3> SUFFICES ASSUME StreamInv PROVE StreamInv'
      OBVIOUS
    <3>1. ClockInv' /\ current' = current /\ completed' = completed
      BY <2>1 DEF StreamInv, ClockInv, clockVars
    <3>2. current <= current' /\ completed <= completed'
      BY <3>1 DEF ClockInv
    <3>3. QED
      BY <2>1, <3>1, <3>2, StreamTime
  <2>4. QED
    BY <2>1, <2>2, <2>3 DEF StreamClientInv
<1>4. QED
  BY <1>1, <1>2, <1>3 DEF Next

LEMMA StreamClientStart == Init => StreamClientInv
BY StreamStart DEF Init, StreamClientInv

LEMMA StreamClientImplies ==
  StreamClientInv => WrittenMemoryIsIdle /\ CommitFits /\ SecondAttemptSucceeds
<1> SUFFICES ASSUME StreamClientInv
             PROVE  WrittenMemoryIsIdle /\ CommitFits /\ SecondAttemptSucceeds
  OBVIOUS
<1>1. CASE client = "stream"
  BY <1>1, StreamInvImplies DEF StreamClientInv
<1>2. CASE client = "query"
  <2>1. caller.pc = "ready"
    BY <1>2 DEF StreamClientInv, StreamInit
  <2>2. QED
    BY <2>1 DEF WrittenMemoryIsIdle, CommitFits, SecondAttemptSucceeds
<1>3. QED
  BY <1>1, <1>2 DEF StreamClientInv

\* For the callers that reserve again (not UploadUtilityUniforms): what they write lies inside
\* the buffer, ends inside it (the assertion of VKStreamBuffer.cpp:156), and no command buffer
\* that may still run reads it.
THEOREM WrittenIdle ==
  ASSUME "utility" \notin Callers
  PROVE  Spec => [](WrittenMemoryIsIdle /\ CommitFits)
<1>1. Init => StreamClientInv
  BY StreamClientStart
<1>2. StreamClientInv /\ [Next]_vars => StreamClientInv'
  BY StreamClientStep
<1>3. StreamClientInv => WrittenMemoryIsIdle /\ CommitFits
  BY StreamClientImplies
<1>4. QED
  BY <1>1, <1>2, <1>3, PTL DEF Spec

\* For the same callers, the reservation after the command buffer was executed never fails:
\* the panic of VKVertexManager.cpp:160 is unreachable for a request that fits the buffer.
THEOREM SecondAttempt ==
  ASSUME "utility" \notin Callers
  PROVE  Spec => []SecondAttemptSucceeds
<1>1. Init => StreamClientInv
  BY StreamClientStart
<1>2. StreamClientInv /\ [Next]_vars => StreamClientInv'
  BY StreamClientStep
<1>3. StreamClientInv => SecondAttemptSucceeds
  BY StreamClientImplies
<1>4. QED
  BY <1>1, <1>2, <1>3, PTL DEF Spec
=============================================================================
