-------------------------- MODULE FifoBatchProofs --------------------------
(***************************************************************************)
(* Proofs about the batch planner, for every size of a gather block, ring, *)
(* batch limit, breakpoint and amount of data: each batch is a run of      *)
(* iterations of the one-block loop, and none is shorter than it could be. *)
(*                                                                         *)
(* The planner computes in bytes; the argument counts blocks from the      *)
(* base of the ring.  PlanInv says that the registers are whole blocks and *)
(* stay in the ring, BlockFacts what a plan is in blocks.                  *)
(***************************************************************************)
EXTENDS MCFifoBatch, WellFoundedInduction, TLAPS

-----------------------------------------------------------------------------
(* Arithmetic. *)

\* Multiplication by the size of a block keeps sums, differences and the order.
LEMMA Times ==
  ASSUME NEW x \in Int, NEW y \in Int, NEW g \in Nat \ {0}
  PROVE  /\ x * g \in Int /\ (x + y) * g = x * g + y * g /\ (x - y) * g = x * g - y * g
         /\ x < y <=> x * g < y * g
         /\ x = y <=> x * g = y * g
<1>1. x * g \in Int /\ (x + y) * g = x * g + y * g /\ (x - y) * g = x * g - y * g
  BY SMT
<1>2. ASSUME x < y PROVE x * g < y * g
  <2>1. (y - x - 1) * g >= 0
    BY <1>2, SMT
  <2>2. QED
    BY <2>1, SMT
<1>3. ASSUME y < x PROVE y * g < x * g
  <2>1. (x - y - 1) * g >= 0
    BY <1>3, SMT
  <2>2. QED
    BY <2>1, SMT
<1>4. x < y \/ y < x \/ x = y
  OBVIOUS
<1> DEFINE xg == x * g
           yg == y * g
<1>5. xg \in Int /\ yg \in Int /\ (x < y => xg < yg) /\ (y < x => yg < xg) /\ (x = y => xg = yg)
  BY <1>1, <1>2, <1>3, SMT
<1>6. (x < y <=> xg < yg) /\ (x = y <=> xg = yg)
  <2> HIDE DEF xg, yg
  <2>1. QED BY <1>4, <1>5
<1>7. QED
  BY <1>1, <1>6 DEF xg, yg

\* A whole number of blocks is divided by their size without a rest.
LEMMA Whole ==
  ASSUME NEW x \in Int, NEW g \in Nat \ {0}
  PROVE  (x * g) \div g = x /\ (x * g) % g = 0
<1> DEFINE z == x * g
           q == z \div g
           r == z % g
<1>1. z \in Int
  BY SMT
<1>2. q \in Int /\ r \in 0 .. g - 1 /\ z = g * q + r
  <2> HIDE DEF z
  <2>1. QED BY <1>1, SMT
<1> HIDE DEF q, r
<1>3. q * g \in Int /\ g * q = q * g /\ (q + 1) * g = q * g + g
  BY <1>2, SMT
<1>4. ~(q < x)
  <2> SUFFICES ASSUME q < x PROVE FALSE
    OBVIOUS
  <2>1. q + 1 < x \/ q + 1 = x
    BY <1>2
  <2>2. (q + 1) * g <= z
    BY <1>1, <1>2, <1>3, <2>1, Times
  <2> HIDE DEF z
  <2>3. QED
    BY <1>1, <1>2, <1>3, <2>2
<1>5. ~(x < q)
  <2> SUFFICES ASSUME x < q PROVE FALSE
    OBVIOUS
  <2>1. z < q * g
    BY <1>2, Times
  <2> HIDE DEF z
  <2>2. QED
    BY <1>1, <1>2, <1>3, <2>1
<1>6. q = x
  BY <1>2, <1>4, <1>5
<1>7. r = 0
  <2>1. z = q * g
    BY <1>6
  <2> HIDE DEF z
  <2>2. QED BY <1>1, <1>2, <1>3, <2>1
<1>8. QED
  BY <1>6, <1>7 DEF q, r

\* The least and the greatest of a few numbers.
LEMMA MinOfThree ==
  ASSUME NEW x \in Int, NEW y \in Int, NEW z \in Int
  PROVE  /\ Min({x, y, z}) \in {x, y, z} /\ Min({x, y, z}) <= x
         /\ Min({x, y, z}) <= y /\ Min({x, y, z}) <= z
BY DEF Min

LEMMA MinMaxOfTwo ==
  ASSUME NEW x \in Int, NEW y \in Int
  PROVE  /\ Min({x, y}) \in {x, y} /\ Min({x, y}) <= x /\ Min({x, y}) <= y
         /\ Max({x, y}) \in {x, y} /\ Max({x, y}) >= x /\ Max({x, y}) >= y
BY DEF Min, Max

-----------------------------------------------------------------------------
(* The registers in blocks: the ring has last + 1 of them, the read pointer *)
(* and the breakpoint are counted from the base.                           *)

InBlocks(last, at, left, bp) ==
  /\ last \in Nat /\ at \in 0 .. last /\ left \in Nat /\ bp \in Int
  /\ end = base + last * gather
  /\ read_ptr = base + at * gather
  /\ distance = left * gather
  /\ breakpoint = base + bp * gather

PlanInv ==
  /\ gather \in Nat \ {0} /\ base \in Nat /\ max_blocks \in Nat \ {0} /\ bp_enabled \in BOOLEAN
  /\ \E last, left \in Nat, at \in Nat, bp \in Int : InBlocks(last, at, left, bp)

\* A plan in blocks: it is bounded by the limit, the data, the ring's end and an enabled
\* breakpoint ahead, and one of them is reached.
Planned(n, last, at, left, bp) ==
  /\ n \in 1 .. max_blocks /\ n <= left /\ n <= last - at + 1
  /\ bp_enabled = TRUE /\ bp > at /\ bp <= last => n <= bp - at
  /\ \/ n = max_blocks
     \/ n = left
     \/ n = last - at + 1
     \/ bp_enabled = TRUE /\ bp > at /\ bp <= last /\ n = bp - at
  /\ Plan = [blocks |-> n, bytes |-> n * gather,
             next_read_ptr |-> IF at + n = last + 1 THEN base ELSE base + (at + n) * gather]

LEMMA BlockFacts ==
  ASSUME PlanInv, Readable(read_ptr, distance),
         NEW last, NEW at, NEW left, NEW bp, InBlocks(last, at, left, bp)
  PROVE  \E n \in Nat : Planned(n, last, at, left, bp)
<1> DEFINE n == PlannedBlocks(read_ptr, end, distance, bp_enabled, breakpoint, gather, max_blocks)
           lastB == last * gather
           atB == at * gather
           leftB == left * gather
           bpB == bp * gather
<1>1. /\ gather \in Nat \ {0} /\ base \in Nat /\ max_blocks \in Nat \ {0} /\ bp_enabled \in BOOLEAN
      /\ last \in Nat /\ at \in 0 .. last /\ left \in Nat /\ bp \in Int
  BY DEF PlanInv, InBlocks
<1>2. /\ lastB \in Int /\ atB \in Int /\ leftB \in Int /\ bpB \in Int
      /\ lastB - atB = (last - at) * gather /\ bpB - atB = (bp - at) * gather
  BY <1>1, Times
<1>3. /\ at <= last => atB <= lastB
      /\ at < bp <=> atB < bpB
      /\ last < bp <=> lastB < bpB
      /\ left > 0 <=> leftB > 0
      /\ 0 < at => 0 < atB
      /\ at = bp <=> atB = bpB
  <2>1. 0 * gather = 0
    BY <1>1, SMT
  <2>2. (last < at <=> lastB < atB) /\ (at < bp <=> atB < bpB) /\ (last < bp <=> lastB < bpB)
        /\ (at = bp <=> atB = bpB)
    BY <1>1, Times
  <2>3. (0 < left <=> 0 * gather < leftB) /\ (0 < at <=> 0 * gather < atB)
    BY <1>1, Times
  <2> HIDE DEF lastB, atB, leftB, bpB
  <2>4. QED BY <1>1, <1>2, <2>1, <2>2, <2>3
<1>4. /\ end = base + lastB /\ read_ptr = base + atB /\ distance = leftB /\ breakpoint = base + bpB
  BY DEF InBlocks
<1>5. /\ (lastB - atB) % gather = 0 /\ (lastB - atB) \div gather = last - at
      /\ (bpB - atB) % gather = 0 /\ (bpB - atB) \div gather = bp - at
      /\ leftB \div gather = left
  <2> DEFINE u == last - at
             v == bp - at
  <2>1. u \in Int /\ v \in Int
    BY <1>1
  <2>2. lastB - atB = u * gather /\ bpB - atB = v * gather
    BY <1>2
  <2>3. (u * gather) % gather = 0 /\ (u * gather) \div gather = u
        /\ (v * gather) % gather = 0 /\ (v * gather) \div gather = v
    <3> HIDE DEF u, v
    <3>1. QED BY <1>1, <2>1, Whole
  <2>4. leftB \div gather = left
    BY <1>1, Whole
  <2>5. QED
    BY <2>2, <2>3, <2>4, Zenon DEF u, v
<1>6. left >= 1 /\ ~(bp_enabled = TRUE /\ at = bp) /\ leftB >= gather
  <2>1. left > 0 /\ ~(bp_enabled /\ at = bp)
    <3> HIDE DEF lastB, atB, leftB, bpB
    <3>1. QED BY <1>1, <1>2, <1>3, <1>4 DEF Readable
  <2>2. left = 1 \/ 1 < left
    BY <1>1, <2>1
  <2>3. 1 * gather = gather /\ (1 < left => 1 * gather < leftB)
    BY <1>1, Times
  <2>4. left = 1 => leftB = 1 * gather
    OBVIOUS
  <2> HIDE DEF lastB, atB, leftB, bpB
  <2>5. QED BY <1>1, <1>2, <2>1, <2>2, <2>3, <2>4
<1>7. ~Unplannable(read_ptr, base, end, distance, gather, max_blocks)
  <2>1. end - read_ptr = lastB - atB
    <3> HIDE DEF lastB, atB, leftB, bpB
    <3>1. QED BY <1>1, <1>2, <1>4
  <2>2. (end - read_ptr) % gather = 0
    BY <1>5, <2>1
  <2>3. gather # 0 /\ max_blocks # 0 /\ ~(distance < gather) /\ ~(read_ptr < base) /\ ~(read_ptr > end)
    <3>1. at = 0 => atB = 0
      BY <1>1, SMT
    <3> HIDE DEF lastB, atB, leftB, bpB
    <3>2. QED BY <1>1, <1>2, <1>3, <1>4, <1>6, <3>1
  <2>4. QED
    BY <2>2, <2>3 DEF Unplannable
<1>8. BreakpointAhead(read_ptr, end, bp_enabled, breakpoint, gather)
        <=> bp_enabled = TRUE /\ bp > at /\ bp <= last
  <2>1. breakpoint - read_ptr = bpB - atB
    <3> HIDE DEF lastB, atB, leftB, bpB
    <3>1. QED BY <1>1, <1>2, <1>4
  <2>2. (breakpoint - read_ptr) % gather = 0
    BY <1>5, <2>1
  <2>3. (breakpoint > read_ptr <=> bp > at) /\ (breakpoint <= end <=> bp <= last)
    <3> HIDE DEF lastB, atB, leftB, bpB
    <3>1. QED BY <1>1, <1>2, <1>3, <1>4
  <2>4. QED
    BY <1>1, <2>2, <2>3 DEF BreakpointAhead
<1> DEFINE rd == Max({1, Min({max_blocks, left, last - at + 1})})
           ahead == bp_enabled = TRUE /\ bp > at /\ bp <= last
<1>9. n = IF ahead THEN Max({1, Min({rd, bp - at})}) ELSE rd
  <2>1. end - read_ptr = lastB - atB /\ breakpoint - read_ptr = bpB - atB
    <3> HIDE DEF lastB, atB, leftB, bpB
    <3>1. QED BY <1>1, <1>2, <1>4
  <2>2. distance \div gather = left /\ (end - read_ptr) \div gather = last - at
        /\ (breakpoint - read_ptr) \div gather = bp - at
    BY <1>4, <1>5, <2>1
  <2>3. QED
    BY <1>8, <2>2, Zenon DEF PlannedBlocks
<1>10. rd \in 1 .. max_blocks /\ rd <= left /\ rd <= last - at + 1
       /\ (rd = max_blocks \/ rd = left \/ rd = last - at + 1)
  <2> DEFINE mn == Min({max_blocks, left, last - at + 1})
  <2>1. mn \in {max_blocks, left, last - at + 1} /\ mn <= max_blocks /\ mn <= left /\ mn <= last - at + 1
    <3> DEFINE room == last - at + 1
    <3>1. room \in Int /\ left \in Int /\ max_blocks \in Int
      BY <1>1
    <3> HIDE DEF room
    <3>2. LET w == Min({max_blocks, left, room})
          IN  w \in {max_blocks, left, room} /\ w <= max_blocks /\ w <= left /\ w <= room
      BY <3>1, MinOfThree
    <3>3. QED
      BY <3>2, Zenon DEF room
  <2>2. mn \in Int /\ mn >= 1
    BY <1>1, <1>6, <2>1
  <2>3. Max({1, mn}) \in {1, mn} /\ Max({1, mn}) >= 1 /\ Max({1, mn}) >= mn
    <3> HIDE DEF mn
    <3>1. QED BY <2>2, 1 \in Int, MinMaxOfTwo
  <2>4. rd = Max({1, mn})
    OBVIOUS
  <2> HIDE DEF mn, rd
  <2>5. QED BY <1>1, <2>1, <2>2, <2>3, <2>4
<1>11. /\ n \in 1 .. max_blocks /\ n <= left /\ n <= last - at + 1
       /\ ahead => n <= bp - at
       /\ n = max_blocks \/ n = left \/ n = last - at + 1 \/ (ahead /\ n = bp - at)
  <2> HIDE DEF rd, n
  <2>1. CASE ahead
    <3> DEFINE mn == Min({rd, bp - at})
    <3>1. rd \in Int /\ bp - at \in Int /\ bp - at >= 1
      BY <1>1, <1>10, <2>1
    <3>2. mn \in {rd, bp - at} /\ mn <= rd /\ mn <= bp - at
      BY <3>1, MinMaxOfTwo
    <3>3. mn \in Int
      BY <3>1, <3>2
    <3>4. Max({1, mn}) \in {1, mn} /\ Max({1, mn}) >= 1 /\ Max({1, mn}) >= mn
      <4> HIDE DEF mn
      <4>1. QED BY <3>3, 1 \in Int, MinMaxOfTwo
    <3>5. n = Max({1, mn})
      BY <1>9, <2>1
    <3> HIDE DEF mn
    <3>6. QED BY <1>1, <1>10, <2>1, <3>1, <3>2, <3>3, <3>4, <3>5
  <2>2. CASE ~ahead
    BY <1>9, <1>10, <2>2
  <2>3. QED
    BY <2>1, <2>2
<1>12. Plan = [blocks |-> n, bytes |-> n * gather,
               next_read_ptr |-> Advance(read_ptr + (n - 1) * gather, base, end, gather)]
  BY <1>7 DEF Plan, PlanFifoBatch
<1> HIDE DEF n
<1>13. Advance(read_ptr + (n - 1) * gather, base, end, gather)
         = IF at + n = last + 1 THEN base ELSE base + (at + n) * gather
  <2> DEFINE prevB == (n - 1) * gather
             sumB == (at + (n - 1)) * gather
             nextB == (at + n) * gather
  <2>1. n \in Int /\ n - 1 \in Int /\ at + (n - 1) \in Int /\ at + n = (at + (n - 1)) + 1
    BY <1>1, <1>11
  <2>2. prevB \in Int /\ sumB = atB + prevB /\ sumB \in Int
        /\ (at + (n - 1) = last <=> sumB = lastB)
    BY <1>1, <2>1, Times
  <2>3. nextB = sumB + gather
    <3>1. ((at + (n - 1)) + 1) * gather = sumB + 1 * gather /\ 1 * gather = gather
      BY <1>1, <2>1, Times
    <3>2. QED BY <2>1, <3>1
  <2>4. at + n = last + 1 <=> at + (n - 1) = last
    BY <1>1, <2>1
  <2> HIDE DEF prevB, sumB, nextB, atB, lastB, leftB, bpB
  <2>5. (read_ptr + prevB = end <=> sumB = lastB) /\ read_ptr + prevB + gather = base + nextB
    BY <1>1, <1>2, <1>4, <2>2, <2>3
  <2>6. Advance(read_ptr + prevB, base, end, gather)
          = IF at + n = last + 1 THEN base ELSE base + nextB
    BY <2>2, <2>4, <2>5, Zenon DEF Advance
  <2>7. QED
    BY <2>6 DEF prevB, nextB
<1>14. Planned(n, last, at, left, bp)
  BY <1>11, <1>12, <1>13, Zenon DEF Planned
<1>15. QED
  BY <1>1, <1>11, <1>14

-----------------------------------------------------------------------------
(* The invariant. *)

LEMMA PlanInit ==
  Init => PlanInv
<1> SUFFICES ASSUME Init PROVE PlanInv
  OBVIOUS
<1>1. gather \in Nat \ {0} /\ base \in {0, gather} /\ bp_enabled \in BOOLEAN
  BY MCFifoBatchAssumption DEF Init
<1>2. PICK size \in RingBlocks : end = base + (size - 1) * gather
  BY DEF Init
<1>3. size \in Nat \ {0}
  BY <1>2, MCFifoBatchAssumption
<1>4. max_blocks \in Nat \ {0}
  <2>1. PICK request \in Requests, sync \in BOOLEAN :
          max_blocks = EffectiveFifoBatchBlocks(request, sync)
    BY DEF Init
  <2>2. request \in Nat
    BY <2>1, MCFifoBatchAssumption
  <2>3. QED
    BY <2>1, <2>2 DEF EffectiveFifoBatchBlocks, NormalizeFifoBatchBlocks,
       HORIZON_FIFO_LEGACY_BATCH_BLOCKS, HORIZON_FIFO_MAX_BATCH_BLOCKS
<1> DEFINE last == size - 1
           lastB == last * gather
<1>5. last \in Nat /\ end = base + lastB /\ lastB \in Int /\ lastB \div gather = last
  <2>1. last \in Nat /\ end = base + lastB
    BY <1>2, <1>3
  <2> HIDE DEF last
  <2>2. lastB \in Int /\ lastB \div gather = last
    BY <1>1, <2>1, Whole, Times
  <2>3. QED BY <2>1, <2>2
<1> HIDE DEF last
<1>6. (end - base) \div gather = last
  <2>1. end - base = lastB
    <3> HIDE DEF lastB
    <3>1. QED BY <1>1, <1>5
  <2>2. QED
    BY <1>5, <2>1
<1>7. Ring = {base + i * gather : i \in 0 .. last}
  BY <1>6 DEF Ring
<1>8. PICK at \in 0 .. last : read_ptr = base + at * gather
  BY <1>7 DEF Init
<1>9. PICK left \in 0 .. last : distance = left * gather
  BY <1>6 DEF Init
<1>10. \E bp \in Int : breakpoint = base + bp * gather
  <2>1. CASE breakpoint \in Ring
    BY <1>5, <1>7, <2>1
  <2>2. CASE breakpoint = 0
    <3>1. 0 * gather = 0 /\ (-1) * gather = -gather /\ 0 \in Int /\ -1 \in Int
      BY <1>1, SMT
    <3>2. base = 0 => breakpoint = base + 0 * gather
      BY <2>2, <3>1
    <3>3. base = gather => breakpoint = base + (-1) * gather
      BY <1>1, <2>2, <3>1
    <3>4. QED
      BY <1>1, <3>1, <3>2, <3>3
  <2>3. CASE breakpoint = end + gather
    <3> DEFINE next == last + 1
    <3>1. next \in Int
      BY <1>5
    <3>2. next * gather = lastB + gather
      <4>1. next * gather = lastB + 1 * gather /\ 1 * gather = gather
        BY <1>1, <1>5, 1 \in Int, Times
      <4>2. QED BY <4>1
    <3>3. breakpoint = base + next * gather
      <4> DEFINE nextB == next * gather
      <4> HIDE DEF lastB, nextB
      <4>1. nextB = lastB + gather => breakpoint = base + nextB
        BY <1>1, <1>5, <2>3
      <4>2. QED BY <3>2, <4>1 DEF nextB
    <3> HIDE DEF next
    <3>4. QED
      BY <3>1, <3>3
  <2>4. QED
    BY <2>1, <2>2, <2>3 DEF Init
<1>11. PICK bp \in Int : breakpoint = base + bp * gather
  BY <1>10
<1>12. InBlocks(last, at, left, bp) /\ at \in Nat /\ left \in Nat
  BY <1>5, <1>8, <1>9, <1>11 DEF InBlocks
<1>13. base \in Nat
  BY <1>1
<1>14. QED
  BY <1>1, <1>4, <1>5, <1>11, <1>12, <1>13 DEF PlanInv

LEMMA PlanNext ==
  PlanInv /\ [Next]_vars => PlanInv'
<1> SUFFICES ASSUME PlanInv, [Next]_vars PROVE PlanInv'
  OBVIOUS
<1>1. PICK last, left \in Nat, at \in Nat, bp \in Int : InBlocks(last, at, left, bp)
  BY DEF PlanInv
<1>2. CASE Batch
  <2>1. PICK n \in Nat : Planned(n, last, at, left, bp)
    BY <1>1, <1>2, BlockFacts DEF Batch
  <2>2. /\ gather' = gather /\ base' = base /\ end' = end /\ max_blocks' = max_blocks
        /\ bp_enabled' = bp_enabled /\ breakpoint' = breakpoint
    BY <1>2 DEF Batch
  <2> DEFINE at2 == IF at + n = last + 1 THEN 0 ELSE at + n
             left2 == left - n
  <2>3. at2 \in 0 .. last /\ at2 \in Nat /\ left2 \in Nat
    BY <1>1, <2>1 DEF Planned, InBlocks
  <2>4. gather \in Nat \ {0} /\ base \in Nat
    BY DEF PlanInv
  <2>5. read_ptr' = base + at2 * gather
    <3>1. read_ptr' = IF at + n = last + 1 THEN base ELSE base + (at + n) * gather
      BY <1>2, <2>1 DEF Batch, Planned
    <3>2. base = base + 0 * gather
      BY <2>4, SMT
    <3>3. QED
      BY <3>1, <3>2, Zenon
  <2>6. distance' = left2 * gather
    <3>1. distance' = left * gather - n * gather
      BY <1>1, <1>2, <2>1 DEF Batch, Planned, InBlocks
    <3>2. (left - n) * gather = left * gather - n * gather
      BY <1>1, <2>1, <2>4, Times
    <3>3. QED
      BY <3>1, <3>2
  <2> HIDE DEF at2, left2
  <2>7. InBlocks(last, at2, left2, bp)'
    <3>1. end = base + last * gather /\ breakpoint = base + bp * gather
      BY <1>1 DEF InBlocks
    <3>2. end' = base' + last * gather' /\ breakpoint' = base' + bp * gather'
          /\ read_ptr' = base' + at2 * gather' /\ distance' = left2 * gather'
      BY <2>2, <2>5, <2>6, <3>1, Zenon
    <3>3. QED
      BY <1>1, <2>3, <3>2, Zenon DEF InBlocks
  <2>8. QED
    BY <1>1, <2>2, <2>3, <2>7 DEF PlanInv
<1>3. CASE UNCHANGED vars
  BY <1>3 DEF vars, PlanInv, InBlocks
<1>4. QED
  BY <1>2, <1>3 DEF Next

LEMMA PlanInvariant ==
  Spec => []PlanInv
BY PlanInit, PlanNext, PTL DEF Spec

-----------------------------------------------------------------------------
(* The one-block loop. *)

\* w is a walk of single steps from p, and it goes straight on for n of them.
SingleSteps(w, n, p, b, e, g) ==
  w = [i \in 0 .. n |-> IF i = 0 THEN p ELSE Advance(w[i - 1], b, e, g)]

GoesStraight(w, n, p, b, e, g) ==
  /\ \A i \in 0 .. n - 1 : w[i] = p + i * g
  /\ n >= 1 => w[n] = Advance(p + (n - 1) * g, b, e, g)

EndsBefore(n, p, e, g) == \A i \in 0 .. n - 1 : p + i * g <= e

\* A walk of single steps that does not reach the ring's end goes straight on.
LEMMA StraightWalk ==
  ASSUME NEW w, NEW n \in Nat, NEW p \in Int, NEW b \in Int, NEW e \in Int,
         NEW g \in Nat \ {0}, SingleSteps(w, n, p, b, e, g), EndsBefore(n, p, e, g)
  PROVE  GoesStraight(w, n, p, b, e, g)
<1> DEFINE R == OpToRel(<, Nat)
           T == {i \in 0 .. n - 1 : w[i] # p + i * g}
<1>1. IsWellFoundedOn(R, Nat)
  BY NatLessThanWellFounded
<1>2. ASSUME T # {} PROVE FALSE
  <2>1. T \subseteq Nat
    OBVIOUS
  <2>2. PICK x \in T : \A y \in T : ~(<<y, x>> \in R)
    <3> HIDE DEF R, T
    <3>1. QED BY <1>1, <1>2, <2>1, WFMin
  <2>3. \A y \in Nat : y < x => <<y, x>> \in R
    BY <2>1, <2>2 DEF OpToRel
  <2>4. x \in 0 .. n - 1 /\ w[x] # p + x * g
    BY <2>2
  <2>5. \A y \in Nat : y < x => w[y] = p + y * g
    <3> SUFFICES ASSUME NEW y \in Nat, y < x PROVE w[y] = p + y * g
      OBVIOUS
    <3>1. y \notin T
      <4> HIDE DEF T
      <4>1. QED BY <2>2, <2>3
    <3>2. y \in 0 .. n - 1
      BY <2>4
    <3>3. QED
      BY <3>1, <3>2
  <2>6. w[x] = IF x = 0 THEN p ELSE Advance(w[x - 1], b, e, g)
    BY <2>4 DEF SingleSteps
  <2>7. CASE x = 0
    <3>1. p + 0 * g = p
      BY SMT
    <3>2. QED
      BY <2>4, <2>6, <2>7, <3>1
  <2>8. CASE x # 0
    <3> DEFINE y == x - 1
               yg == y * g
               xg == x * g
    <3>1. y \in Nat /\ y < x /\ y \in Int /\ x \in Int /\ x = y + 1
      BY <2>4, <2>8
    <3>2. w[y] = p + yg
      BY <2>5, <3>1
    <3>3. xg = yg + g /\ yg \in Int
      <4> HIDE DEF y
      <4>1. (y + 1) * g = yg + 1 * g /\ 1 * g = g /\ yg \in Int
        BY <3>1, 1 \in Int, Times
      <4>2. QED BY <3>1, <4>1
    <3>4. p + xg <= e
      BY <2>4 DEF EndsBefore
    <3>5. w[x] = Advance(p + yg, b, e, g)
      BY <2>6, <2>8, <3>2
    <3>6. w[x] # p + xg
      BY <2>4
    <3> HIDE DEF y, yg, xg
    <3>7. QED
      BY <3>3, <3>4, <3>5, <3>6 DEF Advance
  <2>9. QED
    BY <2>7, <2>8
<1>3. \A i \in 0 .. n - 1 : w[i] = p + i * g
  BY <1>2
<1>4. ASSUME n >= 1 PROVE w[n] = Advance(p + (n - 1) * g, b, e, g)
  <2>1. n \in 0 .. n /\ n # 0 /\ n - 1 \in 0 .. n - 1
    BY <1>4
  <2>2. w[n] = Advance(w[n - 1], b, e, g)
    BY <2>1 DEF SingleSteps
  <2>3. w[n - 1] = p + (n - 1) * g
    BY <1>3, <2>1
  <2>4. QED
    BY <2>2, <2>3
<1>5. QED
  BY <1>3, <1>4 DEF GoesStraight

\* What the definition of the loop says, if some function satisfies its equation.
LEMMA LoopEquation ==
  ASSUME NEW n \in Nat,
         NEW f, SingleSteps(f, n, read_ptr, base, end, gather)
  PROVE  SingleSteps(OneBlockLoop(n), n, read_ptr, base, end, gather)
BY DEF OneBlockLoop, SingleSteps

\* In blocks, the loop steps through the batch and then goes where the plan says.
LEMMA LoopFacts ==
  ASSUME PlanInv, NEW last, NEW at, NEW left, NEW bp, InBlocks(last, at, left, bp),
         NEW n \in Nat, Planned(n, last, at, left, bp)
  PROVE  /\ \A i \in 0 .. n - 1 : OneBlockLoop(n)[i] = read_ptr + i * gather
         /\ OneBlockLoop(n)[n] = Plan.next_read_ptr
<1> DEFINE straight(i) == IF i = 0 THEN read_ptr
                          ELSE Advance(read_ptr + (i - 1) * gather, base, end, gather)
           f == [i \in 0 .. n |-> straight(i)]
           w == OneBlockLoop(n)
<1>1. /\ gather \in Nat \ {0} /\ base \in Nat /\ last \in Nat /\ at \in 0 .. last
      /\ n >= 1 /\ at + n <= last + 1
  BY DEF PlanInv, InBlocks, Planned
<1>2. /\ last * gather \in Int /\ at * gather \in Int
      /\ end = base + last * gather /\ read_ptr = base + at * gather
  BY <1>1, Times DEF InBlocks
<1>3. end \in Int /\ read_ptr \in Int
  <2> DEFINE x == last * gather
             y == at * gather
  <2>1. x \in Int /\ y \in Int /\ end = base + x /\ read_ptr = base + y
    BY <1>2
  <2> HIDE DEF x, y
  <2>2. QED BY <1>1, <2>1
<1>4. ASSUME NEW i \in 0 .. n - 1
      PROVE  /\ read_ptr + i * gather <= end
             /\ i >= 1 => read_ptr + (i - 1) * gather # end
                          /\ read_ptr + (i - 1) * gather + gather = read_ptr + i * gather
  <2> DEFINE x == last * gather
             y == at * gather
             z == i * gather
             s == (at + i) * gather
             u == (i - 1) * gather
  <2>1. x \in Int /\ y \in Int /\ end = base + x /\ read_ptr = base + y
    BY <1>2
  <2>2. i \in Int /\ at \in Int /\ last \in Int /\ at + i \in Int /\ i - 1 \in Int /\ at + i <= last
    BY <1>1
  <2>3. z \in Int /\ s = y + z
    BY <1>1, <2>2, Times
  <2>4. s <= x
    <3>1. at + i < last \/ at + i = last
      BY <2>2
    <3>2. (at + i < last => s < x) /\ (at + i = last => s = x)
      BY <1>1, <2>2, Times
    <3> HIDE DEF x, y, z, s
    <3>3. QED BY <2>1, <2>3, <3>1, <3>2
  <2>5. u \in Int /\ u = z - gather
    <3>1. (i - 1) * gather = z - 1 * gather /\ 1 * gather = gather
      BY <1>1, <2>2, 1 \in Int, Times
    <3> DEFINE v == 1 * gather
    <3> HIDE DEF u, z, v
    <3>2. u = z - v /\ v = gather
      BY <3>1 DEF u, v, z
    <3>3. QED
      BY <1>1, <2>3, <3>2
  <2> HIDE DEF x, y, z, s, u
  <2>6. base + y + z <= base + x /\ base + y + u # base + x /\ base + y + u + gather = base + y + z
    BY <1>1, <2>1, <2>3, <2>4, <2>5
  <2>7. QED
    BY <2>1, <2>6, Zenon DEF z, u
<1>5. SingleSteps(f, n, read_ptr, base, end, gather)
  <2> SUFFICES ASSUME NEW i \in 0 .. n, i # 0
               PROVE  f[i - 1] = read_ptr + (i - 1) * gather
    BY DEF SingleSteps
  <2> DEFINE j == i - 1
  <2>1. j \in 0 .. n - 1 /\ j \in 0 .. n
    BY <1>1
  <2>2. f[j] = straight(j)
    BY <2>1
  <2> HIDE DEF j
  <2>3. CASE j = 0
    <3>1. read_ptr + 0 * gather = read_ptr
      BY <1>1, <1>3, SMT
    <3>2. QED
      BY <2>2, <2>3, <3>1 DEF j
  <2>4. CASE j # 0
    <3>1. j >= 1
      BY <2>1, <2>4
    <3>2. straight(j) = read_ptr + (j - 1) * gather + gather
      BY <1>4, <2>1, <2>4, <3>1, Zenon DEF Advance
    <3>3. QED
      BY <1>4, <2>1, <2>2, <3>1, <3>2, Zenon DEF j
  <2>5. QED
    BY <2>3, <2>4
<1> HIDE DEF f
<1>6. SingleSteps(w, n, read_ptr, base, end, gather)
  BY <1>5, LoopEquation
<1> HIDE DEF w
<1>7. /\ \A i \in 0 .. n - 1 : w[i] = read_ptr + i * gather
      /\ w[n] = Advance(read_ptr + (n - 1) * gather, base, end, gather)
  <2>1. EndsBefore(n, read_ptr, end, gather)
    BY <1>4 DEF EndsBefore
  <2>2. base \in Int
    BY <1>1
  <2>3. GoesStraight(w, n, read_ptr, base, end, gather)
    BY <1>1, <1>3, <1>6, <2>1, <2>2, StraightWalk
  <2>4. QED
    BY <1>1, <2>3 DEF GoesStraight
<1>8. Advance(read_ptr + (n - 1) * gather, base, end, gather) = Plan.next_read_ptr
  <2>1. Plan.next_read_ptr = IF at + n = last + 1 THEN base ELSE base + (at + n) * gather
    BY DEF Planned
  <2> DEFINE x == last * gather
             y == at * gather
             u == (n - 1) * gather
             m == at + (n - 1)
             s == m * gather
             t == (at + n) * gather
  <2>2. x \in Int /\ y \in Int /\ end = base + x /\ read_ptr = base + y
    BY <1>2
  <2>3. n - 1 \in Int /\ m \in Int /\ at \in Int /\ last \in Int /\ at + n = m + 1
        /\ (at + n = last + 1 <=> m = last)
    BY <1>1
  <2>4. s = y + u /\ u \in Int
    BY <1>1, <2>3, Times
  <2>5. m = last <=> s = x
    <3> HIDE DEF m
    <3>1. QED BY <1>1, <2>3, Times
  <2>6. t = s + gather
    <3>1. (m + 1) * gather = s + 1 * gather /\ 1 * gather = gather
      <4> HIDE DEF m
      <4>1. QED BY <1>1, <2>3, 1 \in Int, Times DEF s
    <3>2. QED
      BY <2>3, <3>1
  <2> HIDE DEF x, y, u, s, t
  <2>7. (base + y + u = base + x <=> s = x) /\ base + y + u + gather = base + t
    BY <1>1, <2>2, <2>4, <2>6
  <2>8. Advance(read_ptr + u, base, end, gather)
          = IF at + n = last + 1 THEN base ELSE base + t
    BY <2>2, <2>3, <2>5, <2>7, Zenon DEF Advance
  <2>9. QED
    BY <2>1, <2>8 DEF u, t
<1>9. QED
  BY <1>7, <1>8 DEF w

-----------------------------------------------------------------------------
(* The theorems. *)

LEMMA RunOfSingleBlocks ==
  PlanInv => BatchIsRunOfSingleBlocks
<1> SUFFICES ASSUME PlanInv, Readable(read_ptr, distance) PROVE BatchIsRunOfSingleBlocks
  BY DEF BatchIsRunOfSingleBlocks
<1>1. PICK last, left \in Nat, at \in Nat, bp \in Int : InBlocks(last, at, left, bp)
  BY DEF PlanInv
<1>2. PICK n \in Nat : Planned(n, last, at, left, bp)
  BY <1>1, BlockFacts
<1>3. Plan.blocks = n /\ Plan.bytes = n * gather /\ n >= 1
  BY <1>2 DEF Planned
<1> DEFINE w == OneBlockLoop(n)
<1>4. (\A i \in 0 .. n - 1 : w[i] = read_ptr + i * gather) /\ w[n] = Plan.next_read_ptr
  BY <1>1, <1>2, LoopFacts
<1>5. ASSUME NEW i \in 0 .. n - 1
      PROVE  Readable(read_ptr + i * gather, distance - i * gather)
  <2> DEFINE z == i * gather
             y == at * gather
             d == left * gather
             b == bp * gather
             s == (at + i) * gather
             t == (left - i) * gather
  <2>1. /\ gather \in Nat \ {0} /\ base \in Nat /\ bp_enabled \in BOOLEAN
        /\ read_ptr = base + y /\ distance = d /\ breakpoint = base + b
    BY <1>1 DEF PlanInv, InBlocks
  <2>2. /\ i \in Int /\ at \in Int /\ bp \in Int /\ left \in Int /\ at + i \in Int
        /\ left - i \in Int /\ 0 < left - i
        /\ bp_enabled = TRUE /\ at # bp => at + i # bp
    <3>1. /\ last \in Nat /\ at \in 0 .. last /\ left \in Nat /\ bp \in Int /\ i \in Nat /\ i < n
          /\ n <= left /\ n <= last - at + 1
      BY <1>1, <1>2 DEF InBlocks, Planned
    <3>2. bp_enabled = TRUE /\ bp > at /\ bp <= last => n <= bp - at
      BY <1>2 DEF Planned
    <3>3. QED
      BY <3>1, <3>2
  <2>3. z \in Int /\ y \in Int /\ b \in Int /\ d \in Int /\ s = y + z /\ t = d - z
        /\ (at + i = bp <=> s = b) /\ (at = bp <=> y = b)
    BY <2>1, <2>2, Times
  <2>4. 0 < t
    <3>1. 0 * gather = 0 /\ 0 * gather < t
      BY <2>1, <2>2, 0 \in Int, Times
    <3>2. QED BY <3>1
  <2> HIDE DEF z, y, d, b, s, t
  <2>5. d - z > 0 /\ (base + y = base + b <=> at = bp) /\ (base + y + z = base + b <=> at + i = bp)
    BY <2>1, <2>3, <2>4
  <2>6. ~(bp_enabled /\ base + y = base + b)
    BY <2>1, Zenon DEF Readable
  <2>7. ~(bp_enabled /\ base + y + z = base + b)
    BY <2>1, <2>2, <2>5, <2>6
  <2>8. QED
    BY <2>1, <2>5, <2>7, Zenon DEF Readable, z
<1>6. QED
  BY <1>3, <1>4, <1>5, Zenon DEF BatchIsRunOfSingleBlocks

LEMMA Maximal ==
  PlanInv => BatchIsMaximal
<1> SUFFICES ASSUME PlanInv, Readable(read_ptr, distance) PROVE BatchIsMaximal
  BY DEF BatchIsMaximal
<1>1. PICK last, left \in Nat, at \in Nat, bp \in Int : InBlocks(last, at, left, bp)
  BY DEF PlanInv
<1>2. PICK n \in Nat : Planned(n, last, at, left, bp)
  BY <1>1, BlockFacts
<1>3. /\ Plan.blocks = n /\ Plan.bytes = n * gather
      /\ Plan.next_read_ptr = IF at + n = last + 1 THEN base ELSE base + (at + n) * gather
  BY <1>2 DEF Planned
<1>4. CASE n = max_blocks
  BY <1>3, <1>4 DEF BatchIsMaximal
<1>5. CASE n = left
  <2>1. distance = left * gather /\ left * gather \in Int
    BY <1>1, Times DEF InBlocks, PlanInv
  <2>2. distance - Plan.bytes = 0
    <3> DEFINE d == left * gather
    <3>1. distance = d /\ Plan.bytes = d /\ d \in Int
      BY <1>3, <1>5, <2>1
    <3> HIDE DEF d
    <3>2. QED BY <3>1
  <2>3. ~Readable(Plan.next_read_ptr, distance - Plan.bytes)
    BY <2>2 DEF Readable
  <2>4. QED
    BY <2>3 DEF BatchIsMaximal
<1>6. CASE n = last - at + 1
  <2>1. at + n = last + 1
    BY <1>1, <1>6 DEF InBlocks
  <2>2. QED
    BY <1>3, <2>1 DEF BatchIsMaximal
<1>7. CASE bp_enabled = TRUE /\ bp > at /\ bp <= last /\ n = bp - at
  <2>1. at + n = bp /\ at + n # last + 1
    BY <1>1, <1>7 DEF InBlocks
  <2>2. Plan.next_read_ptr = breakpoint
    BY <1>1, <1>3, <2>1 DEF InBlocks
  <2>3. QED
    BY <1>7, <2>2 DEF BatchIsMaximal, Readable
<1>8. QED
  BY <1>2, <1>4, <1>5, <1>6, <1>7 DEF Planned

\* Every batch that PlanFifoBatch plans is a run of iterations of the loop with batches of
\* one block: no unpublished block, no block behind an enabled breakpoint, no gap.
THEOREM BatchIsRun ==
  Spec => []BatchIsRunOfSingleBlocks
BY PlanInvariant, RunOfSingleBlocks, PTL

\* PlanFifoBatch never cuts a batch short of its limit, of where the one-block loop would
\* stop, and of the end of the ring.
THEOREM BatchIsFull ==
  Spec => []BatchIsMaximal
BY PlanInvariant, Maximal, PTL
=============================================================================
