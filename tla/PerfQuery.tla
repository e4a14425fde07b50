----------------------------- MODULE PerfQuery ------------------------------
(***************************************************************************)
(* Vulkan::PerfQuery: a ring of occlusion queries.  A query is opened and  *)
(* closed in the command buffer being recorded and read back when the      *)
(* fence counter it was closed under is completed.                         *)
(***************************************************************************)
EXTENDS FenceClient

CONSTANT PERF_QUERY_BUFFER_SIZE

ASSUME QueryAssumption == PERF_QUERY_BUFFER_SIZE \in Nat \ {0}

VARIABLES
  query,    \* m_query_buffer: has_value and fence_counter
  nextPos,  \* m_query_next_pos
  readPos,  \* m_query_readback_pos
  count,    \* m_query_count
  open      \* between EnableQuery and DisableQuery

queryVars == <<query, nextPos, readPos, count, open>>

Positions == 0 .. PERF_QUERY_BUFFER_SIZE - 1
Plus(p, n) == (p + n) % PERF_QUERY_BUFFER_SIZE
Unused == [has |-> FALSE, fence |-> 0]

QueryInit ==
  /\ query = [p \in Positions |-> Unused]
  /\ nextPos = 0 /\ readPos = 0 /\ count = 0
  /\ open = FALSE

\* ReadbackQueries with the counters up to c completed: the leading queries that are finished
\* are read and freed, in two calls when they wrap around.
Finished(c) ==
  CHOOSE n \in 0 .. count :
    /\ \A i \in 0 .. n - 1 : query[Plus(readPos, i)].fence <= c
    /\ n < count => query[Plus(readPos, n)].fence > c

ReadbackQueries(c) ==
  LET read == {Plus(readPos, i) : i \in 0 .. Finished(c) - 1}
  IN  [query |-> [p \in Positions |-> IF p \in read THEN Unused ELSE query[p]],
       readPos |-> Plus(readPos, Finished(c)),
       count |-> count - Finished(c)]

\* Mutant: a blocking flush executes the command buffer and does not wait for it.
PartialFlushWithoutWait(blocking) ==
  IF blocking \/ query[readPos].fence = current
    THEN ExecuteCommandBuffer(FALSE) ELSE UNCHANGED clockVars

\* PartialFlush: the front query's command buffer is executed if it is still being recorded.
PartialFlush(blocking) ==
  IF blocking \/ query[readPos].fence = current
    THEN ExecuteCommandBuffer(blocking) ELSE UNCHANGED clockVars

\* EnableQuery for a counted group, or (counted = FALSE) for one that only triggers the flush.
EnableQuery(counted) ==
  LET flush == count > PERF_QUERY_BUFFER_SIZE \div 2
      after == IF flush THEN ReadbackQueries(completed')
               ELSE [query |-> query, readPos |-> readPos, count |-> count]
  IN  /\ ~open /\ current < MaxCounter
      /\ IF flush THEN PartialFlush(count = PERF_QUERY_BUFFER_SIZE) ELSE UNCHANGED clockVars
      /\ query' = [after.query EXCEPT ![nextPos].has = @ \/ counted]
      /\ readPos' = after.readPos /\ count' = after.count
      /\ open' = counted
      /\ UNCHANGED nextPos

DisableQuery ==
  /\ open
  /\ query' = [query EXCEPT ![nextPos].fence = current]
  /\ nextPos' = Plus(nextPos, 1)
  /\ count' = count + 1
  /\ open' = FALSE
  /\ UNCHANGED <<readPos, clockVars>>

ResetQuery ==
  /\ ~open /\ count > 0
  /\ query' = [p \in Positions |-> Unused]
  /\ nextPos' = 0 /\ readPos' = 0 /\ count' = 0
  /\ UNCHANGED <<open, clockVars>>

FlushResults ==
  /\ ~open /\ count > 0 /\ current < MaxCounter
  /\ PartialFlush(TRUE)
  /\ LET after == ReadbackQueries(completed')
     IN  query' = after.query /\ readPos' = after.readPos /\ count' = after.count
  /\ UNCHANGED <<nextPos, open>>

QueryElsewhere ==
  /\ \/ ~open /\ (OtherExecute \/ OtherWait)
     \/ GpuExecutes
  /\ UNCHANGED queryVars

QueryNext ==
  \/ \E counted \in BOOLEAN : EnableQuery(counted)
  \/ DisableQuery \/ ResetQuery \/ FlushResults
  \/ QueryElsewhere

-----------------------------------------------------------------------------
\* The queries in use are exactly the outstanding window of the ring and the open one: a new
\* query never takes the place of one whose result was not read (VKPerfQuery.cpp:58).
QueriesAreExact ==
  /\ count <= PERF_QUERY_BUFFER_SIZE
  /\ nextPos = Plus(readPos, count)
  /\ open => count < PERF_QUERY_BUFFER_SIZE
  /\ \A i \in Positions :
       query[Plus(readPos, i)].has <=> (i < count \/ (open /\ i = count))

\* FlushResults leaves no query outstanding, whatever was executed or waited for before
\* (the assertion of VKPerfQuery.cpp:131).
FlushIsComplete == [][FlushResults => count' = 0]_<<clockVars, queryVars>>
=============================================================================
