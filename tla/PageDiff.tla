------------------------------- MODULE PageDiff -------------------------------
(***************************************************************************)
(* page_diff.py: the memo of what a paged tool served at each offset, and  *)
(* plan_read, which walks forward over the windows already served.  A text *)
(* is a sequence; offsets count from 0, as in the code.                    *)
(***************************************************************************)
EXTENDS Integers, Sequences

(* Python's text[from:to]: a negative index counts from the end.           *)
Slice(text, from, to) ==
  LET Index(i) == IF i < 0 THEN (IF Len(text) + i < 0 THEN 0 ELSE Len(text) + i)
                           ELSE (IF i < Len(text) THEN i ELSE Len(text))
  IN  SubSeq(text, Index(from) + 1, Index(to))

Window(text, offset, limit) == Slice(text, offset, offset + limit)

(* OffsetCache: a function from the offsets served so far.                 *)
EmptyCache == <<>>
(* Mutant: the first text served at an offset stays (setdefault).          *)
RecordFirst(cache, offset, served) ==
  [o \in DOMAIN cache \cup {offset} |-> IF o \in DOMAIN cache THEN cache[o] ELSE served]
Record(cache, offset, served) ==
  [o \in DOMAIN cache \cup {offset} |-> IF o = offset THEN served ELSE cache[o]]
WasServed(cache, offset, candidate) ==
  offset \in DOMAIN cache /\ cache[offset] = candidate

(* plan_read: stride k is the first one past the end, not served yet, or at the
   cap on hops.  The plan is exhausted in the first and the last case.

   Mutant: the cap comes a hop late.                                         *)
PastEnd(text, offset) == offset >= Len(text)

CapLate(k, maxHops) == k >= maxHops
Cap(k, maxHops) == k + 1 >= maxHops

Hit(text, cache, offset, limit) ==
  WasServed(cache, offset, Window(text, offset, limit))

PlanRead(text, requested, cache, limit, maxHops) ==
  LET At(k) == requested + k * limit
      Stops(k) == \/ PastEnd(text, At(k))
                  \/ ~Hit(text, cache, At(k), limit)
                  \/ Cap(k, maxHops)
      last == CHOOSE k \in 0..maxHops : Stops(k) /\ \A j \in 0..(k - 1) : ~Stops(j)
      exhausted == PastEnd(text, At(last)) \/ Hit(text, cache, At(last), limit)
  IN  [offset |-> At(last),
       served |-> IF exhausted THEN <<>> ELSE Window(text, At(last), limit),
       advanced |-> last > 0,
       exhausted |-> exhausted]

(* The same as the loop `while True` computes it: "from" is the result of the loop
   from its k-th hop on.                                                     *)
PlanByLoop(text, requested, cache, limit, maxHops) ==
  LET from[k \in 0..maxHops] ==
        LET offset == requested + k * limit
            advanced == offset # requested
        IN  IF PastEnd(text, offset)
            THEN [offset |-> offset, served |-> <<>>, advanced |-> advanced, exhausted |-> TRUE]
            ELSE IF ~Hit(text, cache, offset, limit)
            THEN [offset |-> offset, served |-> Window(text, offset, limit),
                  advanced |-> advanced, exhausted |-> FALSE]
            ELSE IF k + 1 >= maxHops
            THEN [offset |-> offset, served |-> <<>>, advanced |-> advanced, exhausted |-> TRUE]
            ELSE from[k + 1]
  IN  from[0]

=============================================================================
