--------------------------- MODULE ReactLoop_proofs ---------------------------
(***************************************************************************)
(* The agent loop, for any tools, texts, walls and limits: what it masks,  *)
(* drops, counts and reads is justified by the looks and the observations  *)
(* of its steps.                                                           *)
(***************************************************************************)
EXTENDS ReactLoop, FiniteSetTheorems, TLAPS

(* Of a history only that it is a sequence matters, not what of.           *)
IsHistory(s) == \E T : s \in Seq(T)

LEMMA HistoryGrows ==
  ASSUME NEW s, IsHistory(s), NEW x
  PROVE  /\ IsHistory(Append(s, x))
         /\ Len(s) \in Nat /\ DOMAIN s = 1..Len(s)
         /\ Len(Append(s, x)) = Len(s) + 1
         /\ DOMAIN Append(s, x) = 1..(Len(s) + 1)
         /\ \A i \in 1..Len(s) : Append(s, x)[i] = s[i]
         /\ Append(s, x)[Len(s) + 1] = x
<1>1. PICK T : s \in Seq(T)
  BY DEF IsHistory
<1>2. s \in Seq(T \cup {x})
  BY <1>1
<1>3. Append(s, x) \in Seq(T \cup {x})
  BY <1>2
<1> QED
  BY <1>2, <1>3 DEF IsHistory

-----------------------------------------------------------------------------
(* The phases of a step that has looked at the page and has not ended.     *)
InStep == {"chat", "plan", "read", "grep", "list", "act", "press_key", "reason"}

(* A step looks once and is written down once; the cache holds the last look. *)
HistoryInv ==
  /\ IsHistory(tape) /\ IsHistory(seen)
  /\ Len(seen) \in {Len(tape), Len(tape) + 1}
  /\ phase = "look" => Len(seen) = Len(tape)
  /\ phase \in InStep => Len(seen) = Len(tape) + 1
  /\ prev = IF Len(seen) = 0 THEN NoText ELSE seen[Len(seen)]
  /\ \A i \in DOMAIN seen : seen[i] # NoText
  /\ streak \in Nat /\ page \in Texts

(* What a step leaves behind when it ends, and in the variables that the
   next steps are decided by.                                                *)
Remains(action, obs) ==
  \/ /\ obs = Error \/ obs = Ok \/ \E text : obs = Served(text)   (* shown or failed *)
     /\ UNCHANGED <<hidden, grepSeen>>
     /\ streak' = 0 \/ (obs = Error /\ streak' = streak)
  \/ /\ \E o : obs = Exhausted(o)                       (* nothing new: masked *)
     /\ hidden' = hidden \cup {action}
     /\ UNCHANGED grepSeen
     /\ action \in {"read", "list_interactive"}
     /\ streak' = 0 \/ streak' = streak
  \/ /\ obs = Duplicate /\ action = "read_grep"                (* a vain search *)
     /\ streak' = streak + 1
     /\ hidden' = IF streak' >= 2 THEN hidden \cup {action} ELSE hidden
     /\ UNCHANGED grepSeen
  \/ /\ \E lines : obs = Printed(lines \ grepSeen) /\ grepSeen' = grepSeen \cup lines
     /\ action = "read_grep"
     /\ streak' = 0
     /\ UNCHANGED hidden

Ends == \E action, offset, obs :
  /\ phase \in InStep
  /\ EndStep(action, offset, obs)
  /\ Remains(action, obs)
  /\ page' \in Texts \cup {page}
  /\ UNCHANGED readCache
  /\ action = "read" /\ obs.kind = "text" =>
       phase = "read" /\ offset = at /\ obs.text = Window(page, at, ReadLimit)

(* A read is planned: a window that was not served before is recorded.     *)
Plans == \E text \in Evaluated :
  /\ phase = "plan" /\ phase' = "read" /\ UNCHANGED page
  /\ ~WasServed(readCache, at', Window(text, at', ReadLimit))
  /\ readCache' = Record(readCache, at', Window(text, at', ReadLimit))

(* Up to the read itself only a flaky page moves.                          *)
Waits ==
  /\ UNCHANGED readCache
  /\ Flaky \/ UNCHANGED page
  /\ phase' \in {"chat", "plan", "read"} => phase \in {"chat", "plan", "read"}
  /\ phase' = "read" => phase = "read" /\ UNCHANGED at

(* A step between awaits of which the histories and the masks see nothing. *)
Quiet ==
  /\ UNCHANGED <<walls, tape, hidden, grepSeen, streak>>
  /\ phase' # "look"  \/ phase = "look"
  /\ phase' \in InStep => phase \in InStep
  /\ page' \in Texts \cup {page}
  /\ Plans \/ Waits

(* A plan that is not exhausted is for a window that was not served before. *)
LEMMA PlanIsNew ==
  ASSUME NEW text, NEW from, NEW cache, NEW limit, NEW hopLimit,
         ~PlanRead(text, from, cache, limit, hopLimit).exhausted
  PROVE  LET plan == PlanRead(text, from, cache, limit, hopLimit) IN
         /\ ~WasServed(cache, plan.offset, Window(text, plan.offset, limit))
         /\ plan.served = Window(text, plan.offset, limit)
<1> DEFINE Stops(k) == \/ PastEnd(text, from + k * limit)
                       \/ ~Hit(text, cache, from + k * limit, limit)
                       \/ Cap(k, hopLimit)
           offset == from + (CHOOSE k \in 0..hopLimit :
                               Stops(k) /\ \A j \in 0..(k - 1) : ~Stops(j)) * limit
           plan == PlanRead(text, from, cache, limit, hopLimit)
<1>1. /\ plan.offset = offset
      /\ plan.exhausted = (PastEnd(text, offset) \/ Hit(text, cache, offset, limit))
      /\ plan.served = IF PastEnd(text, offset) \/ Hit(text, cache, offset, limit)
                       THEN <<>> ELSE Window(text, offset, limit)
  BY Zenon DEF PlanRead
<1> HIDE DEF offset
<1> QED
  BY <1>1 DEF Hit

LEMMA GrepEnds ==
  ASSUME NEW lines, phase \in InStep, GrepPrints(lines)
  PROVE  Ends
<1>1. CASE lines \subseteq grepSeen
  <2>1. EndStep("read_grep", 0, Duplicate) /\ Remains("read_grep", Duplicate)
        /\ UNCHANGED <<page, readCache>>
    BY <1>1 DEF GrepPrints, Remains, caches
  <2> QED
    BY <2>1 DEF Ends
<1>2. CASE ~(lines \subseteq grepSeen)
  <2>1. /\ EndStep("read_grep", 0, Printed(lines \ grepSeen))
        /\ Remains("read_grep", Printed(lines \ grepSeen))
        /\ UNCHANGED <<page, readCache>>
    BY <1>2 DEF GrepPrints, Remains, StreakReset
  <2> QED
    BY <2>1 DEF Ends
<1> QED
  BY <1>1, <1>2

LEMMA RaiseEnds ==
  ASSUME NEW action, NEW offset, phase \in InStep, Raises(action, offset)
  PROVE  Ends
<1>1. EndStep(action, offset, Error) /\ Remains(action, Error) /\ Error.kind = "error"
      /\ UNCHANGED <<page, readCache>>
  BY DEF Raises, Remains, caches, Error
<1> QED
  BY <1>1 DEF Ends

(* Every step of the loop looks, ends a step, or is quiet.                 *)
LEMMA StepForms == [Next]_vars => Look \/ Ends \/ Quiet
<1> SUFFICES ASSUME [Next]_vars PROVE Look \/ Ends \/ Quiet
  OBVIOUS
<1>1. CASE UNCHANGED vars
  BY <1>1 DEF vars, Quiet, Waits, walls, caches
<1>2. CASE Look
  BY <1>2
<1>3. CASE LastStep \/ NoToolCall \/ DoneAccepted \/ ForcedDone \/ Distilled
           \/ ChatRaises \/ Cancelled \/ Hangs \/ PageMoves
  BY <1>3 DEF LastStep, NoToolCall, DoneAccepted, ForcedDone, Done, Distilled, ChatRaises,
              Cancelled, Hangs, PageMoves, Quiet, Waits, walls, caches, InStep
<1>4. CASE Chat
  BY <1>4 DEF Chat, Calls, Quiet, Waits, walls, caches, InStep
<1>5. ASSUME NEW name, NotAllowed(name) \/ NoReason(name) PROVE Ends
  BY <1>5, RaiseEnds DEF NotAllowed, NoReason, InStep
<1>6. CASE GrepBlocked \/ GrepReturns
  <2>1. phase \in InStep /\ \E lines : GrepPrints(lines)
    BY <1>6 DEF GrepBlocked, GrepReturns, InStep
  <2> QED
    BY <2>1, GrepEnds
<1>7. CASE DoneRejected \/ ReadRaises \/ GrepRaises \/ ToolRaises
  BY <1>7, RaiseEnds DEF DoneRejected, ReadRaises, GrepRaises, ToolRaises, InStep
<1>8. CASE PlanTheRead
  <2>1. PICK text \in Evaluated : 
          LET plan == PlanRead(text, at, readCache, ReadLimit, MaxHops) IN
          IF plan.exhausted
          THEN /\ hidden' = hidden \cup {"read"}
               /\ EndStep("read", at, Exhausted(plan.offset))
               /\ UNCHANGED <<page, caches, streak>>
          ELSE /\ readCache' = Record(readCache, RecordedAt(plan), plan.served)
               /\ at' = plan.offset /\ phase' = "read"
               /\ UNCHANGED <<page, step, hops, hidden, listCache, grepSeen, streak,
                              walls, tape, ends>>
    BY <1>8 DEF PlanTheRead
  <2> DEFINE plan == PlanRead(text, at, readCache, ReadLimit, MaxHops)
  <2> HIDE DEF plan
  <2>2. CASE plan.exhausted
    <3>1. EndStep("read", at, Exhausted(plan.offset)) /\ Remains("read", Exhausted(plan.offset))
          /\ Exhausted(plan.offset).kind = "end" /\ UNCHANGED <<page, readCache>>
      BY <2>1, <2>2 DEF plan, Remains, caches, Exhausted
    <3> QED
      BY <3>1, <1>8 DEF Ends, PlanTheRead, InStep
  <2>3. CASE ~plan.exhausted
    <3>1. Plans
      BY <2>1, <2>3, <1>8, PlanIsNew DEF plan, Plans, PlanTheRead, RecordedAt
    <3> QED
      BY <2>1, <2>3, <3>1, <1>8 DEF plan, Quiet, PlanTheRead, InStep
  <2> QED
    BY <2>2, <2>3
<1>9. CASE ReadReturns
  <2>1. PICK obs \in {Error, Served(Window(page, at, ReadLimit))} : EndStep("read", at, obs)
    BY <1>9 DEF ReadReturns
  <2>2. Remains("read", obs) /\ UNCHANGED <<page, readCache>>
    BY <1>9, <2>1 DEF ReadReturns, Remains, caches
  <2>3. obs.kind = "text" => obs.text = Window(page, at, ReadLimit)
    BY <2>1 DEF Error, Served
  <2> QED
    BY <1>9, <2>1, <2>2, <2>3 DEF Ends, ReadReturns, InStep
<1>10. CASE ListSnapshot
  <2>1. CASE ~WasServed(listCache, at, Listed(at))
    <3>1. EndStep("list_interactive", at, Served(<<Listed(at)>>))
          /\ Remains("list_interactive", Served(<<Listed(at)>>)) /\ UNCHANGED <<page, readCache>>
      BY <1>10, <2>1 DEF ListSnapshot, Remains
    <3> QED
      BY <1>10, <3>1 DEF Ends, ListSnapshot, InStep
  <2>2. CASE WasServed(listCache, at, Listed(at)) /\ hops + 1 >= MaxHops
    <3>1. EndStep("list_interactive", at, Exhausted(at))
          /\ Remains("list_interactive", Exhausted(at)) /\ UNCHANGED <<page, readCache>>
      BY <1>10, <2>2 DEF ListSnapshot, Remains, caches
    <3> QED
      BY <1>10, <3>1 DEF Ends, ListSnapshot, InStep
  <2>3. CASE WasServed(listCache, at, Listed(at)) /\ ~(hops + 1 >= MaxHops)
    BY <1>10, <2>3 DEF ListSnapshot, Quiet, Waits, caches
  <2> QED
    BY <2>1, <2>2, <2>3
<1>11. CASE ListFails
  <2>1. EndStep("list_interactive", at, Error) /\ Remains("list_interactive", Error)
        /\ UNCHANGED <<page, readCache>>
    BY <1>11 DEF ListFails, Remains, caches
  <2> QED
    BY <1>11, <2>1 DEF Ends, ListFails, InStep
<1>12. CASE ToolReturns
  <2>1. EndStep(phase, 0, Ok) /\ Remains(phase, Ok)
        /\ page' \in Texts \cup {page} /\ UNCHANGED readCache
    BY <1>12 DEF ToolReturns, Remains, caches
  <2> QED
    BY <1>12, <2>1 DEF Ends, ToolReturns, InStep
<1> QED
  BY <1>1, <1>2, <1>3, <1>4, <1>5, <1>6, <1>7, <1>8, <1>9, <1>10, <1>11, <1>12
     DEF Next, Proceed, Replies, Returns, Finished

-----------------------------------------------------------------------------
(* A look is either at the text of the last one, and then nothing is dropped,
   or everything that was remembered of it goes.                             *)
LEMMA LookForms ==
  ASSUME HistoryInv, Look
  PROVE  \E text \in Texts \cup {<<>>} :
           /\ seen' = Append(seen, text) /\ prev' = text
           /\ phase' = "chat" /\ phase = "look" /\ tape' = tape
           /\ \/ /\ Len(seen) > 0 => text = seen[Len(seen)]
                 /\ hidden' = hidden \cup (IF KeyStuck(text) THEN {"press_key"} ELSE {})
                 /\ UNCHANGED <<readCache, listCache, grepSeen, streak>>
              \/ /\ Len(seen) > 0 /\ text # seen[Len(seen)]
                 /\ hidden' = {} /\ grepSeen' = {} /\ streak' = 0
                 /\ readCache' = EmptyCache
           /\ wallKind' = WallOf[text]
           /\ wallStreak' = IF WallOf[text] = "none" THEN 0 ELSE StreakOf(WallOf[text])
<1>1. PICK text \in Evaluated :
        LET moved == prev # NoText /\ prev # text IN
        /\ hidden' = MasksAfter(moved) \cup (IF KeyStuck(text) THEN {"press_key"} ELSE {})
        /\ readCache' = IF moved THEN EmptyCache ELSE readCache
        /\ listCache' = IF moved THEN EmptyCache ELSE listCache
        /\ grepSeen' = PrintedAfter(moved)
        /\ streak' = IF moved THEN 0 ELSE streak
        /\ wallKind' = WallOf[text]
        /\ wallStreak' = IF WallOf[text] = "none" THEN 0 ELSE StreakOf(WallOf[text])
        /\ prev' = text
        /\ seen' = Append(seen, text)
  BY DEF Look
<1>2. text \in Texts \cup {<<>>}
  BY DEF Evaluated, HistoryInv
<1>3. /\ Len(seen) \in Nat
      /\ prev = IF Len(seen) = 0 THEN NoText ELSE seen[Len(seen)]
      /\ \A i \in 1..Len(seen) : seen[i] # NoText
  BY HistoryGrows DEF HistoryInv
<1>4. phase' = "chat" /\ phase = "look" /\ tape' = tape
  BY DEF Look
<1>5. CASE prev # NoText /\ prev # text
  <2>1. ~KeyStuck(text)
    BY <1>5 DEF KeyStuck
  <2>2. Len(seen) > 0 /\ prev = seen[Len(seen)]
    BY <1>3, <1>5
  <2> QED
    BY <1>1, <1>2, <1>4, <1>5, <2>1, <2>2 DEF MasksAfter, PrintedAfter
<1>6. CASE ~(prev # NoText /\ prev # text)
  <2>1. Len(seen) > 0 => text = seen[Len(seen)]
    BY <1>3, <1>6
  <2> QED
    BY <1>1, <1>2, <1>4, <1>6, <2>1 DEF MasksAfter, PrintedAfter
<1> QED
  BY <1>5, <1>6

LEMMA HistoryStep == HistoryInv /\ [Next]_vars => HistoryInv'
<1> SUFFICES ASSUME HistoryInv, [Next]_vars PROVE HistoryInv'
  OBVIOUS
<1>1. CASE Look
  <2>1. PICK text : /\ seen' = Append(seen, text) /\ prev' = text
                    /\ phase' = "chat" /\ phase = "look" /\ tape' = tape
                    /\ text # NoText /\ streak' \in Nat
    BY <1>1, LookForms, LoopAssumption DEF HistoryInv
  <2>2. /\ IsHistory(seen') /\ Len(seen') = Len(seen) + 1
        /\ DOMAIN seen' = 1..(Len(seen) + 1) /\ DOMAIN seen = 1..Len(seen)
        /\ \A i \in 1..Len(seen) : seen'[i] = seen[i]
        /\ seen'[Len(seen) + 1] = text
        /\ Len(seen) \in Nat
    BY <2>1, HistoryGrows DEF HistoryInv
  <2>3. Len(seen) = Len(tape) /\ IsHistory(tape') /\ Len(tape') = Len(tape) /\ page' = page
    BY <1>1, <2>1 DEF HistoryInv, Look
  <2>4. prev' = IF Len(seen') = 0 THEN NoText ELSE seen'[Len(seen')]
    BY <2>1, <2>2
  <2>5. \A i \in DOMAIN seen' : seen'[i] # NoText
    <3>1. \A i \in 1..Len(seen) : seen[i] # NoText
      BY <2>2 DEF HistoryInv
    <3> QED
      BY <2>1, <2>2, <3>1
  <2> QED
    BY <2>1, <2>2, <2>3, <2>4, <2>5 DEF HistoryInv, InStep
<1>2. CASE Ends
  <2>1. PICK action, offset, obs : /\ phase \in InStep
                                   /\ EndStep(action, offset, obs)
                                   /\ Remains(action, obs)
                                   /\ page' \in Texts
    BY <1>2 DEF Ends, HistoryInv
  <2>2. streak' \in Nat
    BY <2>1 DEF Remains, HistoryInv
  <2>3. IsHistory(tape') /\ Len(tape') = Len(tape) + 1 /\ Len(tape) \in Nat
    BY <2>1, HistoryGrows DEF HistoryInv, EndStep
  <2>4. phase' = "look" /\ seen' = seen /\ prev' = prev
    BY <2>1 DEF EndStep, walls
  <2> QED
    BY <2>1, <2>2, <2>3, <2>4 DEF HistoryInv, InStep
<1>3. CASE Quiet
  BY <1>3 DEF HistoryInv, Quiet, walls
<1> QED
  BY <1>1, <1>2, <1>3, StepForms

LEMMA Kinds ==
  /\ Error.kind = "error" /\ Ok.kind = "ok" /\ Duplicate.kind = "duplicate"
  /\ \A x : Served(x).kind = "text" /\ Served(x).text = x
  /\ \A x : Exhausted(x).kind = "end"
  /\ \A x : Printed(x).kind = "lines" /\ Printed(x).lines = x
BY DEF Error, Ok, Duplicate, Served, Exhausted, Printed

-----------------------------------------------------------------------------
(* A look keeps every step of the page it finds, or none.                  *)
LEMMA LookSteady ==
  ASSUME HistoryInv, Look
  PROVE  /\ tape' = tape /\ DOMAIN tape = 1..Len(tape) /\ Len(tape) \in Nat
         /\ \/ /\ \A i \in DOMAIN tape : SteadySince(i)' <=> SteadySince(i)
               /\ UNCHANGED <<readCache, grepSeen, streak>>
               /\ \/ hidden' = hidden
                  \/ /\ hidden' = hidden \cup {"press_key"}
                     /\ \E i \in DOMAIN tape :
                          tape[i].action = "press_key" /\ SteadySince(i)'
            \/ /\ \A i \in DOMAIN tape : ~SteadySince(i)'
               /\ hidden' = {} /\ grepSeen' = {} /\ streak' = 0
               /\ readCache' = EmptyCache
<1>1. PICK text \in Texts \cup {<<>>} :
        /\ seen' = Append(seen, text)
        /\ \/ /\ Len(seen) > 0 => text = seen[Len(seen)]
              /\ hidden' = hidden \cup (IF KeyStuck(text) THEN {"press_key"} ELSE {})
              /\ UNCHANGED <<readCache, listCache, grepSeen, streak>>
           \/ /\ Len(seen) > 0 /\ text # seen[Len(seen)]
              /\ hidden' = {} /\ grepSeen' = {} /\ streak' = 0
              /\ readCache' = EmptyCache
  BY LookForms
<1> DEFINE n == Len(seen)
<1>2. /\ n \in Nat /\ Len(seen') = n + 1
      /\ \A i \in 1..n : seen'[i] = seen[i]
      /\ seen'[n + 1] = text
  BY <1>1, HistoryGrows DEF HistoryInv
<1>3. tape' = tape /\ DOMAIN tape = 1..n /\ Len(tape) = n
  BY HistoryGrows DEF HistoryInv, Look
<1> HIDE DEF n
<1>4. ASSUME n > 0 => text = seen[n]
      PROVE  \A i \in 1..n : SteadySince(i)' <=> SteadySince(i)
  <2> SUFFICES ASSUME NEW i \in 1..n PROVE SteadySince(i)' <=> SteadySince(i)
    OBVIOUS
  <2>1. text = seen[n] /\ i..(n + 1) = i..n \cup {n + 1}
    BY <1>2, <1>4
  <2>2. SteadySince(i)' <=> \A j \in i..(n + 1) : seen'[j] = text
    BY <1>2 DEF SteadySince
  <2>3. (\A j \in i..(n + 1) : seen'[j] = text) <=> \A j \in i..n : seen[j] = text
    BY <1>2, <2>1
  <2> QED
    BY <2>1, <2>2, <2>3 DEF SteadySince, n
<1>5. ASSUME n > 0, text # seen[n]
      PROVE  \A i \in 1..n : ~SteadySince(i)'
  BY <1>2, <1>5 DEF SteadySince
<1>6. CASE n > 0 => text = seen[n]
  <2>1. hidden' = hidden \cup (IF KeyStuck(text) THEN {"press_key"} ELSE {})
        /\ UNCHANGED <<readCache, grepSeen, streak>>
    BY <1>1, <1>6 DEF n
  <2>2. CASE KeyStuck(text)
    <3>1. n \in 1..n /\ tape[n].action = "press_key"
      BY <1>2, <1>3, <2>2 DEF KeyStuck
    <3>2. SteadySince(n)
      BY <1>2 DEF SteadySince, n
    <3> QED
      BY <1>2, <1>3, <1>4, <1>6, <2>1, <2>2, <3>1, <3>2
  <2>3. CASE ~KeyStuck(text)
    BY <1>2, <1>3, <1>4, <1>6, <2>1, <2>3
  <2> QED
    BY <2>2, <2>3
<1>7. CASE n > 0 /\ text # seen[n]
  BY <1>1, <1>2, <1>3, <1>5, <1>7 DEF n
<1> QED
  BY <1>2, <1>6, <1>7

(* The end of step n adds what it did, on the page of the last look.       *)
Adds(n, action, offset, obs) ==
  /\ n \in Nat \ {0}
  /\ Len(seen) = n /\ Len(tape) = n - 1 /\ Len(tape') = n
  /\ DOMAIN tape = 1..(n - 1) /\ DOMAIN tape' = 1..n
  /\ DOMAIN tape' = DOMAIN tape \cup {n} /\ n \notin DOMAIN tape
  /\ \A i \in DOMAIN tape : tape'[i] = tape[i]
  /\ tape'[n].action = action /\ tape'[n].offset = offset /\ tape'[n].obs = obs
  /\ seen' = seen /\ SteadySince(n)'
  /\ \A i \in DOMAIN tape : SteadySince(i)' <=> SteadySince(i)

LEMMA TapeGrows ==
  ASSUME HistoryInv, Ends
  PROVE  \E n, action, offset, obs :
           /\ Adds(n, action, offset, obs) /\ Remains(action, obs)
           /\ UNCHANGED readCache /\ phase' = "look"
           /\ action = "read" /\ obs.kind = "text" =>
                phase = "read" /\ offset = at /\ obs.text = Window(page, at, ReadLimit)
<1>1. PICK action, offset, obs :
        /\ phase \in InStep
        /\ EndStep(action, offset, obs)
        /\ Remains(action, obs)
        /\ UNCHANGED readCache
        /\ action = "read" /\ obs.kind = "text" =>
             phase = "read" /\ offset = at /\ obs.text = Window(page, at, ReadLimit)
  BY DEF Ends
<1>2. /\ tape' = Append(tape, [action |-> action, offset |-> offset, obs |-> obs])
      /\ seen' = seen /\ phase' = "look"
  BY <1>1 DEF EndStep, walls
<1>3. IsHistory(tape) /\ Len(seen) = Len(tape) + 1
  BY <1>1 DEF HistoryInv
<1>4. Len(tape) \in Nat
  BY <1>3, HistoryGrows
<1>5. PICK n : n \in Nat \ {0} /\ n = Len(tape) + 1
  BY <1>4
<1>6. /\ Len(seen) = n /\ Len(tape) = n - 1 /\ Len(tape') = n
      /\ DOMAIN tape = 1..(n - 1) /\ DOMAIN tape' = 1..n
      /\ \A i \in DOMAIN tape : tape'[i] = tape[i]
      /\ tape'[n] = [action |-> action, offset |-> offset, obs |-> obs]
  BY <1>2, <1>3, <1>5, HistoryGrows
<1>7. DOMAIN tape' = DOMAIN tape \cup {n} /\ n \notin DOMAIN tape
  BY <1>6
<1>8. SteadySince(n)' /\ \A i : SteadySince(i)' <=> SteadySince(i)
  BY <1>2, <1>6 DEF SteadySince
<1>9. Adds(n, action, offset, obs)
  BY <1>2, <1>5, <1>6, <1>7, <1>8 DEF Adds
<1> QED
  BY <1>1, <1>2, <1>9

-----------------------------------------------------------------------------
LEMMA MasksStep == HistoryInv /\ MasksAreEarned /\ [Next]_vars => MasksAreEarned'
<1> SUFFICES ASSUME HistoryInv, MasksAreEarned, [Next]_vars PROVE MasksAreEarned'
  OBVIOUS
<1>1. CASE Look
  BY <1>1, LookSteady DEF MasksAreEarned
<1>2. CASE Ends
  <2>1. PICK n, action, offset, obs : Adds(n, action, offset, obs) /\ Remains(action, obs)
    BY <1>2, TapeGrows
  <2>2. Adds(n, action, offset, obs)
    BY <2>1
  <2>3. hidden' \subseteq hidden
        \/ (hidden' \subseteq hidden \cup {action} /\ obs.kind \in {"end", "duplicate"})
    BY <2>1 DEF Remains, Exhausted, Duplicate
  <2> QED
    BY <2>2, <2>3 DEF MasksAreEarned, Adds
<1>3. CASE Quiet
  BY <1>3 DEF Quiet, walls, MasksAreEarned, SteadySince
<1> QED
  BY <1>1, <1>2, <1>3, StepForms

LEMMA PrintedStep == HistoryInv /\ PrintedOnThisPage /\ [Next]_vars => PrintedOnThisPage'
<1> SUFFICES ASSUME HistoryInv, PrintedOnThisPage, [Next]_vars PROVE PrintedOnThisPage'
  OBVIOUS
<1>1. CASE Look
  BY <1>1, LookSteady DEF PrintedOnThisPage
<1>2. CASE Ends
  <2>1. PICK n, action, offset, obs : Adds(n, action, offset, obs) /\ Remains(action, obs)
    BY <1>2, TapeGrows
  <2>2. Adds(n, action, offset, obs)
    BY <2>1
  <2> DEFINE Prints == {k \in DOMAIN tape : tape[k].obs.kind = "lines" /\ SteadySince(k)}
  <2>3. \/ UNCHANGED grepSeen /\ obs.kind # "lines"
        \/ \E lines : obs = Printed(lines \ grepSeen) /\ grepSeen' = grepSeen \cup lines
    BY <2>1, Kinds DEF Remains
  <2>4. CASE UNCHANGED grepSeen /\ obs.kind # "lines"
    <3>1. Prints' = Prints
      BY <2>2, <2>4 DEF Adds
    <3> QED
      BY <2>2, <2>4, <3>1 DEF PrintedOnThisPage, Adds
  <2>5. ASSUME NEW lines, obs = Printed(lines \ grepSeen), grepSeen' = grepSeen \cup lines
        PROVE  PrintedOnThisPage'
    <3>1. Prints' = Prints \cup {n}
      BY <2>2, <2>5 DEF Printed, Adds
    <3>2. tape'[n].obs.lines = lines \ grepSeen
      BY <2>2, <2>5 DEF Printed, Adds
    <3>3. (UNION {tape[i].obs.lines : i \in Prints})'
            = (UNION {tape[i].obs.lines : i \in Prints}) \cup (lines \ grepSeen)
      BY <2>2, <3>1, <3>2 DEF Adds
    <3>4. grepSeen = UNION {tape[i].obs.lines : i \in Prints}
      BY DEF PrintedOnThisPage
    <3> HIDE DEF Prints
    <3>5. grepSeen' = (UNION {tape[i].obs.lines : i \in Prints})'
      BY <2>5, <3>3, <3>4
    <3> QED
      BY <3>5 DEF PrintedOnThisPage, Prints
  <2> QED
    BY <2>3, <2>4, <2>5
<1>3. CASE Quiet
  BY <1>3 DEF Quiet, walls, PrintedOnThisPage, SteadySince
<1> QED
  BY <1>1, <1>2, <1>3, StepForms

-----------------------------------------------------------------------------
(* The streak counts a search of this page that printed nothing new, after
   which only failures and spent reads came.                                 *)
VainSince(i) ==
  /\ tape[i].obs = Duplicate /\ SteadySince(i)
  /\ \A k \in (i + 1)..Len(tape) : tape[k].obs.kind \in {"error", "end"}

VainInv ==
  /\ streak >= 1 => \E i \in DOMAIN tape : VainSince(i)
  /\ TwoVainSearches

LEMMA VainStep == HistoryInv /\ VainInv /\ [Next]_vars => VainInv'
<1> SUFFICES ASSUME HistoryInv, VainInv, [Next]_vars PROVE VainInv'
  OBVIOUS
<1>1. CASE Look
  <2>1. tape' = tape
    BY <1>1, LookSteady
  <2>2. CASE /\ \A i \in DOMAIN tape : SteadySince(i)' <=> SteadySince(i)
             /\ streak' = streak /\ hidden' \subseteq hidden \cup {"press_key"}
    BY <2>1, <2>2 DEF VainInv, VainSince, TwoVainSearches
  <2>3. CASE hidden' = {} /\ streak' = 0
    BY <2>3 DEF VainInv, TwoVainSearches
  <2> QED
    BY <1>1, <2>2, <2>3, LookSteady
<1>2. CASE Ends
  <2>1. PICK n, action, offset, obs : Adds(n, action, offset, obs) /\ Remains(action, obs)
    BY <1>2, TapeGrows
  <2>2. Adds(n, action, offset, obs)
    BY <2>1
  <2>3. streak \in Nat
    BY DEF HistoryInv
  <2>4. ASSUME "read_grep" \in hidden PROVE TwoVainSearches'
    <3>1. PICK i \in DOMAIN tape, j \in DOMAIN tape :
             /\ i < j /\ SteadySince(i)
             /\ \A k \in {i, j} : tape[k].obs = Duplicate
             /\ \A k \in (i + 1)..(j - 1) : tape[k].obs.kind \in {"error", "end"}
      BY <2>4 DEF VainInv, TwoVainSearches
    <3>2. i \in DOMAIN tape' /\ j \in DOMAIN tape' /\ SteadySince(i)'
      BY <2>2, <3>1 DEF Adds
    <3>3. (i + 1)..(j - 1) \subseteq DOMAIN tape
      BY <2>2 DEF Adds
    <3> QED
      BY <2>2, <3>1, <3>2, <3>3 DEF TwoVainSearches, Adds
  <2>5. ASSUME NEW i \in DOMAIN tape, VainSince(i), obs.kind \in {"error", "end"}
        PROVE  VainSince(i)'
    BY <2>2, <2>5 DEF VainSince, Adds
  <2>6. CASE obs = Duplicate /\ action = "read_grep"
    <3>1. streak' = streak + 1
          /\ hidden' = IF streak' >= 2 THEN hidden \cup {action} ELSE hidden
      BY <2>1, <2>6, Kinds DEF Remains
    <3>2. VainSince(n)'
      BY <2>2, <2>6 DEF VainSince, Adds
    <3>3. ASSUME "read_grep" \notin hidden, "read_grep" \in hidden' PROVE TwoVainSearches'
      <4>1. PICK i \in DOMAIN tape : VainSince(i)
        BY <2>3, <3>1, <3>3 DEF VainInv
      <4>2. /\ i < n /\ i \in DOMAIN tape' /\ n \in DOMAIN tape' /\ SteadySince(i)'
            /\ \A k \in {i, n} : tape'[k].obs = Duplicate
        BY <2>2, <2>6, <4>1 DEF VainSince, Adds
      <4>3. \A k \in (i + 1)..(n - 1) : tape'[k].obs.kind \in {"error", "end"}
        BY <2>2, <4>1 DEF VainSince, Adds
      <4> QED
        BY <4>2, <4>3 DEF TwoVainSearches
    <3> QED
      BY <2>2, <2>4, <3>2, <3>3 DEF VainInv, TwoVainSearches, Adds
  <2>7. CASE obs.kind \in {"error", "end"}
    <3>1. streak' \in {0, streak} /\ ("read_grep" \in hidden' => "read_grep" \in hidden)
      BY <2>1, <2>7, Kinds DEF Remains
    <3> QED
      BY <2>2, <2>3, <2>4, <2>5, <2>7, <3>1 DEF VainInv, TwoVainSearches, Adds
  <2>8. CASE ~(obs = Duplicate /\ action = "read_grep") /\ obs.kind \notin {"error", "end"}
    <3>1. streak' = 0 /\ hidden' = hidden
      BY <2>1, <2>8, Kinds DEF Remains
    <3> QED
      BY <2>4, <3>1 DEF VainInv, TwoVainSearches
  <2> QED
    BY <2>6, <2>7, <2>8
<1>3. CASE Quiet
  BY <1>3 DEF Quiet, walls, VainInv, VainSince, TwoVainSearches, SteadySince
<1> QED
  BY <1>1, <1>2, <1>3, StepForms

-----------------------------------------------------------------------------
(* The looks that met the wall of the last one, without another in between. *)
Met(kind) == {i \in DOMAIN seen : \A j \in i..Len(seen) : WallOf[seen[j]] = kind}

WallInv ==
  /\ wallKind = IF Len(seen) = 0 THEN "none" ELSE WallOf[seen[Len(seen)]]
  /\ WallStreakCounts

LEMMA WallStep == HistoryInv /\ WallInv /\ [Next]_vars => WallInv'
<1> SUFFICES ASSUME HistoryInv, WallInv, [Next]_vars PROVE WallInv'
  OBVIOUS
<1>1. CASE Look
  <2>1. PICK text : /\ seen' = Append(seen, text)
                    /\ wallKind' = WallOf[text]
                    /\ wallStreak' = IF WallOf[text] = "none" THEN 0 ELSE StreakOf(WallOf[text])
    BY <1>1, LookForms
  <2>2. PICK n \in Nat : /\ n = Len(seen) /\ Len(seen') = n + 1
                         /\ DOMAIN seen = 1..n /\ DOMAIN seen' = 1..(n + 1)
                         /\ \A i \in 1..n : seen'[i] = seen[i]
                         /\ seen'[n + 1] = text
    BY <2>1, HistoryGrows DEF HistoryInv
  <2>3. PICK kind : kind = WallOf[text]
    OBVIOUS
  <2>4. WallOf[seen'[Len(seen')]] = kind /\ wallKind' = kind
    BY <2>1, <2>2, <2>3
  <2>5. ASSUME kind # "none" PROVE wallStreak' = Cardinality(Met(kind)')
    <3>1. CASE wallKind = kind
      <4>1. n > 0 /\ WallOf[seen[n]] = kind
        BY <2>2, <2>5, <3>1 DEF WallInv
      <4>2. wallStreak = Cardinality(Met(kind))
        BY <2>2, <2>5, <4>1 DEF WallInv, WallStreakCounts, Met
      <4>3. Met(kind)' = Met(kind) \cup {n + 1}
        <5>1. ASSUME NEW i \in 1..n
              PROVE  (\A j \in i..(n + 1) : WallOf[seen'[j]] = kind)
                       <=> \A j \in i..n : WallOf[seen[j]] = kind
          BY <2>2, <2>3
        <5>2. \A j \in (n + 1)..(n + 1) : WallOf[seen'[j]] = kind
          BY <2>2, <2>3
        <5> QED
          BY <2>2, <5>1, <5>2 DEF Met
      <4>4. n + 1 \notin Met(kind) /\ IsFiniteSet(Met(kind))
        <5>1. Met(kind) \subseteq 1..n /\ IsFiniteSet(1..n)
          BY <2>2, FS_Interval DEF Met
        <5> QED
          BY <2>2, <5>1, FS_Subset
      <4>5. Cardinality(Met(kind) \cup {n + 1}) = Cardinality(Met(kind)) + 1
        BY <4>4, FS_AddElement
      <4>6. wallStreak' = wallStreak + 1
        BY <2>1, <2>3, <2>5, <3>1 DEF StreakOf
      <4> QED
        BY <4>2, <4>3, <4>5, <4>6
    <3>2. CASE wallKind # kind
      <4>1. n > 0 => WallOf[seen[n]] # kind
        BY <2>2, <3>2 DEF WallInv
      <4>2. Met(kind)' = {n + 1}
        <5>1. ASSUME NEW i \in 1..n
              PROVE  ~ \A j \in i..(n + 1) : WallOf[seen'[j]] = kind
          BY <2>2, <4>1
        <5>2. \A j \in (n + 1)..(n + 1) : WallOf[seen'[j]] = kind
          BY <2>2, <2>3
        <5> QED
          BY <2>2, <5>1, <5>2 DEF Met
      <4>3. Cardinality({n + 1}) = 1
        BY FS_Singleton
      <4>4. wallStreak' = 1
        BY <2>1, <2>3, <2>5, <3>2 DEF StreakOf
      <4> QED
        BY <4>2, <4>3, <4>4
    <3> QED
      BY <3>1, <3>2
  <2>6. kind = "none" => wallStreak' = 0
    BY <2>1, <2>3
  <2>7. WallStreakCounts'
    <3> SUFFICES ASSUME seen' # <<>>
                 PROVE  wallStreak' = IF kind = "none" THEN 0 ELSE Cardinality(Met(kind)')
      BY <2>4 DEF WallStreakCounts, Met
    <3> QED
      BY <2>5, <2>6
  <2> QED
    BY <2>2, <2>4, <2>7 DEF WallInv
<1>2. CASE Ends \/ Quiet
  <2>1. UNCHANGED <<seen, wallKind, wallStreak>>
    BY <1>2 DEF Ends, EndStep, Quiet, walls
  <2> QED
    BY <2>1 DEF WallInv, WallStreakCounts
<1> QED
  BY <1>1, <1>2, StepForms

-----------------------------------------------------------------------------
(* On a page that only the agent changes the memo holds every window read since
   the text last changed, and a read under way is for another one.           *)
IsRead(i) == tape[i].action = "read" /\ tape[i].obs.kind = "text"

ReadInv == ~Flaky =>
  /\ phase \in {"chat", "plan", "read"} => page = prev
  /\ \A i \in DOMAIN tape : IsRead(i) /\ SteadySince(i) =>
       /\ tape[i].obs.text = Window(prev, tape[i].offset, ReadLimit)
       /\ WasServed(readCache, tape[i].offset, tape[i].obs.text)
  /\ phase = "read" =>
       /\ WasServed(readCache, at, Window(page, at, ReadLimit))
       /\ \A i \in DOMAIN tape : IsRead(i) /\ SteadySince(i) => tape[i].offset # at
  /\ ReadsAreNews

LEMMA SettingStays == [Next]_vars => UNCHANGED setting
BY DEF Next, Proceed, Finished, vars

LEMMA ReadStep == HistoryInv /\ ReadInv /\ [Next]_vars => ReadInv'
<1> SUFFICES ASSUME HistoryInv, ReadInv, [Next]_vars, ~Flaky PROVE ReadInv'
  BY SettingStays DEF ReadInv, Flaky
<1>1. CASE Look
  <2>1. PICK text : seen' = Append(seen, text) /\ prev' = text /\ phase' = "chat"
    BY <1>1, LookForms
  <2>2. page' = page /\ prev' = page
    BY <1>1 DEF Look, Evaluated
  <2>3. Len(seen) \in Nat /\ Len(seen) = Len(tape) /\ DOMAIN tape = 1..Len(tape)
        /\ \A i \in 1..Len(seen) : seen'[i] = seen[i]
    BY <1>1, <2>1, HistoryGrows DEF HistoryInv, Look
  <2>4. tape' = tape
    BY <1>1, LookSteady
  <2>5. ReadsAreNews'
    <3>1. \A i, j \in DOMAIN tape : \A k \in i..j : seen'[k] = seen[k]
      BY <2>3
    <3> QED
      BY <2>3, <2>4, <3>1 DEF ReadInv, ReadsAreNews
  <2>6. CASE \A i \in DOMAIN tape : ~SteadySince(i)'
    BY <2>1, <2>2, <2>4, <2>5, <2>6 DEF ReadInv
  <2>7. CASE /\ \A i \in DOMAIN tape : SteadySince(i)' <=> SteadySince(i)
             /\ readCache' = readCache
    <3>1. ASSUME NEW i \in DOMAIN tape, SteadySince(i)' PROVE prev' = prev
      <4>1. Len(seen') = Len(seen) + 1 /\ seen'[Len(seen) + 1] = text
        BY <2>1, HistoryGrows DEF HistoryInv
      <4>2. seen'[Len(seen)] = seen'[Len(seen) + 1]
        BY <2>3, <3>1, <4>1 DEF SteadySince
      <4> QED
        BY <2>1, <2>3, <4>1, <4>2 DEF HistoryInv
    <3> QED
      BY <2>1, <2>2, <2>4, <2>5, <2>7, <3>1 DEF ReadInv, IsRead
  <2> QED
    BY <1>1, <2>6, <2>7, LookSteady
<1>2. CASE Ends
  <2>1. PICK n, action, offset, obs :
          /\ Adds(n, action, offset, obs) /\ Remains(action, obs)
          /\ UNCHANGED readCache /\ phase' = "look"
          /\ action = "read" /\ obs.kind = "text" =>
               phase = "read" /\ offset = at /\ obs.text = Window(page, at, ReadLimit)
    BY <1>2, TapeGrows
  <2>2. Adds(n, action, offset, obs)
    BY <2>1
  <2>3. prev' = prev
    BY <1>2 DEF Ends, EndStep, walls
  <2>4. \A i \in DOMAIN tape : IsRead(i)' <=> IsRead(i)
    BY <2>2 DEF Adds, IsRead
  <2>5. ASSUME IsRead(n)'
        PROVE  /\ phase = "read" /\ offset = at
               /\ obs.text = Window(prev, offset, ReadLimit)
               /\ WasServed(readCache, offset, obs.text)
    <3>1. phase = "read" /\ offset = at /\ obs.text = Window(page, at, ReadLimit)
      BY <2>1, <2>2, <2>5 DEF Adds, IsRead
    <3> QED
      BY <3>1 DEF ReadInv
  <2>6. ASSUME NEW i \in DOMAIN tape', IsRead(i)', SteadySince(i)'
        PROVE  /\ tape'[i].obs.text = Window(prev, tape'[i].offset, ReadLimit)
               /\ WasServed(readCache, tape'[i].offset, tape'[i].obs.text)
    <3>1. CASE i = n
      BY <2>2, <2>5, <2>6, <3>1 DEF Adds
    <3>2. CASE i \in DOMAIN tape
      BY <2>2, <2>4, <2>6, <3>2 DEF Adds, ReadInv
    <3> QED
      BY <2>2, <3>1, <3>2 DEF Adds
  <2>7. ReadsAreNews'
    <3> SUFFICES ASSUME NEW i \in DOMAIN tape', NEW j \in DOMAIN tape', i < j,
                        tape'[i].action = "read", tape'[j].action = "read",
                        tape'[i].obs.kind = "text", tape'[i].offset = tape'[j].offset,
                        \A k \in i..j : seen'[k] = seen'[i],
                        tape'[j].obs = tape'[i].obs
                 PROVE  FALSE
      BY DEF ReadsAreNews
    <3>1. i \in DOMAIN tape
      BY <2>2 DEF Adds
    <3>2. CASE j \in DOMAIN tape
      BY <2>2, <3>1, <3>2 DEF Adds, ReadInv, ReadsAreNews
    <3>3. CASE j = n
      <4>1. IsRead(n)' /\ IsRead(i)
        BY <2>2, <2>4, <3>1, <3>3 DEF IsRead
      <4>2. tape[i].offset = at
        BY <2>2, <2>5, <3>1, <3>3, <4>1 DEF Adds
      <4>3. SteadySince(i)
        BY <2>2, <3>1, <3>3 DEF Adds, SteadySince
      <4> QED
        BY <2>5, <3>1, <4>1, <4>2, <4>3 DEF ReadInv
    <3> QED
      BY <2>2, <3>2, <3>3 DEF Adds
  <2> QED
    BY <2>1, <2>3, <2>6, <2>7 DEF ReadInv
<1>3. CASE Quiet /\ Plans
  <2>1. PICK text \in Evaluated :
          /\ phase = "plan" /\ phase' = "read" /\ UNCHANGED page
          /\ ~WasServed(readCache, at', Window(text, at', ReadLimit))
          /\ readCache' = Record(readCache, at', Window(text, at', ReadLimit))
    BY <1>3 DEF Plans
  <2>2. UNCHANGED <<prev, seen, tape>> /\ text = page /\ page = prev
    BY <1>3, <2>1 DEF Quiet, walls, Evaluated, ReadInv
  <2> DEFINE new == Window(prev, at', ReadLimit)
  <2>3. WasServed(readCache', at', new)
    BY <2>1, <2>2 DEF Record, WasServed
  <2>4. ASSUME NEW i \in DOMAIN tape, IsRead(i), SteadySince(i)
        PROVE  /\ tape[i].offset # at'
               /\ tape[i].obs.text = Window(prev, tape[i].offset, ReadLimit)
               /\ WasServed(readCache', tape[i].offset, tape[i].obs.text)
    <3>1. /\ tape[i].obs.text = Window(prev, tape[i].offset, ReadLimit)
          /\ WasServed(readCache, tape[i].offset, tape[i].obs.text)
      BY <2>4 DEF ReadInv
    <3>2. tape[i].offset # at'
      BY <2>1, <2>2, <3>1
    <3> QED
      BY <2>1, <3>1, <3>2 DEF Record, WasServed
  <2>5. ReadsAreNews'
    BY <2>2 DEF ReadInv, ReadsAreNews
  <2> QED
    BY <2>1, <2>2, <2>3, <2>4, <2>5 DEF ReadInv, IsRead, SteadySince
<1>4. CASE Quiet /\ Waits
  BY <1>4 DEF Quiet, Waits, walls, ReadInv, IsRead, SteadySince, ReadsAreNews
<1> QED
  BY <1>1, <1>2, <1>3, <1>4, StepForms DEF Quiet

-----------------------------------------------------------------------------
LoopInv ==
  HistoryInv /\ MasksAreEarned /\ PrintedOnThisPage /\ VainInv /\ WallInv /\ ReadInv

LEMMA LoopInit == Init => LoopInv
<1> SUFFICES ASSUME Init PROVE LoopInv
  OBVIOUS
<1>1. tape = <<>> /\ seen = <<>> /\ hidden = {} /\ grepSeen = {} /\ streak = 0
      /\ phase = "look" /\ prev = NoText /\ wallKind = "none" /\ wallStreak = 0 /\ page \in Texts
  BY DEF Init
<1>2. /\ Len(<<>>) = 0 /\ DOMAIN <<>> = {} /\ IsHistory(<<>>)
  BY DEF IsHistory
<1>3. HistoryInv
  BY <1>1, <1>2 DEF HistoryInv, InStep
<1>4. MasksAreEarned /\ PrintedOnThisPage /\ VainInv
  BY <1>1, <1>2 DEF MasksAreEarned, PrintedOnThisPage, VainInv, TwoVainSearches
<1>5. WallInv /\ ReadInv
  BY <1>1, <1>2 DEF WallInv, WallStreakCounts, ReadInv, ReadsAreNews
<1> QED
  BY <1>3, <1>4, <1>5 DEF LoopInv

LEMMA LoopAlways == Spec => []LoopInv
<1>1. LoopInv /\ [Next]_vars => LoopInv'
  BY HistoryStep, MasksStep, PrintedStep, VainStep, WallStep, ReadStep DEF LoopInv
<1> QED
  BY <1>1, LoopInit, PTL DEF Spec

(* No tool stays masked on a page on which it was not vain (loop.py, _hidden_tools
   and its reset when the text of the page changed).                         *)
THEOREM MasksHoldForThePage == Spec => []MasksAreEarned
BY LoopAlways, PTL DEF LoopInv

(* The lines that read_grep drops are exactly those that it printed since the
   text last changed (_read_grep_line_hashes).                               *)
THEOREM DroppedWasPrinted == Spec => []PrintedOnThisPage
BY LoopAlways, PTL DEF LoopInv

(* read_grep is masked only after two vain searches of one page with nothing
   but failures and spent reads in between (_read_grep_dedup_streak).        *)
THEOREM SearchesWereVain == Spec => []TwoVainSearches
<1>1. LoopInv => TwoVainSearches
  BY DEF LoopInv, VainInv
<1> QED
  BY <1>1, LoopAlways, PTL

(* The streak behind the BLOCKED banner is the number of looks in a row at the
   same kind of wall, for any classification of texts (detect_wall).         *)
THEOREM StreakIsOfLooks == Spec => []WallStreakCounts
<1>1. LoopInv => WallStreakCounts
  BY DEF LoopInv, WallInv
<1> QED
  BY <1>1, LoopAlways, PTL

(* A read never repeats what the agent read at that offset since the text last
   changed, if only the agent changes the page (plan_read and its memo).     *)
THEOREM ReadsBringNews == Spec => []ReadsAreNews
<1>1. LoopInv => ReadsAreNews
  BY DEF LoopInv, ReadInv, ReadsAreNews
<1> QED
  BY <1>1, LoopAlways, PTL

=============================================================================
