-------------------------- MODULE SessionPool_proofs --------------------------
(***************************************************************************)
(* For any number of sessions and any capacity: no slot of the pool is     *)
(* lost or given back twice, nobody waits beside a free slot with no one   *)
(* to hand it on, and slots are granted in the order of arrival.           *)
(***************************************************************************)
EXTENDS SessionPoolRefinement, FiniteSetTheorems, SequenceTheorems, TLAPS

(* How many sessions are in one of the states P, when the tasks are at f.  *)
Count(f, P) == Cardinality({s \in Sessions : f[s] \in P})
Owning == Holding \cup {"granted"}

(* The inductive invariant: the two counters in terms of the tasks.        *)
Inv ==
  /\ TypeOK
  /\ value + Count(st, Owning) = Capacity
  /\ inFlight = Count(st, Holding)

LEMMA CountType == ASSUME NEW f, NEW P PROVE Count(f, P) \in Nat
<1>1. IsFiniteSet({s \in Sessions : f[s] \in P})
  BY PoolAssumption, FS_Subset
<1> QED
  BY <1>1, FS_CardinalityType DEF Count

(* The states that own a slot and those that do not.                       *)
LEMMA Slots ==
  /\ Holding \subseteq Owning /\ Owning \subseteq States /\ "granted" \in Owning \ Holding
  /\ "starting" \in Holding /\ "running" \in Holding /\ "closing" \in Holding
  /\ {"new", "announcing", "waiting", "withdrawn", "ended"} \subseteq States \ Owning
BY DEF Holding, Owning, States

(* When one session moves, a count changes by that session only.           *)
LEMMA CountEnter ==
  ASSUME NEW f \in [Sessions -> States], NEW s \in Sessions, NEW x \in States,
         NEW P \in SUBSET States, x \in P, f[s] \notin P
  PROVE  Count([f EXCEPT ![s] = x], P) = Count(f, P) + 1
<1> DEFINE S == {t \in Sessions : f[t] \in P}
           T == {t \in Sessions : [f EXCEPT ![s] = x][t] \in P}
<1>1. T = S \cup {s} /\ s \notin S
  OBVIOUS
<1>2. IsFiniteSet(S)
  BY PoolAssumption, FS_Subset
<1>3. Cardinality(T) = Cardinality(S) + 1
  <2> HIDE DEF S, T
  <2> QED
    BY <1>1, <1>2, FS_AddElement
<1> QED
  BY <1>3 DEF Count

LEMMA CountLeave ==
  ASSUME NEW f \in [Sessions -> States], NEW s \in Sessions, NEW x \in States,
         NEW P \in SUBSET States, x \notin P, f[s] \in P
  PROVE  Count([f EXCEPT ![s] = x], P) = Count(f, P) - 1
<1> DEFINE S == {t \in Sessions : f[t] \in P}
           T == {t \in Sessions : [f EXCEPT ![s] = x][t] \in P}
<1>1. T = S \ {s} /\ s \in S
  OBVIOUS
<1>2. IsFiniteSet(S)
  BY PoolAssumption, FS_Subset
<1>3. Cardinality(T) = Cardinality(S) - 1
  <2> HIDE DEF S, T
  <2> QED
    BY <1>1, <1>2, FS_RemoveElement
<1> QED
  BY <1>3 DEF Count

LEMMA CountStay ==
  ASSUME NEW f \in [Sessions -> States], NEW s \in Sessions, NEW x \in States,
         NEW P \in SUBSET States, x \in P <=> f[s] \in P
  PROVE  Count([f EXCEPT ![s] = x], P) = Count(f, P)
<1>1. {t \in Sessions : [f EXCEPT ![s] = x][t] \in P} = {t \in Sessions : f[t] \in P}
  OBVIOUS
<1> QED
  BY <1>1 DEF Count

(* Handing a slot on keeps the sum of free and owned slots.                *)
LEMMA WakeUpKeepsSlots ==
  ASSUME NEW f \in [Sessions -> States], NEW v \in Nat \ {0}, WakeUpNext(f, v)
  PROVE  /\ st' \in [Sessions -> States]
         /\ value' \in Nat
         /\ value' + Count(st', Owning) = v + Count(f, Owning)
         /\ Count(st', Holding) = Count(f, Holding)
<1>1. CASE st' = f /\ value' = v
  BY <1>1
<1>2. ASSUME NEW s \in Sessions, f[s] = "waiting",
             st' = [f EXCEPT ![s] = "granted"], value' = v - 1
      PROVE  /\ st' \in [Sessions -> States]
             /\ value' \in Nat
             /\ value' + Count(st', Owning) = v + Count(f, Owning)
             /\ Count(st', Holding) = Count(f, Holding)
  <2>1. st' \in [Sessions -> States] /\ value' \in Nat
    BY <1>2 DEF States
  <2>2. /\ f[s] \notin Owning /\ f[s] \notin Holding
        /\ "granted" \in Owning /\ "granted" \notin Holding /\ "granted" \in States
        /\ Owning \in SUBSET States /\ Holding \in SUBSET States
    BY <1>2, Slots
  <2>3. Count([f EXCEPT ![s] = "granted"], Owning) = Count(f, Owning) + 1
    BY <2>2, CountEnter
  <2>4. Count([f EXCEPT ![s] = "granted"], Holding) = Count(f, Holding)
    BY <2>2, CountStay
  <2> QED
    BY <1>2, <2>1, <2>2, <2>3, <2>4, CountType
<1> QED
  BY <1>1, <1>2 DEF WakeUpNext

LEMMA ReleaseKeepsSlots ==
  ASSUME Inv, NEW s \in Sessions, st[s] \in Owning, Release(s)
  PROVE  /\ st' \in [Sessions -> States]
         /\ value' \in Nat
         /\ value' + Count(st', Owning) = Capacity
         /\ Count(st', Holding) = Count(st, Holding) - (IF st[s] \in Holding THEN 1 ELSE 0)
<1> DEFINE f == [st EXCEPT ![s] = "ended"]
<1>1. /\ "ended" \in States /\ "ended" \notin Owning /\ "ended" \notin Holding
      /\ Owning \in SUBSET States /\ Holding \in SUBSET States
  BY Slots
<1>2. st \in [Sessions -> States] /\ value \in Nat /\ value + Count(st, Owning) = Capacity
  BY DEF Inv, TypeOK
<1>3. f \in [Sessions -> States] /\ value + 1 \in Nat \ {0}
  BY <1>1, <1>2
<1>4. Count(f, Owning) = Count(st, Owning) - 1
  BY <1>1, <1>2, CountLeave
<1>5. Count(f, Holding) = Count(st, Holding) - (IF st[s] \in Holding THEN 1 ELSE 0)
  <2>1. CASE st[s] \in Holding
    <3>1. Count(f, Holding) = Count(st, Holding) - 1
      BY <1>1, <1>2, <2>1, CountLeave
    <3> QED
      BY <2>1, <3>1
  <2>2. CASE st[s] \notin Holding
    <3>1. Count(f, Holding) = Count(st, Holding)
      BY <1>1, <1>2, <2>2, CountStay
    <3>2. Count(st, Holding) \in Nat
      BY CountType
    <3> QED
      BY <2>2, <3>1, <3>2
  <2> QED
    BY <2>1, <2>2
<1>6. WakeUpNext(f, value + 1)
  BY DEF Release
<1> HIDE DEF f
<1>7. /\ st' \in [Sessions -> States]
      /\ value' \in Nat
      /\ value' + Count(st', Owning) = value + 1 + Count(f, Owning)
      /\ Count(st', Holding) = Count(f, Holding)
  BY <1>3, <1>6, WakeUpKeepsSlots
<1>8. Count(st, Owning) \in Nat /\ Capacity \in Nat
  BY CountType, PoolAssumption
<1> QED
  BY <1>2, <1>4, <1>5, <1>7, <1>8

(* acquire(): a session that owned nothing takes a slot or joins the queue. *)
LEMMA AcquireKeepsSlots ==
  ASSUME Inv, NEW s \in Sessions, st[s] \in {"new", "announcing"}, Acquire(s)
  PROVE  /\ st' \in [Sessions -> States]
         /\ value' \in Nat
         /\ value' + Count(st', Owning) = Capacity
         /\ inFlight' = Count(st', Holding)
         /\ behind' \in [Sessions -> SUBSET Sessions]
         /\ browser' \in [Sessions -> Browser]
<1>1. /\ st \in [Sessions -> States] /\ value \in Nat
      /\ browser \in [Sessions -> Browser]
      /\ value + Count(st, Owning) = Capacity /\ inFlight = Count(st, Holding)
  BY DEF Inv, TypeOK
<1>2. /\ st[s] \notin Owning /\ st[s] \notin Holding
      /\ "starting" \in Owning /\ "starting" \in Holding /\ "starting" \in States
      /\ "waiting" \notin Owning /\ "waiting" \notin Holding /\ "waiting" \in States
      /\ Owning \in SUBSET States /\ Holding \in SUBSET States
  BY Slots
<1>3. CASE /\ ~Locked /\ value' = value - 1 /\ st' = [st EXCEPT ![s] = "starting"]
           /\ Admitted(s) /\ UNCHANGED behind
  <2>1. Count([st EXCEPT ![s] = "starting"], Owning) = Count(st, Owning) + 1
    BY <1>1, <1>2, CountEnter
  <2>2. Count([st EXCEPT ![s] = "starting"], Holding) = Count(st, Holding) + 1
    BY <1>1, <1>2, CountEnter
  <2>3. value' \in Nat
    BY <1>1, <1>3 DEF Locked
  <2>4. browser' \in [Sessions -> Browser]
    BY <1>1, <1>3 DEF Admitted, Browser
  <2>5. behind' \in [Sessions -> SUBSET Sessions]
    BY <1>3 DEF Inv, TypeOK
  <2> QED
    BY <1>1, <1>2, <1>3, <2>1, <2>2, <2>3, <2>4, <2>5, CountType DEF Admitted
<1>4. CASE /\ Locked /\ st' = [st EXCEPT ![s] = "waiting"] /\ behind' = [behind EXCEPT ![s] = Pending]
           /\ UNCHANGED <<value, inFlight, browser>>
  <2>1. Count([st EXCEPT ![s] = "waiting"], Owning) = Count(st, Owning)
    BY ZenonT(30), <1>1, <1>2, CountStay
  <2>2. Count([st EXCEPT ![s] = "waiting"], Holding) = Count(st, Holding)
    BY ZenonT(30), <1>1, <1>2, CountStay
  <2>3. behind' \in [Sessions -> SUBSET Sessions]
    BY <1>4 DEF Inv, TypeOK, Pending
  <2> QED
    BY <1>1, <1>2, <1>4, <2>1, <2>2, <2>3
<1> QED
  BY <1>3, <1>4 DEF Acquire

(* A step that moves a session within, or outside, the states that own a slot
   and leaves both counters alone.                                           *)
LEMMA MoveKeepsSlots ==
  ASSUME Inv, NEW s \in Sessions, NEW x \in States,
         x \in Owning <=> st[s] \in Owning, x \in Holding <=> st[s] \in Holding,
         st' = [st EXCEPT ![s] = x], value' = value, inFlight' = inFlight
  PROVE  /\ st' \in [Sessions -> States]
         /\ value' \in Nat /\ inFlight' \in Nat
         /\ value' + Count(st', Owning) = Capacity
         /\ inFlight' = Count(st', Holding)
<1>1. /\ st \in [Sessions -> States] /\ value \in Nat /\ inFlight \in Nat
      /\ value + Count(st, Owning) = Capacity /\ inFlight = Count(st, Holding)
  BY DEF Inv, TypeOK
<1>2. Owning \in SUBSET States /\ Holding \in SUBSET States
  BY Slots
<1>3. Count([st EXCEPT ![s] = x], Owning) = Count(st, Owning)
  BY <1>1, <1>2, CountStay
<1>4. Count([st EXCEPT ![s] = x], Holding) = Count(st, Holding)
  BY <1>1, <1>2, CountStay
<1> QED
  BY <1>1, <1>3, <1>4

(* The end of a session that used its slot: both counters go back by one.  *)
LEMMA EndKeepsInv ==
  ASSUME Inv, NEW s \in Sessions, st[s] \in {"starting", "closing"},
         BrowserLeft(s), inFlight' = inFlight - 1, Release(s),
         cancelled' \subseteq Sessions, UNCHANGED <<behind, ahead>>
  PROVE  Inv'
<1>1. st[s] \in Owning /\ st[s] \in Holding
  BY Slots
<1>2. /\ st' \in [Sessions -> States]
      /\ value' \in Nat
      /\ value' + Count(st', Owning) = Capacity
      /\ Count(st', Holding) = Count(st, Holding) - 1
  BY <1>1, ReleaseKeepsSlots
<1>3. inFlight' = Count(st', Holding) /\ inFlight' \in Nat
  BY <1>2, CountType DEF Inv
<1>4. browser' \in [Sessions -> Browser]
  BY DEF BrowserLeft, Browser, Inv, TypeOK
<1> QED
  BY <1>2, <1>3, <1>4 DEF Inv, TypeOK

LEMMA InitInv == Init => Inv
<1> SUFFICES ASSUME Init PROVE Inv
  OBVIOUS
<1>1. {s \in Sessions : st[s] \in Owning} = {} /\ {s \in Sessions : st[s] \in Holding} = {}
  BY Slots DEF Init
<1>2. Count(st, Owning) = 0 /\ Count(st, Holding) = 0
  BY <1>1, FS_EmptySet DEF Count
<1>3. TypeOK
  BY PoolAssumption DEF Init, TypeOK, States, Browser
<1> QED
  BY <1>2, <1>3, PoolAssumption DEF Init, Inv

LEMMA StepInv == Inv /\ [Next]_vars => Inv'
<1> SUFFICES ASSUME Inv, [Next]_vars PROVE Inv'
  OBVIOUS
<1> USE DEF Inv, TypeOK
<1>1. ASSUME NEW s \in Sessions, Arrive(s) PROVE Inv'
  <2>1. CASE inFlight >= Capacity
    <3>1. /\ st' = [st EXCEPT ![s] = "announcing"] /\ value' = value
          /\ inFlight' = inFlight /\ ahead' \in [Sessions -> Nat]
          /\ UNCHANGED <<behind, browser, cancelled>>
      BY <1>1, <2>1, PoolAssumption DEF Arrive
    <3>2. "announcing" \in States /\ "announcing" \notin Owning /\ "announcing" \notin Holding
      BY Slots
    <3>3. st[s] \notin Owning /\ st[s] \notin Holding
      BY <1>1, Slots DEF Arrive
    <3> QED
      BY <3>1, <3>2, <3>3, MoveKeepsSlots
  <2>2. CASE ~(inFlight >= Capacity)
    <3>1. Acquire(s) /\ st[s] \in {"new", "announcing"} /\ UNCHANGED <<ahead, cancelled>>
      BY <1>1, <2>2 DEF Arrive
    <3> QED
      BY <3>1, AcquireKeepsSlots, CountType
  <2> QED
    BY <2>1, <2>2
<1>2. ASSUME NEW s \in Sessions, Announced(s) PROVE Inv'
  <2>1. Acquire(s) /\ st[s] \in {"new", "announcing"} /\ UNCHANGED <<ahead, cancelled>>
    BY <1>2 DEF Announced
  <2> QED
    BY <2>1, AcquireKeepsSlots, CountType
<1>3. ASSUME NEW s \in Sessions, AnnounceFails(s) \/ CancelBeforeSlot(s) PROVE Inv'
  <2>1. /\ st[s] \in {"withdrawn", "announcing"}
        /\ st' = [st EXCEPT ![s] = "ended"] /\ cancelled' \subseteq Sessions
        /\ UNCHANGED <<value, inFlight, behind, ahead, browser>>
    BY <1>3 DEF AnnounceFails, CancelBeforeSlot
  <2>2. /\ "ended" \in States /\ "ended" \notin Owning /\ "ended" \notin Holding
        /\ st[s] \notin Owning /\ st[s] \notin Holding
    BY <2>1, Slots
  <2> QED
    BY <2>1, <2>2, MoveKeepsSlots
<1>4. ASSUME NEW s \in Sessions, Resume(s) PROVE Inv'
  <2> DEFINE f == [st EXCEPT ![s] = "starting"]
  <2>1. /\ st[s] \in Owning /\ st[s] \notin Holding /\ "starting" \in States
        /\ "starting" \in Owning /\ "starting" \in Holding
        /\ Owning \in SUBSET States /\ Holding \in SUBSET States
    BY <1>4, Slots DEF Resume
  <2>2. f \in [Sessions -> States]
    BY <2>1
  <2>3. Count(f, Owning) = Count(st, Owning)
    BY ZenonT(30), <2>1, CountStay
  <2>4. Count(f, Holding) = Count(st, Holding) + 1
    BY <2>1, CountEnter
  <2>5. PassOn(f)
    BY <1>4 DEF Resume
  <2> HIDE DEF f
  <2>6. /\ st' \in [Sessions -> States]
        /\ value' \in Nat
        /\ value' + Count(st', Owning) = value + Count(f, Owning)
        /\ Count(st', Holding) = Count(f, Holding)
    <3>1. CASE value > 0
      <4>1. WakeUpNext(f, value) /\ value \in Nat \ {0}
        BY <2>5, <3>1 DEF PassOn
      <4> QED
        BY <2>2, <4>1, WakeUpKeepsSlots
    <3>2. CASE ~(value > 0)
      BY <2>2, <2>5, <3>2 DEF PassOn
    <3> QED
      BY <3>1, <3>2
  <2>7. /\ inFlight' = inFlight + 1 /\ browser' \in [Sessions -> Browser]
        /\ UNCHANGED <<behind, ahead, cancelled>>
    BY <1>4 DEF Resume, Admitted, Browser
  <2> QED
    BY <2>3, <2>4, <2>6, <2>7, CountType
<1>5. ASSUME NEW s \in Sessions, BrowserStarts(s) PROVE Inv'
  <2>1. /\ st[s] \in Holding /\ st[s] \in Owning /\ "running" \in Holding
        /\ "running" \in Owning /\ "running" \in States
    BY <1>5, Slots DEF BrowserStarts
  <2>2. /\ st' = [st EXCEPT ![s] = "running"] /\ browser' \in [Sessions -> Browser]
        /\ UNCHANGED <<value, inFlight, behind, ahead, cancelled>>
    BY <1>5 DEF BrowserStarts, Browser
  <2> QED
    BY <2>1, <2>2, MoveKeepsSlots
<1>6. ASSUME NEW s \in Sessions, LoopEnds(s) \/ CancelRunning(s) PROVE Inv'
  <2>1. /\ st[s] = "running" /\ st' = [st EXCEPT ![s] = "closing"]
        /\ cancelled' \subseteq Sessions
        /\ UNCHANGED <<value, inFlight, behind, ahead, browser>>
    BY <1>6 DEF LoopEnds, CancelRunning
  <2>2. /\ st[s] \in Holding /\ st[s] \in Owning /\ "closing" \in Holding
        /\ "closing" \in Owning /\ "closing" \in States
    BY <2>1, Slots
  <2> QED
    BY <2>1, <2>2, MoveKeepsSlots
<1>7. ASSUME NEW s \in Sessions,
             StartFails(s) \/ BrowserCloses(s) \/ CancelInBrowserCall(s) PROVE Inv'
  <2>1. /\ st[s] \in {"starting", "closing"} /\ BrowserLeft(s)
        /\ inFlight' = inFlight - 1 /\ Release(s)
        /\ cancelled' \subseteq Sessions /\ UNCHANGED <<behind, ahead>>
    BY <1>7 DEF StartFails, BrowserCloses, CancelInBrowserCall
  <2> QED
    BY <2>1, EndKeepsInv
<1>8. ASSUME NEW s \in Sessions, Disconnect(s) PROVE Inv'
  <2>1. CASE st[s] = "waiting"
    <3>1. /\ st' = [st EXCEPT ![s] = "withdrawn"]
          /\ UNCHANGED <<value, inFlight, behind, ahead, browser, cancelled>>
      BY <1>8, <2>1 DEF Disconnect
    <3>2. /\ st[s] \notin Owning /\ st[s] \notin Holding /\ "withdrawn" \in States
          /\ "withdrawn" \notin Owning /\ "withdrawn" \notin Holding
      BY <2>1, Slots
    <3> QED
      BY <3>1, <3>2, MoveKeepsSlots
  <2>2. CASE st[s] # "waiting"
    BY <1>8, <2>2 DEF Disconnect
  <2> QED
    BY <2>1, <2>2
<1>9. ASSUME NEW s \in Sessions, CancelGranted(s) PROVE Inv'
  <2>1. st[s] \in Owning /\ st[s] \notin Holding
    BY <1>9, Slots DEF CancelGranted
  <2>2. /\ Release(s) /\ cancelled' \subseteq Sessions
        /\ UNCHANGED <<inFlight, behind, ahead, browser>>
    BY <1>9 DEF CancelGranted
  <2> QED
    BY <2>1, <2>2, ReleaseKeepsSlots, CountType
<1>10. CASE UNCHANGED vars
  BY <1>10 DEF vars
<1> QED
  BY <1>1, <1>2, <1>3, <1>4, <1>5, <1>6, <1>7, <1>8, <1>9, <1>10
     DEF Next, Progress, Finished

(* The type invariant, for any number of sessions and any capacity.        *)
THEOREM TypeCorrect == Spec => []TypeOK
<1>1. Inv => TypeOK
  BY DEF Inv
<1> QED
  BY InitInv, StepInv, <1>1, PTL DEF Spec

(* No slot of the semaphore is lost or returned twice, and the counter read
   by the queued notice counts exactly the slots in use.                     *)
THEOREM SlotsAccounted == Spec => []SlotAccounting
<1>1. Inv => SlotAccounting
  <2>1. Granted \cup Holders = {s \in Sessions : st[s] \in Owning}
    BY DEF Granted, Holders, Owning
  <2>2. Holders = {s \in Sessions : st[s] \in Holding}
    BY DEF Holders
  <2> QED
    BY <2>1, <2>2 DEF Inv, SlotAccounting, Count
<1> QED
  BY InitInv, StepInv, <1>1, PTL DEF Spec

-----------------------------------------------------------------------------
(* When somebody waits, _wake_up_next grants.                              *)
LEMMA WakeUpGrants ==
  ASSUME NEW f \in [Sessions -> States], NEW v, WakeUpNext(f, v),
         NEW t \in Sessions, st'[t] = "waiting"
  PROVE  \E s \in Sessions : st'[s] = "granted"
<1>1. CASE {s \in Sessions : f[s] = "waiting"} = {} /\ st' = f
  BY <1>1
<1>2. ASSUME NEW s \in Sessions, st' = [f EXCEPT ![s] = "granted"]
      PROVE  st'[s] = "granted"
  BY <1>2
<1> QED
  BY <1>1, <1>2 DEF WakeUpNext

(* A session that moves without touching the counter, and is not a granted one,
   leaves every free slot with somebody to hand it on.                       *)
LEMMA MoveKeepsWakeup ==
  ASSUME TypeOK, NoLostWakeup, NEW s \in Sessions, NEW x \in States \ {"waiting"},
         st[s] # "granted", st' = [st EXCEPT ![s] = x], value' = value
  PROVE  NoLostWakeup'
<1>1. Pending' \subseteq Pending /\ Granted \subseteq Granted'
  BY DEF Pending, Granted, TypeOK
<1> QED
  BY <1>1 DEF NoLostWakeup

LEMMA AcquireKeepsWakeup ==
  ASSUME TypeOK, NoLostWakeup, NEW s \in Sessions,
         st[s] \in {"new", "announcing"}, Acquire(s)
  PROVE  NoLostWakeup'
<1>1. CASE ~Locked /\ st' = [st EXCEPT ![s] = "starting"]
  <2>1. Pending' = {}
    BY <1>1 DEF Locked, Pending, TypeOK
  <2> QED
    BY <2>1 DEF NoLostWakeup
<1>2. CASE Locked /\ st' = [st EXCEPT ![s] = "waiting"] /\ value' = value
  <2>1. Granted' = Granted
    BY <1>2 DEF Granted, TypeOK
  <2>2. CASE value = 0
    BY <1>2, <2>2 DEF NoLostWakeup
  <2>3. CASE value > 0
    BY <1>2, <2>1, <2>3 DEF Locked, NoLostWakeup
  <2> QED
    BY <2>2, <2>3 DEF TypeOK
<1> QED
  BY <1>1, <1>2 DEF Acquire

LEMMA ReleaseKeepsWakeup ==
  ASSUME TypeOK, NEW s \in Sessions, Release(s)
  PROVE  NoLostWakeup'
<1>1. [st EXCEPT ![s] = "ended"] \in [Sessions -> States]
  BY DEF TypeOK, States
<1>2. ASSUME NEW t \in Sessions, st'[t] = "waiting"
      PROVE  \E u \in Sessions : st'[u] = "granted"
  BY <1>1, <1>2, WakeUpGrants DEF Release
<1> QED
  BY <1>2 DEF NoLostWakeup, Pending, Granted

LEMMA StepWakeup == TypeOK /\ NoLostWakeup /\ [Next]_vars => NoLostWakeup'
<1> SUFFICES ASSUME TypeOK, NoLostWakeup, [Next]_vars PROVE NoLostWakeup'
  OBVIOUS
<1>1. ASSUME NEW s \in Sessions, Arrive(s) PROVE NoLostWakeup'
  <2>1. CASE inFlight >= Capacity
    BY <1>1, <2>1, MoveKeepsWakeup DEF Arrive, States
  <2>2. CASE ~(inFlight >= Capacity)
    BY <1>1, <2>2, AcquireKeepsWakeup DEF Arrive
  <2> QED
    BY <2>1, <2>2
<1>2. ASSUME NEW s \in Sessions, Announced(s) PROVE NoLostWakeup'
  BY <1>2, AcquireKeepsWakeup DEF Announced
<1>3. ASSUME NEW s \in Sessions, AnnounceFails(s) PROVE NoLostWakeup'
  BY <1>3, MoveKeepsWakeup DEF AnnounceFails, States
<1>4. ASSUME NEW s \in Sessions, Resume(s) PROVE NoLostWakeup'
  <2>1. PassOn([st EXCEPT ![s] = "starting"])
    BY <1>4 DEF Resume
  <2>2. [st EXCEPT ![s] = "starting"] \in [Sessions -> States]
    BY DEF TypeOK, States
  <2>3. CASE value > 0
    <3>1. WakeUpNext([st EXCEPT ![s] = "starting"], value)
      BY <2>1, <2>3 DEF PassOn
    <3>2. ASSUME NEW t \in Sessions, st'[t] = "waiting"
          PROVE  \E u \in Sessions : st'[u] = "granted"
      BY <2>2, <3>1, <3>2, WakeUpGrants
    <3> QED
      BY <3>2 DEF NoLostWakeup, Pending, Granted
  <2>4. CASE ~(value > 0)
    BY <2>1, <2>4 DEF PassOn, NoLostWakeup
  <2> QED
    BY <2>3, <2>4
<1>5. ASSUME NEW s \in Sessions, BrowserStarts(s) PROVE NoLostWakeup'
  BY <1>5, MoveKeepsWakeup DEF BrowserStarts, States
<1>6. ASSUME NEW s \in Sessions, LoopEnds(s) \/ CancelRunning(s) PROVE NoLostWakeup'
  BY <1>6, MoveKeepsWakeup DEF LoopEnds, CancelRunning, States
<1>7. ASSUME NEW s \in Sessions, StartFails(s) \/ BrowserCloses(s)
             \/ CancelInBrowserCall(s) \/ CancelGranted(s) PROVE NoLostWakeup'
  BY <1>7, ReleaseKeepsWakeup DEF StartFails, BrowserCloses, CancelInBrowserCall, CancelGranted
<1>8. ASSUME NEW s \in Sessions, Disconnect(s) PROVE NoLostWakeup'
  <2>1. CASE st[s] = "waiting"
    BY <1>8, <2>1, MoveKeepsWakeup DEF Disconnect, States
  <2>2. CASE st[s] # "waiting"
    BY <1>8, <2>2 DEF Disconnect, NoLostWakeup, Pending, Granted
  <2> QED
    BY <2>1, <2>2
<1>9. ASSUME NEW s \in Sessions, CancelBeforeSlot(s) PROVE NoLostWakeup'
  BY <1>9, MoveKeepsWakeup DEF CancelBeforeSlot, States
<1>10. CASE UNCHANGED vars
  BY <1>10 DEF vars, NoLostWakeup, Pending, Granted
<1> QED
  BY <1>1, <1>2, <1>3, <1>4, <1>5, <1>6, <1>7, <1>8, <1>9, <1>10
     DEF Next, Progress, Finished

(* Nobody waits beside a free slot unless a granted session is about to run
   and will hand it on.                                                      *)
THEOREM WakeupsNotLost == Spec => []NoLostWakeup
<1>1. Init => NoLostWakeup
  BY DEF Init, NoLostWakeup, Pending
<1> QED
  BY <1>1, StepWakeup, TypeCorrect, PTL DEF Spec

-----------------------------------------------------------------------------
(* A session that comes to own a slot overtakes nobody who waits.          *)
Fair(s) ==
  (st[s] \notin Owning /\ st'[s] \in Owning)
    => \A t \in Pending \ {s} : st[s] = "waiting" /\ t \notin behind[s]

(* Only the first pending future is granted, if the caller was not pending. *)
LEMMA WakeUpIsFair ==
  ASSUME TypeOK, NEW c \in Sessions, NEW x \in States, st[c] # "waiting", x # "waiting",
         x \notin Owning \/ st[c] \in Owning,
         NEW v, WakeUpNext([st EXCEPT ![c] = x], v), NEW s \in Sessions
  PROVE  Fair(s)
<1> DEFINE f == [st EXCEPT ![c] = x]
           pending == {t \in Sessions : f[t] = "waiting"}
<1>1. pending = Pending
  BY DEF Pending, TypeOK
<1>2. f \in [Sessions -> States] /\ (f[s] \in Owning => st[s] \in Owning)
  BY DEF TypeOK
<1>3. CASE st' = f
  BY <1>2, <1>3 DEF Fair
<1>4. ASSUME NEW w \in pending, behind[w] \cap pending = {},
             st' = [f EXCEPT ![w] = "granted"]
      PROVE  Fair(s)
  <2>1. CASE s = w
    BY <1>1, <1>4, <2>1 DEF Fair, Pending
  <2>2. CASE s # w
    <3>1. st'[s] = f[s]
      BY <1>2, <1>4, <2>2
    <3> QED
      BY <1>2, <3>1 DEF Fair
  <2> QED
    BY <2>1, <2>2
<1> QED
  BY <1>3, <1>4 DEF WakeUpNext

LEMMA AcquireIsFair ==
  ASSUME TypeOK, NEW c \in Sessions, Acquire(c), NEW s \in Sessions
  PROVE  Fair(s)
<1>1. CASE ~Locked
  BY <1>1 DEF Locked, Fair
<1>2. CASE st' = [st EXCEPT ![c] = "waiting"]
  BY <1>2, Slots DEF Fair, TypeOK
<1> QED
  BY <1>1, <1>2 DEF Acquire

(* A step that gives nobody a slot is fair.                                *)
LEMMA MoveIsFair ==
  ASSUME TypeOK, NEW c \in Sessions, NEW x \in States, st' = [st EXCEPT ![c] = x],
         x \in Owning => st[c] \in Owning, NEW s \in Sessions
  PROVE  Fair(s)
BY DEF Fair, TypeOK

LEMMA StepFair == ASSUME TypeOK, [Next]_vars, NEW s \in Sessions PROVE Fair(s)
<1>1. ASSUME NEW c \in Sessions, Arrive(c) PROVE Fair(s)
  <2>1. CASE inFlight >= Capacity
    BY <1>1, <2>1, Slots, MoveIsFair DEF Arrive
  <2>2. CASE ~(inFlight >= Capacity)
    BY <1>1, <2>2, AcquireIsFair DEF Arrive
  <2> QED
    BY <2>1, <2>2
<1>2. ASSUME NEW c \in Sessions, Announced(c) PROVE Fair(s)
  BY <1>2, AcquireIsFair DEF Announced
<1>3. ASSUME NEW c \in Sessions, AnnounceFails(c) \/ CancelBeforeSlot(c) PROVE Fair(s)
  BY <1>3, Slots, MoveIsFair DEF AnnounceFails, CancelBeforeSlot
<1>4. ASSUME NEW c \in Sessions, Resume(c) PROVE Fair(s)
  <2>1. /\ st[c] # "waiting" /\ st[c] \in Owning /\ "starting" \in States
        /\ "starting" # "waiting" /\ PassOn([st EXCEPT ![c] = "starting"])
    BY <1>4, Slots DEF Resume
  <2>2. CASE value > 0
    <3>1. WakeUpNext([st EXCEPT ![c] = "starting"], value)
      BY <2>1, <2>2 DEF PassOn
    <3> QED
      BY <2>1, <3>1, WakeUpIsFair
  <2>3. CASE ~(value > 0)
    BY <2>1, <2>3, MoveIsFair DEF PassOn
  <2> QED
    BY <2>2, <2>3
<1>5. ASSUME NEW c \in Sessions, BrowserStarts(c) PROVE Fair(s)
  BY <1>5, Slots, MoveIsFair DEF BrowserStarts
<1>6. ASSUME NEW c \in Sessions, LoopEnds(c) \/ CancelRunning(c) PROVE Fair(s)
  BY <1>6, Slots, MoveIsFair DEF LoopEnds, CancelRunning
<1>7. ASSUME NEW c \in Sessions, StartFails(c) \/ BrowserCloses(c)
             \/ CancelInBrowserCall(c) \/ CancelGranted(c) PROVE Fair(s)
  <2>1. st[c] # "waiting" /\ WakeUpNext([st EXCEPT ![c] = "ended"], value + 1)
    BY <1>7 DEF StartFails, BrowserCloses, CancelInBrowserCall, CancelGranted, Release
  <2>2. "ended" \in States /\ "ended" # "waiting" /\ "ended" \notin Owning
    BY Slots
  <2> QED
    BY <2>1, <2>2, WakeUpIsFair
<1>8. ASSUME NEW c \in Sessions, Disconnect(c) PROVE Fair(s)
  <2>1. CASE st[c] = "waiting"
    BY <1>8, <2>1, Slots, MoveIsFair DEF Disconnect
  <2>2. CASE st[c] # "waiting"
    BY <1>8, <2>2 DEF Disconnect, Fair
  <2> QED
    BY <2>1, <2>2
<1>9. CASE UNCHANGED vars
  BY <1>9 DEF vars, Fair
<1> QED
  BY <1>1, <1>2, <1>3, <1>4, <1>5, <1>6, <1>7, <1>8, <1>9 DEF Next, Progress, Finished

(* Slots are granted in the order in which the sessions joined the queue.  *)
THEOREM FirstComeFirstServed == Spec => NoOvertaking
<1>1. TypeOK /\ [Next]_vars
        => [\A s \in Sessions :
              (st[s] \notin Holding \cup {"granted"} /\ st'[s] \in Holding \cup {"granted"})
                => \A t \in Pending \ {s} : st[s] = "waiting" /\ t \notin behind[s]]_vars
  BY StepFair DEF Fair, Owning
<1> QED
  BY <1>1, TypeCorrect, PTL DEF Spec, NoOvertaking

-----------------------------------------------------------------------------
(* A browser that is being launched or in use is of a session that has a slot. *)
InUse == {"starting", "open"}
SlotOutlives == \A s \in Sessions : browser[s] \in InUse => st[s] \in Holding

(* A hand-over takes no slot from anybody.                                 *)
LEMMA WakeUpKeepsHolders ==
  ASSUME NEW f \in [Sessions -> States], NEW v, WakeUpNext(f, v), NEW s \in Sessions, f[s] \in Holding
  PROVE  st'[s] \in Holding
BY DEF WakeUpNext, Holding

LEMMA SlotStep == TypeOK /\ SlotOutlives /\ [Next]_vars => SlotOutlives'
<1> SUFFICES ASSUME TypeOK, SlotOutlives, [Next]_vars, NEW t \in Sessions, browser'[t] \in InUse
             PROVE  st'[t] \in Holding
  BY DEF SlotOutlives
<1> USE DEF SlotOutlives, TypeOK, InUse
<1>1. ASSUME UNCHANGED browser, NEW s \in Sessions, NEW x \in States,
             st' = [st EXCEPT ![s] = x], st[s] \in Holding => x \in Holding
      PROVE  st'[t] \in Holding
  BY <1>1
<1>2. ASSUME NEW s \in Sessions, Acquire(s), st[s] \notin Holding PROVE st'[t] \in Holding
  BY <1>2 DEF Acquire, Admitted, Holding, States
<1>3. ASSUME NEW s \in Sessions, st[s] # "waiting", Release(s),
             \/ BrowserLeft(s) /\ st[s] \in {"starting", "closing"}
             \/ UNCHANGED browser /\ st[s] \notin Holding
      PROVE  st'[t] \in Holding
  <2>1. [st EXCEPT ![s] = "ended"] \in [Sessions -> States]
    BY DEF States
  <2>2. t # s /\ browser[t] \in InUse
    BY <1>3 DEF BrowserLeft, Holding
  <2> QED
    BY <1>3, <2>1, <2>2, WakeUpKeepsHolders DEF Release
<1>4. ASSUME NEW s \in Sessions, Arrive(s) PROVE st'[t] \in Holding
  BY <1>1, <1>2, <1>4 DEF Arrive, States, Holding
<1>5. ASSUME NEW s \in Sessions, Announced(s) PROVE st'[t] \in Holding
  BY <1>2, <1>5 DEF Announced, Holding
<1>6. ASSUME NEW s \in Sessions, AnnounceFails(s) \/ LoopEnds(s) \/ CancelRunning(s) \/ CancelBeforeSlot(s)
      PROVE  st'[t] \in Holding
  BY <1>1, <1>6 DEF AnnounceFails, LoopEnds, CancelRunning, CancelBeforeSlot, Holding, States
<1>7. ASSUME NEW s \in Sessions, Resume(s) PROVE st'[t] \in Holding
  <2>1. [st EXCEPT ![s] = "starting"] \in [Sessions -> States]
    BY DEF States
  <2>2. [st EXCEPT ![s] = "starting"][t] \in Holding
    BY <1>7 DEF Resume, Admitted, Holding
  <2> QED
    BY <1>7, <2>1, <2>2, WakeUpKeepsHolders DEF Resume, PassOn
<1>8. ASSUME NEW s \in Sessions, BrowserStarts(s) PROVE st'[t] \in Holding
  BY <1>8 DEF BrowserStarts, Holding
<1>9. ASSUME NEW s \in Sessions, StartFails(s) \/ BrowserCloses(s) \/ CancelGranted(s) \/ CancelInBrowserCall(s)
      PROVE  st'[t] \in Holding
  BY <1>3, <1>9 DEF StartFails, BrowserCloses, CancelGranted, CancelInBrowserCall, Holding
<1>10. ASSUME NEW s \in Sessions, Disconnect(s) PROVE st'[t] \in Holding
  BY <1>1, <1>10 DEF Disconnect, Holding, States
<1>11. CASE Finished \/ UNCHANGED vars
  BY <1>11 DEF Finished, vars
<1> QED
  BY <1>4, <1>5, <1>6, <1>7, <1>8, <1>9, <1>10, <1>11 DEF Next, Progress

(* Browsers being launched or in use never exceed the capacity: the slot of each
   is given back after its browser is closed (server.py:107-131).            *)
THEOREM BrowsersStayBounded == Spec => []BrowsersBounded
<1>1. Init => SlotOutlives
  BY DEF Init, SlotOutlives, InUse
<1>2. TypeOK /\ Inv /\ SlotOutlives => BrowsersBounded
  <2> SUFFICES ASSUME TypeOK, Inv, SlotOutlives PROVE BrowsersBounded
    OBVIOUS
  <2> DEFINE used == {s \in Sessions : browser[s] \in {"starting", "open"}}
             owners == {s \in Sessions : st[s] \in Owning}
  <2>1. used \subseteq owners
    BY Slots DEF SlotOutlives, InUse
  <2>2. IsFiniteSet(owners)
    BY PoolAssumption, FS_Subset
  <2>3. Cardinality(owners) <= Capacity
    <3>1. value + Cardinality(owners) = Capacity /\ value \in Nat
      BY DEF Inv, TypeOK, Count
    <3>2. Cardinality(owners) \in Nat
      BY <2>2, FS_CardinalityType
    <3> HIDE DEF owners
    <3> QED
      BY <3>1, <3>2, PoolAssumption
  <2>4. Cardinality(used) <= Cardinality(owners) /\ Cardinality(used) \in Nat
    <3> HIDE DEF used, owners
    <3> QED
      BY <2>1, <2>2, FS_Subset, FS_CardinalityType
  <2> QED
    BY <2>2, <2>3, <2>4, PoolAssumption, FS_CardinalityType DEF BrowsersBounded
<1> QED
  BY <1>1, <1>2, SlotStep, TypeCorrect, InitInv, StepInv, PTL DEF Spec, Inv

-----------------------------------------------------------------------------
(* The queue of the semaphore, as the set P of those who wait and whom each of
   them queued behind, is the line L.                                        *)
Orders(L, P, b) ==
  /\ L \in Seq(Sessions)
  /\ \A i, j \in 1..Len(L) : L[i] = L[j] => i = j
  /\ P = {L[i] : i \in 1..Len(L)}
  /\ \A i \in 1..Len(L) : b[L[i]] \cap P = {L[j] : j \in 1..(i - 1)}

LineOf(P, b) == [i \in 1..Cardinality(P) |-> CHOOSE s \in P : Cardinality(b[s] \cap P) = i - 1]

(* L without its k-th client.                                              *)
Cut(L, k) == [j \in 1..(Len(L) - 1) |-> IF j < k THEN L[j] ELSE L[j + 1]]

(* A prefix of a line has as many clients as places.                       *)
LEMMA PrefixCounts ==
  ASSUME NEW L \in Seq(Sessions), \A i, j \in 1..Len(L) : L[i] = L[j] => i = j,
         NEW n \in 0..Len(L)
  PROVE  Cardinality({L[j] : j \in 1..n}) = n
<1> DEFINE S == {L[j] : j \in 1..n}
           f == [j \in 1..n |-> L[j]]
<1>1. f \in Bijection(1..n, S)
  <2>1. f \in [1..n -> S]
    OBVIOUS
  <2>2. \A i, j \in 1..n : f[i] = f[j] => i = j
    OBVIOUS
  <2>3. \A s \in S : \E j \in 1..n : f[j] = s
    OBVIOUS
  <2> HIDE DEF f, S
  <2> QED
    BY <2>1, <2>2, <2>3 DEF Bijection, Injection, Surjection, IsInjective
<1>2. n \in Nat
  OBVIOUS
<1> HIDE DEF S, f
<1>3. ExistsBijection(1..n, S)
  BY <1>1 DEF ExistsBijection
<1>4. Cardinality(S) = n
  BY <1>2, <1>3, FS_CountingElements
<1> QED
  BY <1>4 DEF S

(* There is one such line: the mapping of the refinement finds it.         *)
LEMMA LineIsUnique ==
  ASSUME NEW L, NEW P, NEW b, Orders(L, P, b)
  PROVE  LineOf(P, b) = L
<1>1. L \in Seq(Sessions) /\ Len(L) \in Nat /\ L = [i \in 1..Len(L) |-> L[i]]
  BY DEF Orders
<1>2. Cardinality(P) = Len(L)
  <2>1. Len(L) \in 0..Len(L)
    BY <1>1
  <2> QED
    BY <1>1, <2>1, PrefixCounts DEF Orders
<1>3. ASSUME NEW i \in 1..Len(L)
      PROVE  (CHOOSE s \in P : Cardinality(b[s] \cap P) = i - 1) = L[i]
  <2>1. ASSUME NEW k \in 1..Len(L) PROVE Cardinality(b[L[k]] \cap P) = k - 1
    <3>1. k - 1 \in 0..Len(L)
      BY <1>1
    <3>2. b[L[k]] \cap P = {L[j] : j \in 1..(k - 1)}
      BY DEF Orders
    <3> QED
      BY <1>1, <3>1, <3>2, PrefixCounts DEF Orders
  <2>2. L[i] \in P
    BY DEF Orders
  <2>3. ASSUME NEW s \in P, Cardinality(b[s] \cap P) = i - 1 PROVE s = L[i]
    <3>1. PICK k \in 1..Len(L) : s = L[k]
      BY DEF Orders
    <3>2. k - 1 = i - 1
      BY <2>1, <2>3, <3>1
    <3> QED
      BY <1>1, <3>1, <3>2
  <2> QED
    BY <2>1, <2>2, <2>3
<1>4. LineOf(P, b) = [i \in 1..Len(L) |-> L[i]]
  BY <1>2, <1>3 DEF LineOf
<1> QED
  BY <1>1, <1>4

(* Whoever nobody waits before is the head of the line.                    *)
LEMMA FirstIsHead ==
  ASSUME NEW L, NEW P, NEW b, Orders(L, P, b), NEW w \in P, b[w] \cap P = {}
  PROVE  L # <<>> /\ w = Head(L) /\ w = L[1]
<1>1. PICK i \in 1..Len(L) : w = L[i]
  BY DEF Orders
<1>2. L \in Seq(Sessions) /\ {L[j] : j \in 1..(i - 1)} = {}
  BY <1>1 DEF Orders
<1>3. i = 1
  <2>1. CASE i > 1
    <3>1. L[1] \in {L[j] : j \in 1..(i - 1)}
      BY <1>2, <2>1
    <3> QED
      BY <1>2, <3>1
  <2> QED
    BY <1>2, <2>1
<1> QED
  BY <1>1, <1>2, <1>3

LEMMA NobodyWaits ==
  ASSUME NEW L, NEW b, NEW P, Orders(L, P, b)
  PROVE  P = {} <=> L = <<>>
<1>1. L \in Seq(Sessions) /\ P = {L[i] : i \in 1..Len(L)}
  BY DEF Orders
<1>2. ASSUME P = {}, Len(L) # 0 PROVE FALSE
  <2>1. L[1] \in P
    BY <1>1, <1>2
  <2> QED
    BY <1>2, <2>1
<1>3. L = <<>> => P = {}
  BY <1>1
<1> QED
  BY <1>1, <1>2, <1>3

(* Joining: whoever queues behind all that wait is last.                   *)
LEMMA JoinOrders ==
  ASSUME NEW L, NEW P, NEW b, Orders(L, P, b), NEW s \in Sessions \ P,
         b \in [Sessions -> SUBSET Sessions], \A t \in P : s \notin b[t]
  PROVE  Orders(Append(L, s), P \cup {s}, [b EXCEPT ![s] = P])
<1> DEFINE M == Append(L, s)
           c == [b EXCEPT ![s] = P]
           Q == P \cup {s}
           n == Len(L)
<1>1. /\ L \in Seq(Sessions) /\ n \in Nat
      /\ \A i \in 1..n : L[i] \in P
      /\ P = {L[i] : i \in 1..n}
  BY DEF Orders
<1>2. /\ M \in Seq(Sessions) /\ Len(M) = n + 1
      /\ \A i \in 1..n : M[i] = L[i]
      /\ M[n + 1] = s
  BY <1>1
<1>3. \A i, j \in 1..Len(M) : M[i] = M[j] => i = j
  BY <1>1, <1>2 DEF Orders
<1>4. Q = {M[i] : i \in 1..Len(M)}
  <2>1. ASSUME NEW t \in Q PROVE \E i \in 1..Len(M) : t = M[i]
    <3>1. CASE t = s
      BY <1>1, <1>2, <3>1
    <3>2. CASE t \in P
      BY <1>1, <1>2, <3>2
    <3> QED
      BY <3>1, <3>2
  <2>2. ASSUME NEW i \in 1..Len(M) PROVE M[i] \in Q
    <3>1. CASE i = n + 1
      BY <1>2, <3>1
    <3>2. CASE i # n + 1
      <4>1. i \in 1..n
        BY <1>1, <1>2, <3>2
      <4> QED
        BY <1>1, <1>2, <4>1
    <3> QED
      BY <3>1, <3>2
  <2> HIDE DEF M, Q
  <2> QED
    BY <2>1, <2>2
<1>5. ASSUME NEW i \in 1..Len(M)
      PROVE  c[M[i]] \cap Q = {M[j] : j \in 1..(i - 1)}
  <2>1. CASE i = n + 1
    <3>1. c[M[i]] \cap Q = P
      BY <1>1, <1>2, <2>1
    <3>2. {M[j] : j \in 1..(i - 1)} = {L[j] : j \in 1..n}
      BY <1>1, <1>2, <2>1
    <3> QED
      BY <1>1, <3>1, <3>2
  <2>2. CASE i # n + 1
    <3>1. i \in 1..n /\ M[i] = L[i]
      BY <1>1, <1>2, <2>2
    <3>2. L[i] \in P /\ L[i] # s /\ s \notin b[L[i]]
      BY <1>1, <3>1
    <3>3. c[M[i]] \cap Q = b[L[i]] \cap P
      BY <3>1, <3>2
    <3>4. {M[j] : j \in 1..(i - 1)} = {L[j] : j \in 1..(i - 1)}
      BY <1>1, <1>2, <3>1
    <3> QED
      BY <3>1, <3>3, <3>4 DEF Orders
  <2> QED
    BY <2>1, <2>2
<1> HIDE DEF M, c, Q
<1>6. Orders(M, Q, c)
  BY <1>2, <1>3, <1>4, <1>5 DEF Orders
<1> QED
  BY <1>6 DEF M, c, Q

(* Leaving the line: the others keep their order.                          *)
LEMMA CutOrders ==
  ASSUME NEW L, NEW P, NEW b, Orders(L, P, b), NEW k \in 1..Len(L)
  PROVE  Orders(Cut(L, k), P \ {L[k]}, b)
<1> DEFINE M == Cut(L, k)
           Q == P \ {L[k]}
           n == Len(L)
           At(j) == IF j < k THEN j ELSE j + 1
<1>1. /\ L \in Seq(Sessions) /\ n \in Nat /\ n >= 1 /\ k \in 1..n
      /\ \A i, j \in 1..n : L[i] = L[j] => i = j
      /\ P = {L[i] : i \in 1..n}
  BY DEF Orders
<1>2. \A j \in 1..(n - 1) : /\ At(j) \in (1..n) \ {k}
                            /\ M[j] = L[At(j)]
  BY <1>1 DEF Cut
<1>3. M \in Seq(Sessions) /\ Len(M) = n - 1
  <2>1. n - 1 \in Nat /\ \A j \in 1..(n - 1) : (IF j < k THEN L[j] ELSE L[j + 1]) \in Sessions
    BY <1>1
  <2> QED
    BY <2>1 DEF Cut
<1>4. \A i, j \in 1..(n - 1) : M[i] = M[j] => i = j
  <2> TAKE i, j \in 1..(n - 1)
  <2> HAVE M[i] = M[j]
  <2>1. At(i) = At(j)
    BY <1>1, <1>2
  <2> QED
    BY <1>1, <2>1
<1>5. \A m \in (1..n) \ {k} : \E j \in 1..(n - 1) : /\ At(j) = m
                                                    /\ m < k => j = m
                                                    /\ m > k => j = m - 1
  <2> TAKE m \in (1..n) \ {k}
  <2>1. CASE m < k
    <3>1. m \in 1..(n - 1) /\ At(m) = m
      BY <1>1, <2>1
    <3> QED
      BY <1>1, <2>1, <3>1
  <2>2. CASE m > k
    <3>1. m - 1 \in 1..(n - 1) /\ At(m - 1) = m
      BY <1>1, <2>2
    <3> QED
      BY <1>1, <2>2, <3>1
  <2> QED
    BY <1>1, <2>1, <2>2
<1>6. Q = {M[j] : j \in 1..(n - 1)}
  <2>1. ASSUME NEW t \in Q PROVE \E j \in 1..(n - 1) : t = M[j]
    <3>1. PICK m \in 1..n : t = L[m]
      BY <1>1
    <3>2. m # k
      BY <3>1
    <3>3. PICK j \in 1..(n - 1) : At(j) = m
      BY <1>5, <3>2
    <3> QED
      BY <1>2, <3>1, <3>3
  <2>2. ASSUME NEW j \in 1..(n - 1) PROVE M[j] \in Q
    <3>1. L[At(j)] \in P /\ L[At(j)] # L[k]
      BY <1>1, <1>2
    <3> QED
      BY <1>2, <3>1
  <2> HIDE DEF M, Q, At
  <2> QED
    BY <2>1, <2>2
<1>7. ASSUME NEW i \in 1..(n - 1)
      PROVE  b[M[i]] \cap Q = {M[j] : j \in 1..(i - 1)}
  <2>1. At(i) \in 1..n /\ M[i] = L[At(i)]
    BY <1>2
  <2>2. b[M[i]] \cap P = {L[j] : j \in 1..(At(i) - 1)}
    BY <2>1 DEF Orders
  <2>3. b[M[i]] \cap Q = {L[j] : j \in 1..(At(i) - 1)} \ {L[k]}
    BY <2>2
  <2>4. ASSUME NEW t \in {L[j] : j \in 1..(At(i) - 1)} \ {L[k]}
        PROVE  t \in {M[j] : j \in 1..(i - 1)}
    <3>1. PICK m \in 1..(At(i) - 1) : t = L[m]
      OBVIOUS
    <3>2. m \in (1..n) \ {k}
      BY <1>1, <2>1, <3>1
    <3>3. PICK j \in 1..(n - 1) : At(j) = m /\ (m < k => j = m) /\ (m > k => j = m - 1)
      BY <1>5, <3>2
    <3>4. j \in 1..(i - 1)
      BY <1>1, <3>1, <3>2, <3>3
    <3>5. t = M[j]
      BY <1>2, <3>1, <3>3
    <3> HIDE DEF M
    <3> QED
      BY <3>4, <3>5
  <2>5. ASSUME NEW j \in 1..(i - 1)
        PROVE  M[j] \in {L[m] : m \in 1..(At(i) - 1)} \ {L[k]}
    <3>1. j \in 1..(n - 1)
      BY <1>1
    <3>2. At(j) \in 1..(At(i) - 1)
      BY <1>1, <3>1
    <3>3. M[j] = L[At(j)] /\ L[At(j)] # L[k]
      BY <1>1, <1>2, <3>1
    <3> HIDE DEF M, At
    <3> QED
      BY <3>2, <3>3
  <2> HIDE DEF M, Q, At
  <2> QED
    BY <2>3, <2>4, <2>5
<1> HIDE DEF M, Q
<1>8. Orders(M, Q, b)
  BY <1>3, <1>4, <1>6, <1>7 DEF Orders
<1> QED
  BY <1>8 DEF M, Q

LEMMA CutIsWithout ==
  ASSUME NEW L \in Seq(Sessions), NEW k \in 1..Len(L)
  PROVE  /\ Cut(L, k) = SubSeq(L, 1, k - 1) \o SubSeq(L, k + 1, Len(L))
         /\ k = 1 => Cut(L, k) = Tail(L)
<1> DEFINE A == SubSeq(L, 1, k - 1)
           B == SubSeq(L, k + 1, Len(L))
<1>1. /\ A \in Seq(Sessions) /\ Len(A) = k - 1
      /\ \A j \in 1..(k - 1) : A[j] = L[j]
  OBVIOUS
<1>2. /\ B \in Seq(Sessions) /\ Len(B) = Len(L) - k
      /\ \A j \in 1..(Len(L) - k) : B[j] = L[j + k]
  OBVIOUS
<1>3. /\ Cut(L, k) \in Seq(Sessions) /\ Len(Cut(L, k)) = Len(L) - 1
      /\ \A j \in 1..(Len(L) - 1) : Cut(L, k)[j] = IF j < k THEN L[j] ELSE L[j + 1]
  <2>1. Len(L) - 1 \in Nat /\ \A j \in 1..(Len(L) - 1) : (IF j < k THEN L[j] ELSE L[j + 1]) \in Sessions
    OBVIOUS
  <2> QED
    BY <2>1 DEF Cut
<1>4. k = 1 => Cut(L, k) = Tail(L)
  BY <1>3
<1> HIDE DEF A, B
<1>5. A \o B \in Seq(Sessions) /\ Len(A \o B) = Len(L) - 1
  <2>1. Len(A \o B) = Len(A) + Len(B) /\ A \o B \in Seq(Sessions)
    BY <1>1, <1>2, ConcatProperties
  <2>2. k \in Int /\ Len(L) \in Int
    OBVIOUS
  <2>3. Len(A) + Len(B) = Len(L) - 1
    BY <1>1, <1>2, <2>2
  <2> QED
    BY <2>1, <2>3
<1>6. ASSUME NEW j \in 1..(Len(L) - 1) PROVE (A \o B)[j] = Cut(L, k)[j]
  <2>1. CASE j < k
    BY <1>1, <1>2, <1>3, <2>1
  <2>2. CASE j >= k
    <3>1. (A \o B)[j] = B[j - (k - 1)] /\ j - (k - 1) \in 1..(Len(L) - k)
      BY <1>1, <1>2, <2>2
    <3>2. B[j - (k - 1)] = L[j + 1]
      BY <1>2, <3>1
    <3> QED
      BY <1>3, <2>2, <3>1, <3>2
  <2>3. j < k \/ j >= k
    OBVIOUS
  <2> QED
    BY <2>1, <2>2, <2>3
<1>7. Cut(L, k) = A \o B
  <2>1. \A i \in 1..Len(A \o B) : (A \o B)[i] = Cut(L, k)[i]
    BY <1>5, <1>6
  <2> QED
    BY <1>3, <1>5, <2>1, SeqEqual
<1> QED
  BY <1>4, <1>7 DEF A, B

-----------------------------------------------------------------------------
(* The inductive invariant of the refinement: those that wait are in a line,
   each behind all in front of it, and nobody is behind one that has not come. *)
InLine == Orders(Line, Pending, behind)
Came == \A s, t \in Sessions : t \in behind[s] => st[t] \notin {"new", "announcing"}

Inside == Granted \cup Holders

LEMMA LineDef == Line = LineOf(Pending, behind) /\ Line' = LineOf(Pending', behind')
BY DEF Line, LineOf, InFront

LEMMA OwnersInside ==
  /\ Inside = {s \in Sessions : st[s] \in Owning}
  /\ Inside' = {s \in Sessions : st'[s] \in Owning}
BY DEF Inside, Granted, Holders, Owning

(* A free slot is a free place.                                            *)
LEMMA FreeSlot == Inv /\ value > 0 => Cardinality(Inside) < Capacity
<1> SUFFICES ASSUME Inv, value > 0 PROVE Cardinality(Inside) < Capacity
  OBVIOUS
<1>1. value + Cardinality(Inside) = Capacity /\ value \in Nat
  BY OwnersInside DEF Inv, TypeOK, Count
<1>2. Cardinality(Inside) \in Nat
  BY OwnersInside, CountType DEF Count
<1> HIDE DEF Inside
<1> QED
  BY <1>1, <1>2, PoolAssumption

(* The head of the line, if any, comes to S.                               *)
HeadComesTo(S) ==
  \/ Pending = {} /\ Pending' = {} /\ Inside' = S
  \/ \E w \in Pending : /\ behind[w] \cap Pending = {}
                        /\ Pending' = Pending \ {w}
                        /\ Inside' = S \cup {w}

(* What a step of the program is for the line.                             *)
Nothing == Pending' = Pending /\ Inside' = Inside /\ behind' = behind
WalksIn(s) ==
  /\ s \notin Inside \cup Pending
  /\ Pending = {} /\ Pending' = {} /\ Cardinality(Inside) < Capacity
  /\ Inside' = Inside \cup {s} /\ behind' = behind
Joins(s) ==
  /\ s \notin Inside \cup Pending
  /\ \A t \in Pending : s \notin behind[t]
  /\ Pending' = Pending \cup {s} /\ behind' = [behind EXCEPT ![s] = Pending]
  /\ Inside' = Inside
GivesUp(s) ==
  s \in Pending /\ Pending' = Pending \ {s} /\ Inside' = Inside /\ behind' = behind
IsServed ==
  Cardinality(Inside) < Capacity /\ HeadComesTo(Inside) /\ behind' = behind
Leaves(s) ==
  s \in Inside /\ HeadComesTo(Inside \ {s}) /\ behind' = behind

LEMMA WakeUpForm ==
  ASSUME TypeOK, NEW c \in Sessions, NEW x \in States, st[c] \in Owning, x # "waiting",
         NEW v, WakeUpNext([st EXCEPT ![c] = x], v)
  PROVE  HeadComesTo(IF x \in Owning THEN Inside ELSE Inside \ {c})
<1> DEFINE f == [st EXCEPT ![c] = x]
           pending == {t \in Sessions : f[t] = "waiting"}
           S == IF x \in Owning THEN Inside ELSE Inside \ {c}
<1>1. st[c] # "waiting" /\ "granted" \in Owning /\ "waiting" \notin Owning
  BY Slots
<1>2. pending = Pending
  BY <1>1 DEF Pending, TypeOK
<1>3. S = {t \in Sessions : f[t] \in Owning} /\ f \in [Sessions -> States]
  BY OwnersInside DEF TypeOK
<1>4. CASE pending = {} /\ st' = f
  <2>1. Pending' = {} /\ Inside' = S
    BY <1>2, <1>3, <1>4, OwnersInside DEF Pending
  <2> QED
    BY <1>2, <1>4, <2>1 DEF HeadComesTo
<1>5. ASSUME NEW w \in pending, behind[w] \cap pending = {}, st' = [f EXCEPT ![w] = "granted"]
      PROVE  HeadComesTo(S)
  <2>1. Pending' = Pending \ {w}
    BY <1>2, <1>3, <1>5 DEF Pending
  <2>2. Inside' = S \cup {w}
    BY <1>1, <1>3, <1>5, OwnersInside
  <2> QED
    BY <1>2, <1>5, <2>1, <2>2 DEF HeadComesTo
<1> QED
  BY <1>4, <1>5 DEF WakeUpNext

LEMMA AcquireForm ==
  ASSUME Inv, Came, NEW s \in Sessions, st[s] \in {"new", "announcing"}, Acquire(s)
  PROVE  WalksIn(s) \/ Joins(s)
<1>1. TypeOK /\ s \notin Inside \cup Pending
  BY Slots, OwnersInside DEF Inv, Pending
<1>2. "starting" \in Owning /\ "waiting" \notin Owning
  BY Slots
<1>3. CASE ~Locked /\ st' = [st EXCEPT ![s] = "starting"] /\ behind' = behind
  <2>1. Pending = {} /\ value > 0
    BY <1>1, <1>3 DEF Locked, TypeOK
  <2>2. Pending' = {} /\ Inside' = Inside \cup {s}
    BY <1>1, <1>2, <1>3, <2>1, OwnersInside DEF Pending, TypeOK
  <2> QED
    BY <1>1, <1>3, <2>1, <2>2, FreeSlot DEF WalksIn
<1>4. CASE st' = [st EXCEPT ![s] = "waiting"] /\ behind' = [behind EXCEPT ![s] = Pending]
  <2>1. Pending' = Pending \cup {s} /\ Inside' = Inside
    BY <1>1, <1>2, <1>4, OwnersInside DEF Pending, TypeOK
  <2>2. \A t \in Pending : s \notin behind[t]
    BY DEF Came, Pending
  <2> QED
    BY <1>1, <1>4, <2>1, <2>2 DEF Joins
<1> QED
  BY <1>3, <1>4 DEF Acquire

(* A move that takes nobody in or out of the line and of the pool.         *)
LEMMA MoveForm ==
  ASSUME TypeOK, NEW s \in Sessions, NEW x \in States \ {"waiting"}, st[s] # "waiting",
         x \in Owning <=> st[s] \in Owning, st' = [st EXCEPT ![s] = x], behind' = behind
  PROVE  Nothing
<1>1. Pending' = Pending
  BY DEF Pending, TypeOK
<1>2. Inside' = Inside
  BY OwnersInside DEF TypeOK
<1> QED
  BY <1>1, <1>2 DEF Nothing

LEMMA StepIsOfLine ==
  ASSUME Inv, Came, [Next]_vars
  PROVE  \/ Nothing \/ IsServed
         \/ \E s \in Sessions : WalksIn(s) \/ Joins(s) \/ GivesUp(s) \/ Leaves(s)
<1> DEFINE Goal == \/ Nothing \/ IsServed
                   \/ \E s \in Sessions : WalksIn(s) \/ Joins(s) \/ GivesUp(s) \/ Leaves(s)
<1>0. TypeOK
  BY DEF Inv
<1>1. ASSUME NEW s \in Sessions, Arrive(s) PROVE Goal
  <2>1. CASE inFlight >= Capacity
    BY <1>0, <1>1, <2>1, Slots, MoveForm DEF Arrive
  <2>2. CASE ~(inFlight >= Capacity)
    BY <1>1, <2>2, AcquireForm DEF Arrive
  <2> QED
    BY <2>1, <2>2
<1>2. ASSUME NEW s \in Sessions, Announced(s) PROVE Goal
  BY <1>2, AcquireForm DEF Announced
<1>3. ASSUME NEW s \in Sessions, AnnounceFails(s) \/ CancelBeforeSlot(s) PROVE Goal
  BY <1>0, <1>3, Slots, MoveForm DEF AnnounceFails, CancelBeforeSlot
<1>4. ASSUME NEW s \in Sessions, Resume(s) PROVE Goal
  <2>1. /\ st[s] \in Owning /\ st[s] # "waiting" /\ "starting" \in States \ {"waiting"}
        /\ "starting" \in Owning /\ behind' = behind
        /\ PassOn([st EXCEPT ![s] = "starting"])
    BY <1>4, Slots DEF Resume
  <2>2. CASE value > 0
    <3>1. WakeUpNext([st EXCEPT ![s] = "starting"], value)
      BY <2>1, <2>2 DEF PassOn
    <3>2. HeadComesTo(Inside)
      BY <1>0, <2>1, <3>1, WakeUpForm
    <3> QED
      BY <2>1, <2>2, <3>2, FreeSlot DEF IsServed
  <2>3. CASE ~(value > 0)
    BY <1>0, <2>1, <2>3, MoveForm DEF PassOn
  <2> QED
    BY <2>2, <2>3
<1>5. ASSUME NEW s \in Sessions, BrowserStarts(s) \/ LoopEnds(s) \/ CancelRunning(s) PROVE Goal
  BY <1>0, <1>5, Slots, MoveForm DEF BrowserStarts, LoopEnds, CancelRunning
<1>6. ASSUME NEW s \in Sessions, StartFails(s) \/ BrowserCloses(s)
             \/ CancelInBrowserCall(s) \/ CancelGranted(s) PROVE Goal
  <2>1. /\ st[s] \in Owning /\ behind' = behind
        /\ WakeUpNext([st EXCEPT ![s] = "ended"], value + 1)
    BY <1>6, Slots DEF StartFails, BrowserCloses, CancelInBrowserCall, CancelGranted, Release
  <2>2. "ended" \in States /\ "ended" # "waiting" /\ "ended" \notin Owning
    BY Slots
  <2>3. HeadComesTo(Inside \ {s})
    BY <1>0, <2>1, <2>2, WakeUpForm
  <2>4. s \in Inside
    BY <2>1, OwnersInside
  <2> QED
    BY <2>1, <2>3, <2>4 DEF Leaves
<1>7. ASSUME NEW s \in Sessions, Disconnect(s) PROVE Goal
  <2>1. CASE st[s] = "waiting"
    <3>1. st' = [st EXCEPT ![s] = "withdrawn"] /\ behind' = behind
      BY <1>7, <2>1 DEF Disconnect
    <3>2. Pending' = Pending \ {s} /\ s \in Pending
      BY <1>0, <2>1, <3>1 DEF Pending, TypeOK
    <3>3. Inside' = Inside
      BY <1>0, <2>1, <3>1, OwnersInside, Slots DEF TypeOK
    <3> QED
      BY <3>1, <3>2, <3>3 DEF GivesUp
  <2>2. CASE st[s] # "waiting"
    BY <1>7, <2>2, OwnersInside DEF Disconnect, Nothing, Pending
  <2> QED
    BY <2>1, <2>2
<1>8. CASE UNCHANGED vars
  BY <1>8, OwnersInside DEF vars, Nothing, Pending
<1> QED
  BY <1>1, <1>2, <1>3, <1>4, <1>5, <1>6, <1>7, <1>8 DEF Next, Progress, Finished

(* Who has come does not become new again.                                 *)
LEMMA StepCame == Inv /\ Came /\ [Next]_vars => Came'
<1> SUFFICES ASSUME Inv, Came, [Next]_vars,
                    NEW s \in Sessions, NEW t \in Sessions, t \in behind'[s]
             PROVE  st'[t] \notin {"new", "announcing"}
  BY DEF Came
<1>1. TypeOK
  BY DEF Inv
<1>2. st[t] \notin {"new", "announcing"}
  <2>1. CASE t \in behind[s]
    BY <2>1 DEF Came
  <2>2. CASE t \notin behind[s]
    <3>1. PICK u \in Sessions : Joins(u)
      BY <2>2, StepIsOfLine DEF Nothing, IsServed, WalksIn, GivesUp, Leaves
    <3>2. t \in Pending
      BY <1>1, <2>2, <3>1 DEF Joins, TypeOK
    <3> QED
      BY <3>2 DEF Pending
  <2> QED
    BY <2>1, <2>2
<1>3. ASSUME NEW f \in [Sessions -> States], NEW v, WakeUpNext(f, v), f[t] \notin {"new", "announcing"}
      PROVE  st'[t] \notin {"new", "announcing"}
  BY <1>3 DEF WakeUpNext
<1>4. ASSUME NEW u \in Sessions, NEW x \in States, st' = [st EXCEPT ![u] = x],
             u = t => x \notin {"new", "announcing"}
      PROVE  st'[t] \notin {"new", "announcing"}
  BY <1>1, <1>2, <1>4 DEF TypeOK
<1>5. ASSUME NEW u \in Sessions, Arrive(u) \/ Announced(u) PROVE st'[t] \notin {"new", "announcing"}
  BY <1>1, <1>2, <1>5 DEF Arrive, Announced, Acquire, TypeOK
<1>6. ASSUME NEW u \in Sessions, AnnounceFails(u) \/ CancelBeforeSlot(u) \/ BrowserStarts(u)
             \/ LoopEnds(u) \/ CancelRunning(u)
      PROVE  st'[t] \notin {"new", "announcing"}
  BY <1>4, <1>6, Slots
     DEF AnnounceFails, CancelBeforeSlot, BrowserStarts, LoopEnds, CancelRunning, States
<1>7. ASSUME NEW u \in Sessions, Resume(u) PROVE st'[t] \notin {"new", "announcing"}
  <2>1. [st EXCEPT ![u] = "starting"] \in [Sessions -> States]
    BY <1>1 DEF TypeOK, States
  <2>2. [st EXCEPT ![u] = "starting"][t] \notin {"new", "announcing"}
    BY <1>1, <1>2 DEF TypeOK
  <2> QED
    BY <1>3, <1>7, <2>1, <2>2 DEF Resume, PassOn
<1>8. ASSUME NEW u \in Sessions, StartFails(u) \/ BrowserCloses(u)
             \/ CancelInBrowserCall(u) \/ CancelGranted(u)
      PROVE  st'[t] \notin {"new", "announcing"}
  <2>1. [st EXCEPT ![u] = "ended"] \in [Sessions -> States]
    BY <1>1 DEF TypeOK, States
  <2>2. [st EXCEPT ![u] = "ended"][t] \notin {"new", "announcing"}
    BY <1>1, <1>2 DEF TypeOK
  <2> QED
    BY <1>3, <1>8, <2>1, <2>2
       DEF StartFails, BrowserCloses, CancelInBrowserCall, CancelGranted, Release
<1>9. ASSUME NEW u \in Sessions, Disconnect(u) PROVE st'[t] \notin {"new", "announcing"}
  BY <1>1, <1>2, <1>9 DEF Disconnect, TypeOK
<1>10. CASE UNCHANGED vars
  BY <1>2, <1>10 DEF vars
<1> QED
  BY <1>5, <1>6, <1>7, <1>8, <1>9, <1>10 DEF Next, Progress, Finished

(* The abstract pool counts with the same operator.                        *)
LEMMA SameCount == ASSUME NEW S PROVE Fifo!Cardinality(S) = Cardinality(S)
BY DEF Cardinality, Fifo!Cardinality

LEMMA LineIs ==
  ASSUME InLine
  PROVE  /\ Line \in Seq(Sessions)
         /\ \A s \in Sessions : s \in Pending <=> Fifo!InLine(s)
         /\ Pending = {} <=> Line = <<>>
         /\ \A w \in Pending : behind[w] \cap Pending = {} => Line # <<>> /\ w = Head(Line) /\ w = Line[1]
<1>1. Line \in Seq(Sessions) /\ Pending = {Line[i] : i \in 1..Len(Line)}
  BY DEF InLine, Orders
<1>2. DOMAIN Line = 1..Len(Line)
  BY <1>1
<1>3. \A s \in Sessions : s \in Pending <=> Fifo!InLine(s)
  BY <1>1, <1>2, Zenon DEF Fifo!InLine
<1> QED
  BY <1>1, <1>3, NobodyWaits, FirstIsHead DEF InLine

(* The head of the line goes, and the rest of the line stays as it is.     *)
LEMMA HeadGoes ==
  ASSUME InLine, NEW S, HeadComesTo(S), behind' = behind
  PROVE  /\ InLine'
         /\ \/ Line = <<>> /\ Line' = Line /\ Inside' = S
            \/ Line # <<>> /\ Line' = Tail(Line) /\ Inside' = S \cup {Head(Line)}
<1>1. CASE Pending = {} /\ Pending' = {} /\ Inside' = S
  <2>1. Line' = Line
    BY <1>1, LineDef
  <2> QED
    BY <1>1, <2>1, LineIs DEF InLine
<1>2. ASSUME NEW w \in Pending, behind[w] \cap Pending = {},
             Pending' = Pending \ {w}, Inside' = S \cup {w}
      PROVE  InLine' /\ Line # <<>> /\ Line' = Tail(Line) /\ Inside' = S \cup {Head(Line)}
  <2>1. Line \in Seq(Sessions) /\ Line # <<>> /\ w = Head(Line) /\ w = Line[1]
    BY <1>2, LineIs
  <2>2. 1 \in 1..Len(Line)
    BY <2>1
  <2>3. Cut(Line, 1) = Tail(Line)
    BY <2>1, <2>2, CutIsWithout
  <2>4. Orders(Tail(Line), Pending', behind')
    <3>1. Orders(Cut(Line, 1), Pending \ {Line[1]}, behind)
      BY <2>2, CutOrders DEF InLine
    <3> QED
      BY <1>2, <2>1, <2>3, <3>1
  <2>5. Line' = Tail(Line)
    BY <2>4, LineIsUnique, LineDef
  <2> QED
    BY <1>2, <2>1, <2>4, <2>5 DEF InLine
<1> QED
  BY <1>1, <1>2 DEF HeadComesTo

(* A step of the server is a step of the FIFO pool, and keeps the line.    *)
LEMMA StepRefines ==
  ASSUME Inv, Came, InLine, [Next]_vars
  PROVE  InLine' /\ [Fifo!Next]_(Fifo!abstractVars)
<1> DEFINE Goal == InLine' /\ [Fifo!Next]_(Fifo!abstractVars)
<1>0. behind \in [Sessions -> SUBSET Sessions]
  BY DEF Inv, TypeOK
<1>1. CASE Nothing
  <2>1. Line' = Line
    BY <1>1, LineDef DEF Nothing
  <2> QED
    BY <1>1, <2>1 DEF Nothing, InLine, Inside, Fifo!abstractVars
<1>2. CASE IsServed
  <2>1. /\ InLine'
        /\ \/ Line = <<>> /\ Line' = Line /\ Inside' = Inside
           \/ Line # <<>> /\ Line' = Tail(Line) /\ Inside' = Inside \cup {Head(Line)}
    BY <1>2, HeadGoes DEF IsServed
  <2>2. CASE Line = <<>> /\ Line' = Line /\ Inside' = Inside
    BY <2>1, <2>2 DEF Inside, Fifo!abstractVars
  <2>3. CASE Line # <<>> /\ Line' = Tail(Line) /\ Inside' = Inside \cup {Head(Line)}
    <3>1. Cardinality(Granted \cup Holders) < Capacity
      BY <1>2 DEF IsServed, Inside
    <3>2. (Granted \cup Holders)' = (Granted \cup Holders) \cup {Head(Line)}
      BY <2>3 DEF Inside
    <3>3. Fifo!Serve
      BY <2>3, <3>1, <3>2, SameCount DEF Fifo!Serve
    <3> QED
      BY <2>1, <3>3 DEF Fifo!Next
  <2> QED
    BY <2>1, <2>2, <2>3
<1>3. ASSUME NEW s \in Sessions, WalksIn(s) PROVE Goal
  <2>1. Line' = Line /\ Line = <<>>
    BY <1>3, LineDef, LineIs DEF WalksIn
  <2>2. InLine'
    BY <1>3, <2>1 DEF WalksIn, InLine
  <2>3. ~Fifo!InLine(s)
    BY <1>3, LineIs DEF WalksIn
  <2>4. Fifo!WalkIn(s)
    <3>1. /\ s \notin Granted \cup Holders /\ Cardinality(Granted \cup Holders) < Capacity
          /\ (Granted \cup Holders)' = (Granted \cup Holders) \cup {s}
      BY <1>3 DEF WalksIn, Inside
    <3> QED
      BY <2>1, <2>3, <3>1, SameCount DEF Fifo!WalkIn
  <2> QED
    BY <2>2, <2>4 DEF Fifo!Next
<1>4. ASSUME NEW s \in Sessions, Joins(s) PROVE Goal
  <2>1. Orders(Append(Line, s), Pending', behind')
    BY <1>0, <1>4, JoinOrders DEF Joins, InLine
  <2>2. Line' = Append(Line, s)
    BY <2>1, LineIsUnique, LineDef
  <2>3. InLine'
    BY <2>1, <2>2 DEF InLine
  <2>4. ~Fifo!InLine(s)
    BY <1>4, LineIs DEF Joins
  <2>5. Fifo!Join(s)
    BY <1>4, <2>2, <2>4 DEF Joins, Inside, Fifo!Join
  <2> QED
    BY <2>3, <2>5 DEF Fifo!Next
<1>5. ASSUME NEW s \in Sessions, GivesUp(s) PROVE Goal
  <2>1. PICK i \in 1..Len(Line) : Line[i] = s
    BY <1>5 DEF GivesUp, InLine, Orders
  <2>2. Line \in Seq(Sessions) /\ DOMAIN Line = 1..Len(Line)
    BY LineIs
  <2>3. Orders(Cut(Line, i), Pending', behind')
    BY <1>5, <2>1, CutOrders DEF GivesUp, InLine
  <2>4. Line' = Cut(Line, i)
    BY <2>3, LineIsUnique, LineDef
  <2>5. InLine'
    BY <2>3, <2>4 DEF InLine
  <2>6. Line' = Fifo!Without(i)
    BY <2>2, <2>4, CutIsWithout DEF Fifo!Without
  <2>7. Fifo!GiveUp(s)
    BY <1>5, <2>1, <2>2, <2>6 DEF GivesUp, Inside, Fifo!GiveUp
  <2> QED
    BY <2>5, <2>7 DEF Fifo!Next
<1>6. ASSUME NEW s \in Sessions, Leaves(s) PROVE Goal
  <2>1. /\ InLine'
        /\ \/ Line = <<>> /\ Line' = Line /\ Inside' = Inside \ {s}
           \/ Line # <<>> /\ Line' = Tail(Line) /\ Inside' = (Inside \ {s}) \cup {Head(Line)}
    BY <1>6, HeadGoes DEF Leaves
  <2>2. Fifo!Leave(s)
    BY <1>6, <2>1 DEF Leaves, Inside, Fifo!Leave
  <2> QED
    BY <2>1, <2>2 DEF Fifo!Next
<1> QED
  BY <1>1, <1>2, <1>3, <1>4, <1>5, <1>6, StepIsOfLine

LEMMA InitRefines == Init => Fifo!Init /\ InLine /\ Came
<1> SUFFICES ASSUME Init PROVE Fifo!Init /\ InLine /\ Came
  OBVIOUS
<1>1. Pending = {} /\ Granted \cup Holders = {} /\ Came
  BY DEF Init, Pending, Granted, Holders, Holding, Came
<1>2. Orders(<<>>, Pending, behind)
  <2>1. <<>> \in Seq(Sessions) /\ Len(<<>>) = 0
    OBVIOUS
  <2> QED
    BY <1>1, <2>1 DEF Orders
<1>3. Line = <<>>
  BY <1>2, LineIsUnique, LineDef
<1> QED
  BY <1>1, <1>2, <1>3 DEF InLine, Fifo!Init

(* The server implements the FIFO pool: each arrival, hand-over, cancellation
   and failure of server.py is a walk-in, a join, a service, a renunciation or a
   departure of the abstract pool, or nothing.                               *)
THEOREM ImplementsFifoPool == Spec => Fifo!Spec
<1>1. Init => Inv /\ Came /\ InLine /\ Fifo!Init
  BY InitInv, InitRefines
<1>2. Inv /\ Came /\ InLine /\ [Next]_vars => (Inv /\ Came /\ InLine)' /\ [Fifo!Next]_(Fifo!abstractVars)
  BY StepInv, StepCame, StepRefines
<1> QED
  BY <1>1, <1>2, PTL DEF Spec, Fifo!Spec

=============================================================================
