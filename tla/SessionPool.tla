----------------------------- MODULE SessionPool -----------------------------
(***************************************************************************)
(* Admission of browsing sessions by the task2 server: run_loop in         *)
(* server.py takes a slot of an asyncio.Semaphore, starts a browser of its *)
(* own, runs the agent loop, closes the browser and gives the slot back.   *)
(*                                                                         *)
(* asyncio is cooperative: one action is the code between two suspension   *)
(* points of one session's task.  A slot that is released while somebody   *)
(* waits is handed over directly (the waiter's future is resolved), but    *)
(* the waiter's task runs only later, and between the two moments other    *)
(* tasks observe the counters.                                             *)
(***************************************************************************)
EXTENDS Naturals, FiniteSets

CONSTANTS
  Sessions,  (* one element per call of run_loop                           *)
  Capacity   (* "capacity = 5" in build_app                                *)

ASSUME PoolAssumption ==
  /\ IsFiniteSet(Sessions)
  /\ Capacity \in Nat \ {0}

VARIABLES
  st,        (* where the session's task is suspended                      *)
  value,     (* Semaphore._value                                           *)
  inFlight,  (* app.state.sessions_in_flight                               *)
  behind,    (* the futures of Semaphore._waiters a session queued behind  *)
  ahead,     (* the "ahead" a session was told in a queued event, 0 = none *)
  cancelled, (* task.cancel() called, CancelledError not yet thrown        *)
  browser    (* the Chromium process of the session                        *)

vars == <<st, value, inFlight, behind, ahead, cancelled, browser>>

(* "announcing": inside send_event(queued).  "waiting"/"granted"/"withdrawn":
   in acquire(), with a future that is pending/resolved/cancelled.  "starting",
   "running", "closing": inside browser.start(), loop.run(), browser.close(). *)
States == {"new", "announcing", "waiting", "granted", "withdrawn",
           "starting", "running", "closing", "ended"}
Holding == {"starting", "running", "closing"}
Browser == {"none", "starting", "open", "closed", "leaked"}

Pending == {s \in Sessions : st[s] = "waiting"}
Granted == {s \in Sessions : st[s] = "granted"}
Holders == {s \in Sessions : st[s] \in Holding}

-----------------------------------------------------------------------------
(* The semaphore (asyncio of Python 3.11, the version the CI installs).    *)

Locked == value = 0 \/ Pending \cup Granted # {}

(* Mutant: the waiter that came last is woken.                             *)
WakeUpLast(f, v) ==
  LET pending == {s \in Sessions : f[s] = "waiting"}
  IN \/ /\ pending = {}
        /\ st' = f
        /\ value' = v
     \/ \E s \in pending :
          /\ \A t \in pending \ {s} : s \notin behind[t]
          /\ st' = [f EXCEPT ![s] = "granted"]
          /\ value' = v - 1

(* _wake_up_next once the tasks are at f and the counter at v > 0: the first
   future of the deque that is not done is resolved and takes a slot.        *)
WakeUpNext(f, v) ==
  LET pending == {s \in Sessions : f[s] = "waiting"}
  IN \/ /\ pending = {}
        /\ st' = f
        /\ value' = v
     \/ \E s \in pending :
          /\ behind[s] \cap pending = {}
          /\ st' = [f EXCEPT ![s] = "granted"]
          /\ value' = v - 1

Release(s) == WakeUpNext([st EXCEPT ![s] = "ended"], value + 1)

(* The end of acquire() in a granted waiter: a slot that became free while its
   own resolved future still made newcomers queue is passed on.  Mutant: it
   is not (the test on value is missing).                                    *)
PassOnNothing(f) == st' = f /\ value' = value
PassOn(f) == IF value > 0 THEN WakeUpNext(f, value) ELSE st' = f /\ value' = value

(* Mutant: the session is not counted.                                     *)
AdmittedUncounted(s) ==
  /\ inFlight' = inFlight
  /\ browser' = [browser EXCEPT ![s] = "starting"]

(* From the return of acquire() to the first suspension in browser.start(). *)
Admitted(s) ==
  /\ inFlight' = inFlight + 1
  /\ browser' = [browser EXCEPT ![s] = "starting"]

(* Mutant: the counter of the server decides, not the semaphore.           *)
AcquireByCount(s) ==
  \/ /\ inFlight < Capacity
     /\ value' = value - 1
     /\ st' = [st EXCEPT ![s] = "starting"]
     /\ Admitted(s)
     /\ UNCHANGED behind
  \/ /\ inFlight >= Capacity
     /\ st' = [st EXCEPT ![s] = "waiting"]
     /\ behind' = [behind EXCEPT ![s] = Pending]
     /\ UNCHANGED <<value, inFlight, browser>>

Acquire(s) ==
  \/ /\ ~Locked
     /\ value' = value - 1
     /\ st' = [st EXCEPT ![s] = "starting"]
     /\ Admitted(s)
     /\ UNCHANGED behind
  \/ /\ Locked
     /\ st' = [st EXCEPT ![s] = "waiting"]
     /\ behind' = [behind EXCEPT ![s] = Pending]
     /\ UNCHANGED <<value, inFlight, browser>>

-----------------------------------------------------------------------------
(* The task of session s.                                                  *)

(* run_loop starts: sessions_in_flight is read once, as an argument.       *)
Arrive(s) ==
  /\ st[s] = "new"
  /\ IF inFlight >= Capacity
     THEN /\ st' = [st EXCEPT ![s] = "announcing"]
          /\ ahead' = [ahead EXCEPT ![s] = inFlight - Capacity + 1]
          /\ UNCHANGED <<value, inFlight, behind, browser>>
     ELSE Acquire(s) /\ UNCHANGED ahead
  /\ UNCHANGED cancelled

(* The queued event is on the wire.                                        *)
Announced(s) ==
  /\ st[s] = "announcing"
  /\ s \notin cancelled
  /\ Acquire(s)
  /\ UNCHANGED <<ahead, cancelled>>

(* The client is gone and send_event raises, before any slot is taken.     *)
AnnounceFails(s) ==
  /\ st[s] = "announcing"
  /\ s \notin cancelled
  /\ st' = [st EXCEPT ![s] = "ended"]
  /\ UNCHANGED <<value, inFlight, behind, ahead, cancelled, browser>>

(* The task of a granted waiter runs.                                      *)
Resume(s) ==
  /\ st[s] = "granted"
  /\ s \notin cancelled
  /\ PassOn([st EXCEPT ![s] = "starting"])
  /\ Admitted(s)
  /\ UNCHANGED <<behind, ahead, cancelled>>

BrowserStarts(s) ==
  /\ st[s] = "starting"
  /\ s \notin cancelled
  /\ st' = [st EXCEPT ![s] = "running"]
  /\ browser' = [browser EXCEPT ![s] = "open"]
  /\ UNCHANGED <<value, inFlight, behind, ahead, cancelled>>

(* browser.start(), or browser.close(), was interrupted between two of its
   awaits: what it had launched, or not yet closed, stays ("leaked").       *)
BrowserLeft(s) ==
  \E b \in {IF st[s] = "starting" THEN "none" ELSE "closed", "leaked"} :
    browser' = [browser EXCEPT ![s] = b]

(* Mutant: the finally that gives the slot back does not enclose start().  *)
StartFailsOutside(s) ==
  /\ st[s] = "starting"
  /\ s \notin cancelled
  /\ BrowserLeft(s)
  /\ st' = [st EXCEPT ![s] = "ended"]
  /\ UNCHANGED <<value, inFlight, behind, ahead, cancelled>>

(* browser.start() raises outside the try that closes the browser; the outer
   finally gives the slot back.                                              *)
StartFails(s) ==
  /\ st[s] = "starting"
  /\ s \notin cancelled
  /\ BrowserLeft(s)
  /\ inFlight' = inFlight - 1
  /\ Release(s)
  /\ UNCHANGED <<behind, ahead, cancelled>>

(* Mutant: the slot goes back before the browser is closed.                *)
LoopEndsAndReleases(s) ==
  /\ st[s] = "running"
  /\ s \notin cancelled
  /\ WakeUpNext([st EXCEPT ![s] = "closing"], value + 1)
  /\ UNCHANGED <<inFlight, behind, ahead, cancelled, browser>>

(* loop.run returns or raises; the inner finally awaits browser.close().   *)
LoopEnds(s) ==
  /\ st[s] = "running"
  /\ s \notin cancelled
  /\ st' = [st EXCEPT ![s] = "closing"]
  /\ UNCHANGED <<value, inFlight, behind, ahead, cancelled, browser>>

(* browser.close() returns, or raises half way; the slot goes back in both. *)
BrowserCloses(s) ==
  /\ st[s] = "closing"
  /\ s \notin cancelled
  /\ BrowserLeft(s)
  /\ inFlight' = inFlight - 1
  /\ Release(s)
  /\ UNCHANGED <<behind, ahead, cancelled>>

-----------------------------------------------------------------------------
(* Disconnection of the WebSocket client: run_task.cancel(), at most once. *)

Disconnect(s) ==
  /\ st[s] \notin {"new", "withdrawn", "ended"}
  /\ s \notin cancelled
  /\ IF st[s] = "waiting"
     THEN /\ st' = [st EXCEPT ![s] = "withdrawn"]
          /\ UNCHANGED cancelled
     ELSE /\ cancelled' = cancelled \cup {s}
          /\ UNCHANGED st
  /\ UNCHANGED <<value, inFlight, behind, ahead, browser>>

(* CancelledError is thrown into the suspended task.                       *)
CancelBeforeSlot(s) ==
  /\ st[s] = "withdrawn" \/ (st[s] = "announcing" /\ s \in cancelled)
  /\ st' = [st EXCEPT ![s] = "ended"]
  /\ cancelled' = cancelled \ {s}
  /\ UNCHANGED <<value, inFlight, behind, ahead, browser>>

CancelGranted(s) ==
  /\ st[s] = "granted"
  /\ s \in cancelled
  /\ Release(s)
  /\ cancelled' = cancelled \ {s}
  /\ UNCHANGED <<inFlight, behind, ahead, browser>>

(* Mutant: only errors are cleaned up after, not a cancellation.           *)
CancelRunningAbruptly(s) ==
  /\ st[s] = "running"
  /\ s \in cancelled
  /\ st' = [st EXCEPT ![s] = "ended"]
  /\ cancelled' = cancelled \ {s}
  /\ UNCHANGED <<value, inFlight, behind, ahead, browser>>

CancelRunning(s) ==
  /\ st[s] = "running"
  /\ s \in cancelled
  /\ st' = [st EXCEPT ![s] = "closing"]
  /\ cancelled' = cancelled \ {s}
  /\ UNCHANGED <<value, inFlight, behind, ahead, browser>>

CancelInBrowserCall(s) ==
  /\ st[s] \in {"starting", "closing"}
  /\ s \in cancelled
  /\ BrowserLeft(s)
  /\ inFlight' = inFlight - 1
  /\ Release(s)
  /\ cancelled' = cancelled \ {s}
  /\ UNCHANGED <<behind, ahead>>

-----------------------------------------------------------------------------
Init ==
  /\ st = [s \in Sessions |-> "new"]
  /\ value = Capacity
  /\ inFlight = 0
  /\ behind = [s \in Sessions |-> {}]
  /\ ahead = [s \in Sessions |-> 0]
  /\ cancelled = {}
  /\ browser = [s \in Sessions |-> "none"]

(* What the event loop, the browser and the agent loop do by themselves.   *)
Progress(s) ==
  \/ Announced(s)     \/ AnnounceFails(s) \/ Resume(s)
  \/ BrowserStarts(s) \/ StartFails(s)    \/ LoopEnds(s) \/ BrowserCloses(s)
  \/ CancelBeforeSlot(s) \/ CancelGranted(s) \/ CancelRunning(s)
  \/ CancelInBrowserCall(s)

Finished == (\A s \in Sessions : st[s] = "ended") /\ UNCHANGED vars

Next ==
  \/ \E s \in Sessions : Arrive(s) \/ Disconnect(s) \/ Progress(s)
  \/ Finished

Spec == Init /\ [][Next]_vars

(* The event loop runs a task that can go on, and a browser call or a run ends.
   Of the runs this is assumed: requests to the model time out (llm.py) and the
   number of steps is bounded, but a call into a page may hang (Hangs of
   ReactLoop), and its session then keeps its slot until its client leaves.  *)
FairSpec == Spec /\ \A s \in Sessions : WF_vars(Progress(s))

-----------------------------------------------------------------------------
(* The type of the state.                                                  *)
TypeOK ==
  /\ st \in [Sessions -> States]
  /\ value \in Nat
  /\ inFlight \in Nat
  /\ behind \in [Sessions -> SUBSET Sessions]
  /\ ahead \in [Sessions -> Nat]
  /\ cancelled \subseteq Sessions
  /\ browser \in [Sessions -> Browser]

(* Whatever the order of arrivals, cancellations and failures, no slot is lost
   and none is returned twice: free slots, slots handed to a waiter that has
   not run yet and slots in use add up to the capacity (sem in build_app), and
   sessions_in_flight counts exactly the slots in use.                       *)
SlotAccounting ==
  /\ value + Cardinality(Granted \cup Holders) = Capacity
  /\ inFlight = Cardinality(Holders)

(* A session never waits beside a free slot with nobody about to hand it on:
   run_loop relies on it, as it has no timeout around sem.acquire().         *)
NoLostWakeup == value > 0 /\ Pending # {} => Granted # {}

(* First come, first served: a session that gets a slot, directly or from
   another one, leaves no session waiting that joined the queue before it.   *)
NoOvertaking ==
  [][\A s \in Sessions :
       (st[s] \notin Holding \cup {"granted"} /\ st'[s] \in Holding \cup {"granted"})
         => \A t \in Pending \ {s} : st[s] = "waiting" /\ t \notin behind[s]]_vars

(* The slot outlives the browser call: browsers being launched or in use never
   exceed the capacity, because the release comes after browser.close().     *)
BrowsersBounded ==
  Cardinality({s \in Sessions : browser[s] \in {"starting", "open"}}) <= Capacity

(* A waiting session is eventually served, or its client has gone.         *)
NoStarvation ==
  \A s \in Sessions : st[s] = "waiting" ~> st[s] \in {"starting", "ended"}

-----------------------------------------------------------------------------
(* Statements of the repository that the code does not meet.               *)

(* test_session_queue_awareness.py:1-2: a session that waits on the semaphore
   receives a queued event before session_started fires.                     *)
WaitingWasAnnounced == \A s \in Pending : ahead[s] > 0

=============================================================================
