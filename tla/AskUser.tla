------------------------------- MODULE AskUser -------------------------------
(***************************************************************************)
(* A question of the agent and the way of its answer, for one session:     *)
(* QuestionChannel (tools/meta.py), the question pump of run_loop and the  *)
(* WebSocket handler (server.py), and the question box of the page         *)
(* (app.js).  Four parties wait on one another: the loop on a future, the  *)
(* pump on the socket and on the answer queue, the handler on the socket,  *)
(* the user on the box.  Questions are numbered in the order in which they *)
(* are put; an answer is the number of the question it was typed for.      *)
(***************************************************************************)
EXTENDS Naturals, Sequences

CONSTANT MaxQuestions  (* bound: questions put in one session              *)

ASSUME AskAssumption == MaxQuestions \in Nat

VARIABLES
  loop,     (* "thinking", "asking" (in QuestionChannel.ask), "over"       *)
  asked,    (* questions put so far; the last one is the current one       *)
  blank,    (* the current question is the empty string                    *)
  fut,      (* QuestionChannel._fut: "none", "open" or "resolved"          *)
  reply,    (* the result of the resolved future                           *)
  pump,     (* "sleeping", "sending" (send_event), "asking" (ask_user),
               "stopped" (cancelled, or send_event raised)                 *)
  wire,     (* question events on their way to the page                    *)
  box,      (* question in the visible box, 0 when it is hidden            *)
  inbox,    (* answers on their way to the server                          *)
  answerQ,  (* answer_q of the WebSocket handler                           *)
  conn,     (* "open"; "lost", not noticed yet; "closed"                   *)
  got       (* what each question returned, 0 as long as it did not        *)

askVars == <<loop, asked, blank, fut, reply, pump, wire, box, inbox, answerQ, conn, got>>

Questions == 1..MaxQuestions

-----------------------------------------------------------------------------
(* The agent loop.                                                         *)

Ask(isBlank) ==
  /\ loop = "thinking" /\ asked < MaxQuestions
  /\ loop' = "asking"
  /\ asked' = asked + 1
  /\ blank' = isBlank
  /\ fut' = "open"
  /\ UNCHANGED <<reply, pump, wire, box, inbox, answerQ, conn, got>>

(* The task that waits for the future runs; finally clears the channel.    *)
AskReturns ==
  /\ loop = "asking" /\ fut = "resolved"
  /\ loop' = "thinking"
  /\ got' = [got EXCEPT ![asked] = reply]
  /\ fut' = "none"
  /\ UNCHANGED <<asked, blank, reply, pump, wire, box, inbox, answerQ, conn>>

(* loop.run returns; the pump is cancelled wherever it waits.              *)
LoopReturns ==
  /\ loop = "thinking"
  /\ loop' = "over"
  /\ pump' = "stopped"
  /\ UNCHANGED <<asked, blank, fut, reply, wire, box, inbox, answerQ, conn, got>>

-----------------------------------------------------------------------------
(* question_pump.  Every 50 ms it looks for a pending question, by its text:
   a blank one is not seen.  A resolved future was cleared before the timer
   fires, because the asking task was made runnable first.                   *)

PumpSees ==
  /\ pump = "sleeping" /\ fut = "open" /\ ~blank
  /\ pump' = "sending"
  /\ UNCHANGED <<loop, asked, blank, fut, reply, wire, box, inbox, answerQ, conn, got>>

PumpSends ==
  /\ pump = "sending"
  /\ \/ wire' = Append(wire, asked) /\ pump' = "asking"
     \/ conn # "open" /\ pump' = "stopped" /\ UNCHANGED wire
  /\ UNCHANGED <<loop, asked, blank, fut, reply, box, inbox, answerQ, conn, got>>

(* Mutant: the pump keeps the answer it has just used at the head of the queue. *)
TakenAgain == answerQ
Taken == Tail(answerQ)

PumpAnswers ==
  /\ pump = "asking" /\ answerQ # <<>>
  /\ answerQ' = Taken
  /\ pump' = "sleeping"
  /\ IF fut = "open"
     THEN fut' = "resolved" /\ reply' = Head(answerQ)
     ELSE UNCHANGED <<fut, reply>>
  /\ UNCHANGED <<loop, asked, blank, wire, box, inbox, conn, got>>

-----------------------------------------------------------------------------
(* The page: renderEvent(question) shows the box, the Send button posts the
   answer and hides it.                                                      *)

PageShows ==
  /\ wire # <<>> /\ conn = "open"
  /\ box' = Head(wire)
  /\ wire' = Tail(wire)
  /\ UNCHANGED <<loop, asked, blank, fut, reply, pump, inbox, answerQ, conn, got>>

(* Mutant: the box stays visible once the answer is sent.                  *)
BoxStays == box
BoxAfterSend == 0

UserAnswers ==
  /\ box # 0 /\ conn = "open"
  /\ inbox' = Append(inbox, box)
  /\ box' = BoxAfterSend
  /\ UNCHANGED <<loop, asked, blank, fut, reply, pump, wire, answerQ, conn, got>>

(* The page closes the socket: another session, a new chat, or a reload.   *)
PageLeaves ==
  /\ conn = "open" /\ loop # "over"
  /\ conn' = "lost"
  /\ wire' = <<>> /\ box' = 0
  /\ UNCHANGED <<loop, asked, blank, fut, reply, pump, inbox, answerQ, got>>

-----------------------------------------------------------------------------
(* The WebSocket handler: receive_json with a timeout, in a loop until the
   run is done.  Answers sent before the socket was closed still arrive.     *)

HandlerReceives ==
  /\ inbox # <<>> /\ loop # "over"
  /\ answerQ' = Append(answerQ, Head(inbox))
  /\ inbox' = Tail(inbox)
  /\ UNCHANGED <<loop, asked, blank, fut, reply, pump, wire, box, conn, got>>

(* WebSocketDisconnect: run_task.cancel() unwinds the ask, the loop and the
   pump.  Mutant: the run goes on.                                           *)
RunGoesOn == UNCHANGED <<loop, fut, pump>>
RunCancelled == loop' = "over" /\ fut' = "none" /\ pump' = "stopped"

HandlerNotices ==
  /\ conn = "lost" /\ inbox = <<>> /\ loop # "over"
  /\ conn' = "closed"
  /\ RunCancelled
  /\ UNCHANGED <<asked, blank, reply, wire, box, inbox, answerQ, got>>

-----------------------------------------------------------------------------
AskInit ==
  /\ loop = "thinking" /\ asked = 0 /\ blank = FALSE
  /\ fut = "none" /\ reply = 0 /\ pump = "sleeping"
  /\ wire = <<>> /\ box = 0 /\ inbox = <<>> /\ answerQ = <<>>
  /\ conn = "open" /\ got = [q \in Questions |-> 0]

AskFinished == loop = "over" /\ UNCHANGED askVars

Deliver ==
  \/ AskReturns \/ PumpSees \/ PumpSends \/ PumpAnswers
  \/ PageShows \/ HandlerReceives \/ HandlerNotices

AskNext ==
  \/ \E b \in BOOLEAN : Ask(b)
  \/ LoopReturns \/ Deliver \/ UserAnswers \/ PageLeaves \/ AskFinished

AskSpec == AskInit /\ [][AskNext]_askVars

(* The event loop and the network deliver what is sent, the user answers.
   Nothing makes the agent ask, finish, or the page leave.                   *)
AskFairSpec == AskSpec /\ WF_askVars(Deliver) /\ WF_askVars(UserAnswers)

-----------------------------------------------------------------------------
(* The type of the state.                                                  *)
AskTypeOK ==
  /\ loop \in {"thinking", "asking", "over"}
  /\ asked \in 0..MaxQuestions
  /\ blank \in BOOLEAN
  /\ fut \in {"none", "open", "resolved"}
  /\ reply \in 0..MaxQuestions
  /\ pump \in {"sleeping", "sending", "asking", "stopped"}
  /\ wire \in Seq(Questions)
  /\ box \in 0..MaxQuestions
  /\ inbox \in Seq(Questions)
  /\ answerQ \in Seq(Questions)
  /\ conn \in {"open", "lost", "closed"}
  /\ got \in [Questions -> 0..MaxQuestions]

(* A question returns the answer that was typed for it: the answer travels
   through two queues and two tasks that know nothing of question numbers.   *)
AnswerMatchesQuestion == \A q \in Questions : got[q] \in {0, q}

(* One question is on its way at a time, and only while the pump waits for its
   answer: nothing is left over that a later question could take.            *)
OneQuestionUnderWay ==
  Len(wire) + (IF box = 0 THEN 0 ELSE 1) + Len(inbox) + Len(answerQ)
    <= (IF pump = "asking" \/ loop = "over" THEN 1 ELSE 0)

(* The loop never asks for ever: the question is answered, or the page leaves
   and the run is cancelled.  A blank question is excepted: the pump takes
   it for none, it is never shown, and the loop waits until the page leaves. *)
QuestionsReturn == (loop = "asking" /\ ~blank) ~> loop # "asking"

=============================================================================
