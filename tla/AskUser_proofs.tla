---------------------------- MODULE AskUser_proofs ----------------------------
(***************************************************************************)
(* The question channel, for any number of questions, and the page, for    *)
(* any number of runs, past sessions and traces under way.                 *)
(***************************************************************************)
EXTENDS AskUser, Page, TLAPS

(* What a queue of the ring holds: nothing, or the current question.       *)
Carries(q) == q = <<>> \/ (asked > 0 /\ q = <<asked>>)

(* The pump waits only for a question that is open, so that nothing of an
   earlier one can be left when the next is put.                             *)
TaskInv ==
  /\ loop \in {"thinking", "asking", "over"}
  /\ fut \in {"none", "open", "resolved"}
  /\ pump \in {"sleeping", "sending", "asking", "stopped"}
  /\ asked \in 0..MaxQuestions
  /\ loop = "asking" <=> fut # "none"
  /\ loop = "asking" => asked > 0
  /\ loop = "over" => pump = "stopped"
  /\ pump \in {"sending", "asking"} => fut = "open"

(* The ring, and the number of places of it that are taken.                *)
RingInv ==
  /\ Carries(wire) /\ box \in {0, asked} /\ Carries(inbox) /\ Carries(answerQ)
  /\ OneQuestionUnderWay

AnswerInv ==
  /\ reply \in 0..MaxQuestions
  /\ fut = "resolved" => reply = asked
  /\ got \in [Questions -> 0..MaxQuestions]
  /\ AnswerMatchesQuestion

AskInv == TaskInv /\ RingInv /\ AnswerInv

LEMMA OneItem ==
  ASSUME NEW x
  PROVE  /\ Len(<<>>) = 0 /\ Len(<<x>>) = 1 /\ <<x>> # <<>>
         /\ Head(<<x>>) = x /\ Tail(<<x>>) = <<>> /\ Append(<<>>, x) = <<x>>
OBVIOUS

LEMMA AskInvInit == AskInit => AskInv
BY AskAssumption, OneItem
   DEF AskInit, AskInv, TaskInv, RingInv, AnswerInv, Carries, OneQuestionUnderWay,
       AnswerMatchesQuestion, Questions

LEMMA AskInvStep == AskInv /\ [AskNext]_askVars => AskInv'
<1> SUFFICES ASSUME AskInv, [AskNext]_askVars PROVE AskInv'
  OBVIOUS
<1> USE AskAssumption, OneItem DEF AskInv, TaskInv, RingInv, AnswerInv, Carries,
          OneQuestionUnderWay, AnswerMatchesQuestion, Questions
<1>1. ASSUME NEW b \in BOOLEAN, Ask(b) PROVE AskInv'
  BY <1>1 DEF Ask
<1>2. CASE LoopReturns
  BY <1>2 DEF LoopReturns
<1>3. CASE AskReturns
  BY <1>3 DEF AskReturns
<1>4. CASE PumpSees
  BY <1>4 DEF PumpSees
<1>5. CASE PumpSends
  <2>1. wire = <<>> /\ box = 0 /\ inbox = <<>> /\ answerQ = <<>> /\ asked > 0
    BY <1>5 DEF PumpSends
  <2>2. (wire' = <<asked>> /\ pump' = "asking") \/ (wire' = <<>> /\ pump' = "stopped")
    BY <1>5, <2>1 DEF PumpSends
  <2>3. TaskInv' /\ AnswerInv'
    BY <1>5, <2>1 DEF PumpSends
  <2>4. UNCHANGED <<asked, box, inbox, answerQ>>
    BY <1>5 DEF PumpSends
  <2>5. RingInv'
    <3>1. Carries(wire)' /\ box' = 0 /\ Carries(inbox)' /\ Carries(answerQ)'
      BY <2>1, <2>2, <2>4
    <3>2. inbox' = <<>> /\ answerQ' = <<>>
      BY <2>1, <2>4
    <3>3. Len(inbox') = 0 /\ Len(answerQ') = 0
      BY <3>2
    <3>4. CASE wire' = <<asked>> /\ pump' = "asking"
      BY <3>1, <3>3, <3>4
    <3>5. CASE wire' = <<>> /\ pump' = "stopped"
      BY <3>1, <3>3, <3>5
    <3> QED
      BY <2>2, <3>4, <3>5
  <2> QED
    BY <2>3, <2>5
<1>6. CASE PumpAnswers
  BY <1>6 DEF PumpAnswers, Taken
<1>7. CASE PageShows
  BY SMTT(30), <1>7 DEF PageShows
<1>8. CASE UserAnswers
  <2>1. box = asked /\ asked > 0 /\ wire = <<>> /\ inbox = <<>> /\ answerQ = <<>>
    BY <1>8 DEF UserAnswers
  <2>2. inbox' = <<asked>> /\ box' = 0
    BY <1>8, <2>1 DEF UserAnswers, BoxAfterSend
  <2> QED
    BY <1>8, <2>1, <2>2 DEF UserAnswers
<1>9. CASE PageLeaves
  BY <1>9 DEF PageLeaves
<1>10. CASE HandlerReceives
  <2>1. inbox = <<asked>> /\ asked > 0 /\ wire = <<>> /\ box = 0 /\ answerQ = <<>>
    BY <1>10 DEF HandlerReceives
  <2>2. answerQ' = <<asked>> /\ inbox' = <<>>
    BY <1>10, <2>1 DEF HandlerReceives
  <2> QED
    BY <1>10, <2>1, <2>2 DEF HandlerReceives
<1>11. CASE HandlerNotices
  BY <1>11 DEF HandlerNotices, RunCancelled
<1>12. CASE AskFinished \/ UNCHANGED askVars
  BY <1>12 DEF AskFinished, askVars
<1> QED
  BY <1>1, <1>2, <1>3, <1>4, <1>5, <1>6, <1>7, <1>8, <1>9, <1>10, <1>11, <1>12 DEF AskNext, Deliver

(* The answer that a question returns was typed for it through two queues
   and two tasks that know nothing of question numbers (tools/meta.py, server.py,
   app.js).                                                                  *)
THEOREM AnswersMatch == AskSpec => []AnswerMatchesQuestion
<1>1. AskInv => AnswerMatchesQuestion
  BY DEF AskInv, AnswerInv
<1> QED
  BY <1>1, AskInvInit, AskInvStep, PTL DEF AskSpec

(* At most one question is on its way, however many are put.               *)
THEOREM OneUnderWay == AskSpec => []OneQuestionUnderWay
<1>1. AskInv => OneQuestionUnderWay
  BY DEF AskInv, RingInv
<1> QED
  BY <1>1, AskInvInit, AskInvStep, PTL DEF AskSpec

-----------------------------------------------------------------------------
(* Only the held socket is open: whatever a message puts into the box is of the
   run that is followed.                                                     *)
HeldIsOpen == \A r \in Runs : socket[r] = "open" => r = activeWS

PageInv == HeldIsOpen /\ AnswerGoesToItsRun

LEMMA PageStep == PageInv /\ [PageNext]_system => PageInv'
<1> SUFFICES ASSUME PageInv, [PageNext]_system PROVE PageInv'
  OBVIOUS
<1> USE DEF PageInv, HeldIsOpen, AnswerGoesToItsRun
<1>1. ASSUME UNCHANGED <<activeWS, shown, socket>> PROVE PageInv'
  BY <1>1
<1>2. ASSUME NEW r \in Runs, RunEmits(r) \/ RunAsks(r) PROVE PageInv'
  BY <1>1, <1>2 DEF RunEmits, RunAsks, pageVars
<1>3. ASSUME NEW r \in Runs, Message(r) PROVE PageInv'
  BY <1>3 DEF Message
<1>4. ASSUME NEW r \in Runs, SocketCloses(r) PROVE PageInv'
  BY <1>4 DEF SocketCloses
<1>5. CASE SendAnswer
  BY <1>5 DEF SendAnswer
<1>6. \A r \in Runs : CloseHeld[r] # "open"
  BY DEF CloseHeld
<1>7. CASE StartRun
  <2>1. \A r \in Runs \ {started + 1} : socket'[r] = CloseHeld[r]
    BY <1>7 DEF StartRun, CloseHeld
  <2> QED
    BY <1>6, <1>7, <2>1 DEF StartRun, CloseAndClear
<1>8. CASE NewChat
  BY <1>6, <1>8 DEF NewChat, CloseAndClear
<1>9. ASSUME NEW s, OpenSession(s) PROVE PageInv'
  BY <1>6, <1>9 DEF OpenSession, CloseAndClear
<1>10. ASSUME NEW i, LoadReturns(i) \/ LoadFails(i) PROVE PageInv'
  BY <1>1, <1>10 DEF LoadReturns, LoadFails
<1>11. CASE UNCHANGED system
  BY <1>1, <1>11 DEF system
<1> QED
  BY <1>2, <1>3, <1>4, <1>5, <1>7, <1>8, <1>9, <1>10, <1>11 DEF PageNext

(* A question in the box is of the run that is followed, over any number of runs,
   sessions and loads: the Send button posts to no other (app.js:167).       *)
THEOREM AnswersGoToTheirRun == PageSpec => []AnswerGoesToItsRun
<1>1. PageInit => PageInv
  BY DEF PageInit, PageInv, HeldIsOpen, AnswerGoesToItsRun
<1>2. PageInv => AnswerGoesToItsRun
  BY DEF PageInv
<1> QED
  BY <1>1, <1>2, PageStep, PTL DEF PageSpec

=============================================================================
