------------------------------ MODULE Grounding ------------------------------
(***************************************************************************)
(* What the agent may search for and answer, for one run: the check of     *)
(* read_grep patterns (loop.py), the checks of done() (tools/meta.py) and  *)
(* the forced done of the last step (force_done.py).  A text is a sequence *)
(* of words, after the normalisation of case, blanks and brackets; the     *)
(* words of page and user are told from the ones the model makes up only   *)
(* by the properties.                                                      *)
(***************************************************************************)
EXTENDS Naturals, Sequences, SequencesExt

CONSTANTS
  PageTexts,     (* texts that a read or a search may show                   *)
  UserTexts,     (* answers of the user                                      *)
  Goal,
  Citations,     (* patterns, answers and evidence of the model              *)
  MinEvidence,   (* the ten characters, in words                             *)
  MaxSteps,
  Wording        (* a word that stands for the text of a message             *)

ASSUME GroundingAssumption ==
  /\ MaxSteps \in Nat /\ MinEvidence \in Nat
  /\ \A text \in PageTexts \cup UserTexts \cup Citations \cup {Goal} :
       text \in Seq({text[i] : i \in DOMAIN text})

VARIABLES
  tape,     (* kind, pattern and observation of each step                    *)
  result    (* what run() returned: status, answer, evidence and way         *)

vars == <<tape, result>>

Statuses == {"success", "failed", "needs_user"}
None == [status |-> "none", answer |-> <<>>, evidence |-> <<>>, way |-> "none"]

(* `needle in text`, on words.                                             *)
Within(needle, text) == needle \in SubSeqs(text)

(* Messages of the harness: some repeat what the model said.               *)
Message(words) == <<Wording>> \o words \o <<Wording>>

Step(kind, pattern, obs) ==
  /\ tape' = Append(tape, [kind |-> kind, pattern |-> pattern, obs |-> obs])
  /\ UNCHANGED result

(* The budget leaves the last step to the forced done.                     *)
Running == result = None /\ Len(tape) < MaxSteps - 1

-----------------------------------------------------------------------------
(* What a step called read leaves on the tape: a window of the page, with a note
   of the harness before it when it is a later one; a notice that the page is at
   its end, that the call was not executed or failed; or, for an argument that
   read does not take, an error that repeats the model's words.              *)
Read ==
  /\ Running
  /\ \/ \E obs \in PageTexts \cup {<<Wording>> \o text : text \in PageTexts} :
          Step("read", <<>>, obs)
     \/ \E argument \in Citations \cup {<<>>} : Step("read", argument, Message(argument))

(* _last_read_obs and _check_read_grep_grounding.
   Mutant: the last observation of any tool counts.                          *)
LastOfAny == IF tape = <<>> THEN <<>> ELSE tape[Len(tape)].obs
LastRead ==
  LET reads == {i \in DOMAIN tape : tape[i].kind = "read"} IN
  IF reads = {} THEN <<>>
  ELSE tape[CHOOSE i \in reads : \A j \in reads : j <= i].obs

MaySearch(pattern) == Within(pattern, Goal) \/ Within(pattern, LastRead)

(* read_grep shows its matches with their surroundings, repeats the pattern that
   was not found, reports that nothing is new, or is blocked with a message that
   repeats the pattern.                                                      *)
Search(pattern) ==
  /\ Running
  /\ IF MaySearch(pattern)
     THEN \E obs \in {t \in PageTexts : Within(pattern, t)} \cup
                    {Message(pattern), Message(<<>>)} :
            Step("search", pattern, obs)
     ELSE Step("blocked", pattern, Message(pattern))

(* ask_user_question brings words of the user onto the tape.               *)
UserSays ==
  /\ Running
  /\ \E text \in UserTexts : Step("user", <<>>, <<Wording>> \o text)

(* Every other step reports, and may repeat the model's words: the name of a tool
   that is not there, an address that is refused.                            *)
Other ==
  /\ Running
  /\ \E words \in Citations \cup {<<>>} : Step("other", words, Message(words))

-----------------------------------------------------------------------------
(* done(): the haystack is all observations, joined by blanks.             *)
Haystack == FlattenSeq([i \in DOMAIN tape |-> tape[i].obs])

(* Mutant: the answer is not looked for in the evidence.                   *)
AnswerUnchecked(answer, evidence) == TRUE
AnswerWithin(answer, evidence) == Within(answer, evidence)

Accepted(status, answer, evidence) ==
  CASE status = "success" ->
         /\ evidence # <<>> /\ Len(evidence) >= MinEvidence
         /\ Within(evidence, Haystack) /\ AnswerWithin(answer, evidence)
    [] status = "failed" -> evidence = <<>> \/ Within(evidence, Haystack)
    [] OTHER -> TRUE

(* What the rejection repeats: nothing when the evidence is missing or short. *)
Rejection(status, answer, evidence) ==
  IF status = "success" /\ Len(evidence) < MinEvidence THEN Message(<<>>)
  ELSE IF ~Within(evidence, Haystack) THEN Message(evidence)
  ELSE Message(answer \o <<Wording>> \o evidence)

Done(status, answer, evidence) ==
  /\ Running
  /\ IF Accepted(status, answer, evidence)
     THEN /\ result' = [status |-> status, answer |-> answer, evidence |-> evidence,
                        way |-> "done"]
          /\ UNCHANGED tape
     ELSE Step("rejected", <<>>, Rejection(status, answer, evidence))

(* coerce_done_via_llm: a success whose evidence is not on the tape is turned
   into a failure; the answer is not compared with the evidence.             *)
ForcedDone(status, answer, evidence) ==
  /\ result = None /\ Len(tape) = MaxSteps - 1
  /\ result' =
       IF status = "success" /\ (evidence = <<>> \/ ~Within(evidence, Haystack))
       THEN [status |-> "failed", answer |-> <<>>, evidence |-> evidence, way |-> "forced"]
       ELSE [status |-> status, answer |-> answer, evidence |-> evidence, way |-> "forced"]
  /\ UNCHANGED tape

-----------------------------------------------------------------------------
Init == tape = <<>> /\ result = None

Finished == result # None /\ UNCHANGED vars

Next ==
  \/ Read \/ UserSays \/ Other
  \/ \E p \in Citations : Search(p)
  \/ \E s \in Statuses, a \in Citations, e \in Citations \cup {<<>>} :
       Done(s, a, e) \/ ForcedDone(s, a, e)
  \/ Finished

Spec == Init /\ [][Next]_vars

-----------------------------------------------------------------------------
(* A search that was run looked for words of the goal, or of the last read before
   it: of one window of the page, with the harness's note, or, the one way around
   the check, of an argument that this read refused.  A blocked pattern stays
   blocked, though it is on the tape by then, and so does what an earlier read, a
   search, the user or another tool brought.                                 *)
SearchesAreGrounded ==
  \A i \in DOMAIN tape :
    tape[i].kind = "search" =>
      \/ Within(tape[i].pattern, Goal)
      \/ \E j \in 1..(i - 1) :
           /\ tape[j].kind = "read" /\ \A k \in (j + 1)..(i - 1) : tape[k].kind # "read"
           /\ \E text \in PageTexts \cup {tape[j].pattern} :
                Within(tape[i].pattern, Message(text))

(* Of a success, by done() or forced, the evidence is on the tape, word by word; of
   one that done() accepted, the answer is.                                  *)
AnswersWereSeen ==
  result.status = "success" =>
    /\ result.evidence # <<>> /\ Within(result.evidence, Haystack)
    /\ result.way = "done" => Within(result.answer, Haystack)


=============================================================================
