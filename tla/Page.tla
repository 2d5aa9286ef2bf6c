--------------------------------- MODULE Page ---------------------------------
(***************************************************************************)
(* app.js: the page, with the one socket it may hold, the traces it loads  *)
(* of other sessions, its transcript, question box and Run button.  Every  *)
(* handler runs to its first await or its end; what comes back from the    *)
(* server meets the page as it is then.  The server is modelled by what    *)
(* the page sees of it: the events of a run and its trace.                 *)
(***************************************************************************)
EXTENDS Naturals, Sequences, SequencesExt

CONSTANTS
  Past,      (* finished sessions in the sidebar                           *)
  MaxRuns,   (* bound: runs started from this page                         *)
  MaxLoads,  (* bound: traces on their way at a time                       *)
  NoSession

VARIABLES
  activeWS,    (* the run whose socket is held, 0 for null                 *)
  activeSid,
  button,      (* the Run button is enabled                                *)
  transcript,  (* its cards, as <<session, event>>                         *)
  shown,       (* the run whose question is in the box, 0 when it is hidden *)
  loads,       (* sessions whose trace is awaited, in openSession          *)
  started,     (* runs started so far                                      *)
  socket,      (* of each run: "none", "open", "closed" for the page       *)
  mail,        (* messages of each run on their way to the page            *)
  trace        (* trace of each run                                        *)

pageVars == <<activeWS, activeSid, button, transcript, shown, loads, started>>
system == <<activeWS, activeSid, button, transcript, shown, loads, started, socket, mail, trace>>

Runs == 1..MaxRuns
Script == <<"session_started", "step", "done">>

TraceOf(s) == IF s \in Past THEN Script ELSE trace[s]

-----------------------------------------------------------------------------
(* The server (server.py): a run writes and sends its events one by one, may put
   a question and wait for the answer, and closes the socket at its end.  A run
   whose socket the page has closed is cancelled: it ends where it is.       *)

RunEmits(r) ==
  /\ socket[r] = "open" /\ Len(trace[r]) < Len(Script) /\ shown # r
  /\ \A i \in DOMAIN mail[r] : mail[r][i] # "question"
  /\ LET event == Script[Len(trace[r]) + 1] IN
     /\ trace' = [trace EXCEPT ![r] = Append(@, event)]
     /\ mail' = [mail EXCEPT ![r] = Append(@, event)]
  /\ UNCHANGED <<pageVars, socket>>

RunAsks(r) ==
  /\ socket[r] = "open" /\ Len(trace[r]) = 1 /\ mail[r] = <<>> /\ shown # r
  /\ mail' = [mail EXCEPT ![r] = Append(@, "question")]
  /\ UNCHANGED <<pageVars, socket, trace>>

-----------------------------------------------------------------------------
(* renderEvent and finishRun, on the cards, the box and the button.        *)
Shows(s, events) ==
  transcript' = transcript \o
    SelectSeq([i \in DOMAIN events |-> <<s, events[i]>>], LAMBDA card : card[2] # "question")
EndsWithin(events) == \E i \in DOMAIN events : events[i] = "done"

(* A message of the held socket.  The messages of a socket that the page has
   closed are dropped by the browser.                                        *)
Message(r) ==
  /\ socket[r] = "open" /\ mail[r] # <<>>
  /\ LET event == Head(mail[r]) IN
     /\ Shows(r, <<event>>)
     /\ shown' = IF event = "question" THEN r ELSE shown
     /\ button' = (button \/ event = "done")
     /\ activeSid' = IF event = "session_started" THEN r ELSE activeSid
  /\ mail' = [mail EXCEPT ![r] = Tail(@)]
  /\ UNCHANGED <<activeWS, loads, started, socket, trace>>

(* The server closes the socket, at the end of the run or because it fails: the
   listener finishes the run if its socket is still the held one.            *)
SocketCloses(r) ==
  /\ socket[r] = "open" /\ mail[r] = <<>>
  /\ socket' = [socket EXCEPT ![r] = "closed"]
  /\ button' = (button \/ activeWS = r)
  /\ UNCHANGED <<activeWS, activeSid, transcript, shown, loads, started, mail, trace>>

(* activeWS.close(), clearTranscript().  Mutant: the box stays.            *)
CloseHeld == [r \in Runs |-> IF r = activeWS THEN "closed" ELSE socket[r]]
CloseAndKeepBox ==
  /\ mail' = [r \in Runs |-> IF r = activeWS THEN <<>> ELSE mail[r]]
  /\ transcript' = <<>> /\ UNCHANGED shown
CloseAndClear ==
  /\ mail' = [r \in Runs |-> IF r = activeWS THEN <<>> ELSE mail[r]]
  /\ transcript' = <<>> /\ shown' = 0

-----------------------------------------------------------------------------
(* The user.                                                               *)

SendAnswer ==
  /\ shown # 0
  /\ shown' = 0
  /\ UNCHANGED <<activeWS, activeSid, button, transcript, loads, started, socket, mail, trace>>

(* The submit event of the form: a disabled button submits nothing.        *)
StartRun ==
  /\ button /\ started < MaxRuns
  /\ started' = started + 1
  /\ socket' = [CloseHeld EXCEPT ![started + 1] = "open"]
  /\ CloseAndClear
  /\ button' = FALSE
  /\ activeWS' = started + 1
  /\ UNCHANGED <<activeSid, loads, trace>>

(* openSession up to its await.                                            *)
OpenSession(s) ==
  /\ s # activeSid \/ activeWS # 0
  /\ Len(loads) < MaxLoads
  /\ socket' = CloseHeld
  /\ CloseAndClear
  /\ activeWS' = 0 /\ activeSid' = s
  /\ loads' = Append(loads, s)
  /\ UNCHANGED <<button, started, trace>>

NewChat ==
  /\ socket' = CloseHeld
  /\ CloseAndClear
  /\ activeWS' = 0 /\ activeSid' = NoSession
  /\ UNCHANGED <<button, loads, started, trace>>

(* The rest of openSession: the answers of the server come in any order, and
   are rendered whatever the page shows by then.                             *)
LoadReturns(i) ==
  /\ Shows(loads[i], TraceOf(loads[i]))
  /\ button' = (button \/ EndsWithin(TraceOf(loads[i])))
  /\ loads' = RemoveAt(loads, i)
  /\ UNCHANGED <<activeWS, activeSid, shown, started, socket, mail, trace>>

(* An error status replaces the transcript; a failing fetch does nothing.  *)
LoadFails(i) ==
  /\ transcript' \in {transcript, << <<loads[i], "not found">> >>}
  /\ loads' = RemoveAt(loads, i)
  /\ UNCHANGED <<activeWS, activeSid, button, shown, started, socket, mail, trace>>

-----------------------------------------------------------------------------
PageInit ==
  /\ activeWS = 0 /\ activeSid = NoSession /\ button = TRUE
  /\ transcript = <<>> /\ shown = 0 /\ loads = <<>> /\ started = 0
  /\ socket = [r \in Runs |-> "none"]
  /\ mail = [r \in Runs |-> <<>>] /\ trace = [r \in Runs |-> <<>>]

PageNext ==
  \/ \E r \in Runs : RunEmits(r) \/ RunAsks(r) \/ Message(r) \/ SocketCloses(r)
  \/ SendAnswer \/ StartRun \/ NewChat
  \/ \E s \in Past \cup {r \in Runs : trace[r] # <<>>} : OpenSession(s)
  \/ \E i \in DOMAIN loads : LoadReturns(i) \/ LoadFails(i)

PageSpec == PageInit /\ [][PageNext]_system

-----------------------------------------------------------------------------
(* The Send button posts to whatever socket is held when it is pressed (app.js:167),
   while its text is of the question that came last: over messages, new runs, other
   sessions and new chats, a question in the box is of the run that is followed, so
   that no answer goes to another run.                                       *)
AnswerGoesToItsRun == shown # 0 => shown = activeWS

(* A claim that the code does not keep, task2/README.md:192, "chat-like transcript
   of the active session": every card belongs to the session that is open, or to
   the run that is followed.                                                 *)
TranscriptIsOfActive ==
  \A i \in DOMAIN transcript : transcript[i][1] \in {activeSid, activeWS}

=============================================================================
