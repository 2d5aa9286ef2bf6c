------------------------------ MODULE Elements -------------------------------
(***************************************************************************)
(* The numbers the agent gives to the elements of a page and acts by:      *)
(* BrowserSession.snapshot (browser_session.py), click, type, goto and     *)
(* list_interactive (tools/browser.py) and the live section of the prompt  *)
(* (loop.py).  A number is an attribute, data-agent-eid, on a node of the  *)
(* DOM; the scripts of the page run between any two awaits, and take nodes *)
(* out, put nodes in and clone them, attribute and all.                    *)
(***************************************************************************)
EXTENDS Naturals, FiniteSets, FiniteSetsExt

CONSTANTS
  Nodes,       (* DOM nodes, of all documents                                *)
  Role,        (* role of a node                                             *)
  Root,        (* the tree of a node: the document's, or a shadow root's     *)
  FirstNodes,  (* the nodes of the page at the start                         *)
  Reattach,    (* a script may keep a node it took out and put it back       *)
  Offsets, Limit,   (* windows of the list                                   *)
  NoTag,
  MaxMoves     (* bound: what the page does by itself                        *)

ASSUME ElementsAssumption ==
  /\ IsFiniteSet(Nodes) /\ FirstNodes \subseteq Nodes /\ Reattach \in BOOLEAN
  /\ Root \in [Nodes -> {"document", "open", "closed"}]
  /\ MaxMoves \in Nat /\ Limit \in Nat \ {0} /\ Offsets \subseteq Nat
  /\ NoTag \notin Nat \cup Nodes

VARIABLES
  life,      (* unborn, in the document, out of it, or gone with its document *)
  tag,       (* data-agent-eid                                               *)
  origin,    (* the node that a node is a clone of, or itself                *)
  expanded,  (* the list of options is open                                  *)
  moves,
  phase,     (* where the step stands                                        *)
  caller,    (* who takes the snapshot: the section or the tool              *)
  todo,      (* nodes of the accessibility tree yet to be tagged             *)
  listed,    (* _element_map: the node that each number was given to         *)
  recent,    (* the last list_interactive: steps since, offset               *)
  section,   (* the live section of the prompt: numbers and their nodes      *)
  call,      (* click or type under way                                      *)
  touched,   (* history: the node of the action and the one it stood for     *)
  quiet,     (* history: neither the page nor the model acted since the snapshot *)
  stale      (* history: nodes that bear a number of an earlier snapshot      *)

pageVars == <<life, tag, origin, expanded>>
stepVars == <<phase, caller, todo, listed, recent, section, call, touched>>
elementVars == <<pageVars, moves, stepVars, quiet, stale>>

Window(offset) == offset..(offset + Limit - 1)
Unlisted == [number \in {} |-> NoTag]
NoCall == [tool |-> "none", number |-> 0, value |-> FALSE]
NoTouch == [node |-> NoTag, shown |-> NoTag]
LongAgo == [since |-> 3, offset |-> 0]
Present == {n \in Nodes : life[n] = "in"}

(* The locator [data-agent-eid="number"], which goes into open shadow roots and
   not into closed ones.  A call through it raises, unless it matches one node. *)
Matches(number) == {n \in Present : Root[n] # "closed" /\ tag[n] = number}

-----------------------------------------------------------------------------
(* What the page does by itself.                                           *)
Moves ==
  /\ moves < MaxMoves /\ moves' = moves + 1
  /\ quiet' = FALSE
  /\ UNCHANGED stepVars

TakeOut(n) ==
  /\ Moves /\ n \in Present
  /\ life' = [life EXCEPT ![n] = "out"]
  /\ UNCHANGED <<tag, origin, expanded, stale>>

PutIn(n) ==
  /\ Moves /\ life[n] \in {"unborn"} \cup (IF Reattach THEN {"out"} ELSE {})
  /\ life' = [life EXCEPT ![n] = "in"]
  /\ UNCHANGED <<tag, origin, expanded, stale>>

Clone(n, copy) ==
  /\ Moves /\ n \in Present /\ life[copy] = "unborn" /\ Role[copy] = Role[n]
  /\ life' = [life EXCEPT ![copy] = "in"]
  /\ tag' = [tag EXCEPT ![copy] = tag[n]]
  /\ origin' = [origin EXCEPT ![copy] = origin[n]]
  /\ stale' = IF n \in stale THEN stale \cup {copy} ELSE stale
  /\ UNCHANGED expanded

Toggle ==
  /\ Moves
  /\ expanded' = ~expanded
  /\ UNCHANGED <<life, tag, origin, stale>>

(* Another document: its nodes are put in one by one.                      *)
NewDocument ==
  /\ life' = [n \in Nodes |-> IF life[n] = "unborn" THEN "unborn" ELSE "gone"]
  /\ UNCHANGED <<tag, origin, expanded>>

Navigates == Moves /\ NewDocument /\ UNCHANGED stale

PageMoves ==
  \/ \E n \in Nodes : TakeOut(n) \/ PutIn(n) \/ \E copy \in Nodes : Clone(n, copy)
  \/ Toggle
  \/ Navigates

-----------------------------------------------------------------------------
(* The head of a step: the section is made while one of the last three steps
   was a list_interactive.                                                   *)
Snapshot(who) ==
  /\ phase' = "clear" /\ caller' = who
  /\ section' = Unlisted /\ touched' = NoTouch
  /\ UNCHANGED <<todo, listed, recent, call>>

BeginStep ==
  /\ phase = "head"
  /\ IF recent.since < 3 THEN Snapshot("section")
     ELSE /\ phase' = "chat" /\ section' = Unlisted /\ touched' = NoTouch
          /\ UNCHANGED <<caller, todo, listed, recent, call>>
  /\ UNCHANGED <<pageVars, moves, quiet, stale>>

(* The numbers of the last snapshot are wiped off what document.querySelectorAll
   reaches: not off nodes that hang nowhere, nor off those in shadow roots.  If
   that fails, it is because the document is gone.

   Mutant: they are left, to be written over.                                *)
LeaveTags == tag
Reached == {n \in Present : Root[n] = "document"}
ClearTags == [n \in Nodes |-> IF n \in Reached THEN NoTag ELSE tag[n]]

Clear ==
  /\ phase = "clear"
  /\ tag' = ClearTags
  /\ stale' = {n \in Nodes \ Reached : tag[n] # NoTag}
  /\ phase' = "tree" /\ quiet' = TRUE
  /\ UNCHANGED <<life, origin, expanded, moves, caller, todo, listed, recent, section,
                 call, touched>>

(* The interactive nodes of the accessibility tree, those in shadow roots too;
   options while their list is open, directly or by a combobox.              *)
Interactive == {n \in Present : Role[n] = "option" => expanded}

ReadTree ==
  /\ phase = "tree"
  /\ todo' = Interactive /\ listed' = Unlisted
  /\ phase' = "tag"
  /\ UNCHANGED <<pageVars, moves, caller, recent, section, call, touched, quiet, stale>>

(* One node is resolved and tagged, in the order of the tree, and takes the next
   number; a node that is not there any more is passed over, or tagged where it
   hangs.

   Mutant: the node is listed before it is tagged.                           *)
NextNumber == Cardinality(DOMAIN listed)
Extended(n) == [k \in DOMAIN listed \cup {NextNumber} |-> IF k = NextNumber THEN n ELSE listed[k]]

PassedOverAndListed(n) == listed' = Extended(n) /\ UNCHANGED tag
PassedOver(n) == UNCHANGED <<tag, listed>>

TagNode(n) ==
  /\ phase = "tag" /\ n \in todo
  /\ todo' = todo \ {n}
  /\ \/ /\ life[n] # "gone"
        /\ tag' = [tag EXCEPT ![n] = NextNumber]
        /\ listed' = Extended(n)
        /\ stale' = stale \ {n}
     \/ PassedOver(n) /\ UNCHANGED stale
  /\ UNCHANGED <<life, origin, expanded, moves, phase, caller, recent, section, call,
                 touched, quiet>>

(* A call ends: a step on the tape, where only the last three are looked at.  The
   prompt that its step was taken with is history.                           *)
Aged(age) == IF age < 3 THEN [recent EXCEPT !.since = age] ELSE LongAgo
EndCall(age) ==
  /\ phase' = "head" /\ call' = NoCall /\ section' = Unlisted
  /\ recent' = Aged(age)
  /\ UNCHANGED <<caller, todo, listed, touched>>

(* The snapshot ends, or raises: before the tree was read, or in the detach at
   the end.  The section is then left out; the tool reports.                 *)
SnapshotEnds ==
  /\ phase = "tag" /\ todo = {}
  /\ IF caller = "tool" THEN EndCall(0)
     ELSE /\ phase' = "chat"
          /\ section' = [k \in DOMAIN listed \cap Window(recent.offset) |-> listed[k]]
          /\ UNCHANGED <<caller, todo, listed, recent, call, touched>>
  /\ UNCHANGED <<pageVars, moves, quiet, stale>>

SnapshotRaises ==
  /\ phase = "tree" \/ (phase = "tag" /\ todo = {})
  /\ IF caller = "tool" THEN EndCall(0)
     ELSE phase' = "chat" /\ UNCHANGED <<caller, todo, listed, recent, section, call, touched>>
  /\ UNCHANGED <<pageVars, moves, quiet, stale>>

-----------------------------------------------------------------------------
(* The model calls a tool, by any number it likes.                         *)
Age == IF recent.since < 3 THEN recent.since + 1 ELSE 3

CallList ==
  /\ phase = "chat"
  /\ \E offset \in Offsets : recent' = [since |-> 0, offset |-> offset]
  /\ phase' = "clear" /\ caller' = "tool"
  /\ UNCHANGED <<pageVars, moves, todo, listed, section, call, touched, quiet, stale>>

CallOnElement ==
  /\ phase = "chat"
  /\ call' \in [tool : {"click"}, number : 0..(Cardinality(Nodes) - 1), value : BOOLEAN]
         \cup [tool : {"type"}, number : 0..(Cardinality(Nodes) - 1), value : {TRUE}]
  /\ phase' = "count" /\ quiet' = FALSE
  /\ UNCHANGED <<pageVars, moves, caller, todo, listed, recent, section, touched, stale>>

(* goto and back, which may fail on either side of the navigation; reading tools
   and notes, which change nothing here.                                     *)
CallOther ==
  /\ phase = "chat"
  /\ EndCall(Age)
  /\ NewDocument \/ UNCHANGED pageVars
  /\ quiet' = FALSE
  /\ UNCHANGED <<moves, stale>>

-----------------------------------------------------------------------------
(* click and type: each await looks the number up again.                   *)
Continue(next) ==
  /\ phase' = next
  /\ UNCHANGED <<caller, todo, listed, recent, section, call, touched>>

Report == EndCall(Age)

(* A number out of the map, or one that matches nothing.                   *)
Count ==
  /\ phase = "count"
  /\ IF call.number \notin DOMAIN listed \/ Matches(call.number) = {} THEN Report
     ELSE Continue(IF call.tool = "click" THEN "probe" ELSE "fill")
  /\ UNCHANGED <<pageVars, moves, quiet, stale>>

(* The tag name decides; it is unknown when the call for it raises.        *)
Probe ==
  /\ phase = "probe"
  /\ \E known \in BOOLEAN :
       LET isSelect == /\ known /\ Cardinality(Matches(call.number)) = 1
                       /\ \A n \in Matches(call.number) : Role[n] = "select"
       IN  IF isSelect # call.value THEN Report
           ELSE Continue(IF isSelect THEN "select" ELSE "click")
  /\ UNCHANGED <<pageVars, moves, quiet, stale>>

(* What the model takes a number for: the element under it in the section of the
   prompt, or in the last listing if the section does not show it.           *)
Shown(number) == IF number \in DOMAIN section THEN section[number] ELSE listed[number]

Touch(next) ==
  /\ Cardinality(Matches(call.number)) = 1
  /\ \E n \in Matches(call.number) : touched' = [node |-> n, shown |-> Shown(call.number)]
  /\ phase' = next
  /\ IF next = "head"
     THEN call' = NoCall /\ section' = Unlisted /\ recent' = Aged(Age)
     ELSE UNCHANGED <<call, section, recent>>
  /\ UNCHANGED <<caller, todo, listed>>

(* A click that raises is done again by a script: el.click().              *)
Click ==
  /\ phase = "click"
  /\ Touch("head") \/ Continue("force")
  /\ UNCHANGED <<pageVars, moves, quiet, stale>>

(* An option is chosen of a list only; a field is filled, and then Enter is
   pressed in it or not.                                                     *)
Fits ==
  \A n \in Matches(call.number) : /\ phase = "select" => Role[n] = "select"
                                  /\ phase = "fill" => Role[n] = "textbox"

Act ==
  /\ Fits
  /\ \/ phase \in {"force", "select", "enter"} /\ Touch("head")
     \/ phase = "fill" /\ \E next \in {"head", "enter"} : Touch(next)
  /\ UNCHANGED <<pageVars, moves, quiet, stale>>

ActRaises ==
  /\ phase \in {"force", "select", "fill", "enter"}
  /\ Report
  /\ UNCHANGED <<pageVars, moves, quiet, stale>>

-----------------------------------------------------------------------------
ElementsInit ==
  /\ life = [n \in Nodes |-> IF n \in FirstNodes THEN "in" ELSE "unborn"]
  /\ tag = [n \in Nodes |-> NoTag]
  /\ origin = [n \in Nodes |-> n]
  /\ expanded = FALSE /\ moves = 0
  /\ phase = "head" /\ caller = "section" /\ todo = {}
  /\ listed = Unlisted /\ section = Unlisted
  /\ recent = LongAgo
  /\ call = NoCall /\ touched = NoTouch /\ quiet = FALSE /\ stale = {}

ElementsNext ==
  \/ PageMoves
  \/ BeginStep \/ Clear \/ ReadTree \/ (\E n \in Nodes : TagNode(n))
  \/ SnapshotEnds \/ SnapshotRaises
  \/ CallList \/ CallOnElement \/ CallOther
  \/ Count \/ Probe \/ Click \/ Act \/ ActRaises

ElementsSpec == ElementsInit /\ [][ElementsNext]_elementVars

-----------------------------------------------------------------------------
(* browser_session.py:64, stale numbers are cleared "so a surviving DOM node can't
   shadow a fresh id with an old one": a number matches the node it was given to,
   or clones of it.                                                          *)
NoShadow ==
  \A number \in DOMAIN listed : \A n \in Matches(number) : origin[n] = origin[listed[number]]

(* Whatever the page does between the prompt and the action, and between the
   awaits of the action, click and type touch the node that was shown under the
   number, or a clone that took its place, or none; or else a node that the last
   wiping did not reach.                                                     *)
ActsOnWhatWasShown ==
  touched # NoTouch =>
    origin[touched.node] = origin[touched.shown] \/ touched.node \in stale

(* On a page that kept still since the snapshot of the section began, each number
   of the section, or beyond its window, can be acted by, unless its node is in a
   closed shadow root: one node bears it, and next to it at most nodes in open
   shadow roots, which kept it from an earlier snapshot.                     *)
ListedCanBeActedBy ==
  (phase = "chat" /\ quiet /\ section # Unlisted) =>
    \A number \in DOMAIN listed : Root[listed[number]] # "closed" =>
      /\ Cardinality(Matches(number) \ stale) = 1
      /\ \A n \in Matches(number) \cap stale : Root[n] = "open"

=============================================================================
