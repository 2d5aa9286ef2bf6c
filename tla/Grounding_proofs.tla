--------------------------- MODULE Grounding_proofs ---------------------------
(***************************************************************************)
(* What ties the agent to the page, for any nodes, texts and limits: the   *)
(* elements it acts on are the ones it was shown, and what it searches for *)
(* and answers was on the tape.                                            *)
(***************************************************************************)
EXTENDS Grounding, Elements, SequenceLemmas, FiniteSetTheorems

(* Numbers are given from 0 on; only nodes that were in a document have one. *)
Born(n) == n \in Nodes /\ life[n] # "unborn"

NumberInv ==
  /\ life \in [Nodes -> {"unborn", "in", "out", "gone"}]
  /\ tag \in [Nodes -> Nat \cup {NoTag}]
  /\ origin \in [Nodes -> Nodes]
  /\ \E c \in Nat : DOMAIN listed = 0..(c - 1)
  /\ \A n \in Nodes : life[n] = "unborn" => tag[n] = NoTag
  /\ \A n \in todo : Born(n)
  /\ \A k \in DOMAIN listed : Born(listed[k])
  /\ call.number \in Nat

(* Outside of a snapshot of the tool the section is a part of the list.    *)
SectionInv ==
  /\ caller \in {"section", "tool"}
  /\ phase \in {"clear", "tree", "tag"} =>
       caller = "tool" \/ section = Unlisted
  /\ phase \notin {"clear", "tree", "tag"} =>
       \A k \in DOMAIN section : k \in DOMAIN listed /\ section[k] = listed[k]
  /\ phase \in {"probe", "fill", "select", "click", "force", "enter"} =>
       call.number \in DOMAIN listed
  /\ phase \in {"head", "clear", "tree", "tag", "chat", "count", "probe", "fill", "select",
                "click", "force", "enter"}

(* A number that the last wiping did not pass by is that of the listed node, or of
   a clone of it.                                                            *)
ShadowInv ==
  \A n \in Nodes : (tag[n] # NoTag /\ n \notin stale) =>
    /\ phase # "tree"
    /\ tag[n] \in DOMAIN listed /\ origin[n] = origin[listed[tag[n]]]

LEMMA ExtendedList ==
  ASSUME NumberInv, NEW n
  PROVE  /\ NextNumber \in Nat /\ NextNumber \notin DOMAIN listed
         /\ DOMAIN Extended(n) = DOMAIN listed \cup {NextNumber}
         /\ Extended(n)[NextNumber] = n
         /\ \A k \in DOMAIN listed : Extended(n)[k] = listed[k]
         /\ \E c \in Nat : DOMAIN Extended(n) = 0..(c - 1)
<1>1. PICK c \in Nat : DOMAIN listed = 0..(c - 1)
  BY DEF NumberInv
<1>2. Cardinality(0..(c - 1)) = c
  BY FS_Interval
<1>3. NextNumber = c
  BY <1>1, <1>2 DEF NextNumber
<1>4. c + 1 \in Nat /\ 0..(c - 1) \cup {c} = 0..((c + 1) - 1)
  OBVIOUS
<1>5. DOMAIN Extended(n) = DOMAIN listed \cup {NextNumber}
  BY DEF Extended
<1>6. DOMAIN Extended(n) = 0..((c + 1) - 1)
  BY <1>1, <1>3, <1>4, <1>5
<1>7. /\ Extended(n)[NextNumber] = n
      /\ \A k \in DOMAIN listed : k # NextNumber => Extended(n)[k] = listed[k]
  BY DEF Extended
<1>8. NextNumber \in Nat /\ NextNumber \notin DOMAIN listed
  BY <1>1, <1>3
<1> QED
  BY <1>4, <1>5, <1>6, <1>7, <1>8

-----------------------------------------------------------------------------
(* Between the awaits that change the numbers, the page and the list stay. *)
Steady ==
  /\ UNCHANGED <<pageVars, listed, todo, stale>> /\ phase' # "tree"

CallSteps ==
  \/ BeginStep \/ SnapshotEnds \/ SnapshotRaises \/ CallList \/ CallOnElement
  \/ Count \/ Probe \/ ActRaises

LEMMA CallStepIsSteady == CallSteps \/ Click \/ Act => Steady
BY DEF CallSteps, Steady, BeginStep, Snapshot, SnapshotEnds, SnapshotRaises, EndCall, CallList,
       CallOnElement, Count, Probe, Report, Continue, Click, Act, Touch, ActRaises, pageVars

LEMMA NumberStep == NumberInv /\ [ElementsNext]_elementVars => NumberInv'
<1> SUFFICES ASSUME NumberInv, [ElementsNext]_elementVars PROVE NumberInv'
  OBVIOUS
<1>1. CASE UNCHANGED elementVars
  BY <1>1 DEF elementVars, pageVars, stepVars, NumberInv, Born
<1>2. CASE PageMoves
  <2> USE ElementsAssumption DEF NumberInv, Born, Moves, stepVars
  <2>1. ASSUME NEW n \in Nodes, TakeOut(n) PROVE NumberInv'
    BY <2>1 DEF TakeOut, Present
  <2>2. ASSUME NEW n \in Nodes, PutIn(n) PROVE NumberInv'
    BY <2>2 DEF PutIn
  <2>3. ASSUME NEW n \in Nodes, NEW copy \in Nodes, Clone(n, copy) PROVE NumberInv'
    BY <2>3 DEF Clone
  <2>4. CASE Toggle
    BY <2>4 DEF Toggle
  <2>5. CASE Navigates
    BY <2>5 DEF Navigates, NewDocument
  <2> QED
    BY <1>2, <2>1, <2>2, <2>3, <2>4, <2>5 DEF PageMoves
<1>3. CASE CallSteps
  <2>1. Steady
    BY <1>3, CallStepIsSteady
  <2>2. call'.number \in Nat
    <3>1. CASE CallOnElement
      <4>1. Cardinality(Nodes) \in Nat
        BY ElementsAssumption, FS_CardinalityType
      <4>2. call'.number \in 0..(Cardinality(Nodes) - 1)
        BY <3>1 DEF CallOnElement
      <4> QED
        BY <4>1, <4>2
    <3>2. CASE ~CallOnElement
      <4>1. call' \in {call, NoCall}
        BY <1>3, <3>2
           DEF CallSteps, BeginStep, Snapshot, SnapshotEnds, SnapshotRaises, EndCall, CallList,
               Count, Probe, Report, Continue, ActRaises
      <4> QED
        BY <4>1 DEF NoCall, NumberInv
    <3> QED
      BY <3>1, <3>2
  <2> QED
    BY <2>1, <2>2 DEF NumberInv, Born, Steady, pageVars
<1>4. CASE CallOther
  <2>1. /\ UNCHANGED <<tag, origin, listed, todo, touched>> /\ call' = NoCall
        /\ \/ life' = life
           \/ life' = [n \in Nodes |-> IF life[n] = "unborn" THEN "unborn" ELSE "gone"]
    BY <1>4 DEF CallOther, EndCall, NewDocument, pageVars
  <2> QED
    BY <2>1 DEF NumberInv, Born, NoCall
<1>5. CASE Clear
  BY <1>5 DEF Clear, ClearTags, Present, NumberInv, Born, NoTouch
<1>6. CASE ReadTree
  <2>1. DOMAIN Unlisted = 0..(0 - 1)
    BY DEF Unlisted
  <2> QED
    BY <1>6, <2>1 DEF ReadTree, Interactive, Present, NumberInv, Born, pageVars
<1>7. ASSUME NEW n \in Nodes, TagNode(n) PROVE NumberInv'
  <2>1. UNCHANGED <<life, origin, call, touched>> /\ todo' \subseteq todo /\ Born(n)
    BY <1>7 DEF TagNode, NumberInv
  <2>2. CASE UNCHANGED <<tag, listed>>
    BY <2>1, <2>2 DEF NumberInv, Born
  <2>3. CASE tag' = [tag EXCEPT ![n] = NextNumber] /\ listed' = Extended(n)
    <3>1. tag' \in [Nodes -> Nat \cup {NoTag}]
          /\ \A m \in Nodes : life[m] = "unborn" => tag'[m] = NoTag
      BY <2>1, <2>3, ExtendedList DEF NumberInv, Born
    <3>2. \A k \in DOMAIN listed' : Born(listed'[k])
      BY SMTT(30), <2>1, <2>3, ExtendedList DEF NumberInv
    <3>3. \E c \in Nat : DOMAIN listed' = 0..(c - 1)
      BY <2>3, ExtendedList
    <3> QED
      BY <2>1, <3>1, <3>2, <3>3 DEF NumberInv, Born
  <2> QED
    BY <1>7, <2>2, <2>3 DEF TagNode, PassedOver
<1>8. CASE Click \/ Act
  <2>1. Steady
    BY <1>8, CallStepIsSteady
  <2>2. call' \in {call, NoCall}
    BY <1>8 DEF Click, Act, Touch, Continue
  <2>3. call'.number \in Nat
    BY <2>2 DEF NumberInv, NoCall
  <2> QED
    BY <2>1, <2>3 DEF NumberInv, Born, Steady, pageVars
<1> QED
  BY <1>1, <1>2, <1>3, <1>4, <1>5, <1>6, <1>7, <1>8 DEF ElementsNext, CallSteps

LEMMA SectionStep == NumberInv /\ SectionInv /\ [ElementsNext]_elementVars => SectionInv'
<1> SUFFICES ASSUME NumberInv, SectionInv, [ElementsNext]_elementVars PROVE SectionInv'
  OBVIOUS
<1> USE DEF SectionInv
<1>1. CASE UNCHANGED elementVars \/ PageMoves
  BY <1>1 DEF elementVars, stepVars, PageMoves, TakeOut, PutIn, Clone, Toggle, Navigates, Moves
<1>2. CASE BeginStep \/ CallList \/ CallOnElement \/ CallOther \/ Clear \/ ReadTree
  BY <1>2 DEF BeginStep, Snapshot, CallList, CallOnElement, CallOther, EndCall, Clear, ReadTree,
              Unlisted
<1>3. CASE SnapshotEnds \/ SnapshotRaises
  BY <1>3 DEF SnapshotEnds, SnapshotRaises, EndCall, Unlisted
<1>4. CASE Count \/ Probe \/ ActRaises
  BY <1>4 DEF Count, Probe, ActRaises, Report, Continue, EndCall, Unlisted
<1>5. CASE Click \/ Act
  BY <1>5 DEF Click, Act, Touch, Continue, Unlisted
<1>6. ASSUME NEW n \in Nodes, TagNode(n) PROVE SectionInv'
  BY <1>6 DEF TagNode
<1> QED
  BY <1>1, <1>2, <1>3, <1>4, <1>5, <1>6 DEF ElementsNext

LEMMA ShadowStep == NumberInv /\ ShadowInv /\ [ElementsNext]_elementVars => ShadowInv'
<1> SUFFICES ASSUME NumberInv, ShadowInv, [ElementsNext]_elementVars PROVE ShadowInv'
  OBVIOUS
<1>1. CASE UNCHANGED elementVars
  BY <1>1 DEF elementVars, pageVars, stepVars, ShadowInv
<1>2. CASE PageMoves
  <2> USE DEF NumberInv, ShadowInv, Present, Born, Moves, stepVars
  <2>1. ASSUME NEW n \in Nodes, TakeOut(n) PROVE ShadowInv'
    BY <2>1 DEF TakeOut
  <2>2. ASSUME NEW n \in Nodes, PutIn(n) PROVE ShadowInv'
    BY <2>2 DEF PutIn
  <2>3. ASSUME NEW n \in Nodes, NEW copy \in Nodes, Clone(n, copy) PROVE ShadowInv'
    BY <2>3 DEF Clone
  <2>4. CASE Toggle
    BY <2>4 DEF Toggle
  <2>5. CASE Navigates
    BY <2>5 DEF Navigates, NewDocument
  <2> QED
    BY <1>2, <2>1, <2>2, <2>3, <2>4, <2>5 DEF PageMoves
<1>3. CASE CallSteps \/ Click \/ Act
  BY <1>3, CallStepIsSteady DEF Steady, pageVars, ShadowInv
<1>4. CASE CallOther
  BY <1>4 DEF CallOther, EndCall, NewDocument, pageVars, ShadowInv
<1>5. CASE Clear
  BY <1>5 DEF Clear, ClearTags, ShadowInv, NumberInv
<1>6. CASE ReadTree
  BY <1>6 DEF ReadTree, ShadowInv, pageVars
<1>7. ASSUME NEW n \in Nodes, TagNode(n) PROVE ShadowInv'
  <2>1. UNCHANGED <<life, origin, phase>> /\ phase = "tag"
    BY <1>7 DEF TagNode
  <2>2. CASE UNCHANGED <<tag, listed, stale>>
    BY <2>1, <2>2 DEF ShadowInv
  <2>3. CASE tag' = [tag EXCEPT ![n] = NextNumber] /\ listed' = Extended(n)
             /\ stale' = stale \ {n}
    <3> SUFFICES ASSUME NEW m \in Nodes, tag'[m] # NoTag, m \notin stale'
                 PROVE  /\ tag'[m] \in DOMAIN listed'
                        /\ origin[m] = origin[listed'[tag'[m]]]
      BY <2>1 DEF ShadowInv
    <3>1. CASE m = n
      BY <2>3, <3>1, ExtendedList DEF NumberInv
    <3>2. CASE m # n
      <4>1. tag'[m] = tag[m]
        BY <2>3, <3>2 DEF NumberInv
      <4> QED
        BY <2>3, <3>2, <4>1, ExtendedList DEF ShadowInv
    <3> QED
      BY <3>1, <3>2
  <2> QED
    BY <1>7, <2>2, <2>3 DEF TagNode, PassedOver
<1> QED
  BY <1>1, <1>2, <1>3, <1>4, <1>5, <1>6, <1>7 DEF ElementsNext, CallSteps

-----------------------------------------------------------------------------
(* An action touches one node, under the number of its call.               *)
TouchedNow ==
  /\ \E n \in Nodes : /\ Matches(call.number) = {n}
                      /\ touched' = [node |-> n, shown |-> Shown(call.number)]
  /\ call.number \in DOMAIN listed /\ Shown(call.number) = listed[call.number]
  /\ UNCHANGED <<life, origin, stale>> /\ phase' \in {"head", "enter"}

(* What was touched is forgotten before the next numbers are given.        *)
TouchInv ==
  /\ touched # NoTouch => Born(touched.node) /\ Born(touched.shown)
  /\ phase \in {"clear", "tree", "tag", "chat"} => touched = NoTouch
  /\ ActsOnWhatWasShown

LEMMA OnlyOne ==
  ASSUME NEW n, NEW number, n \in Matches(number), Cardinality(Matches(number)) = 1
  PROVE  Matches(number) = {n} /\ n \in Nodes
<1>1. Matches(number) \subseteq Nodes
  BY DEF Matches, Present
<1>2. IsFiniteSet(Matches(number))
  BY <1>1, ElementsAssumption, FS_Subset
<1> HIDE DEF Matches
<1>3. PICK m : Matches(number) = {m}
  BY <1>2, FS_Singleton
<1> QED
  BY <1>1, <1>3

LEMMA TouchForms ==
  ASSUME SectionInv, Click \/ Act
  PROVE  UNCHANGED touched \/ TouchedNow
<1>1. /\ UNCHANGED <<life, origin, stale>>
      /\ phase \in {"click", "force", "select", "enter", "fill"}
  BY DEF Click, Act, pageVars
<1>2. call.number \in DOMAIN listed /\ Shown(call.number) = listed[call.number]
  BY <1>1 DEF SectionInv, Shown
<1>3. CASE UNCHANGED touched
  BY <1>3
<1>4. ASSUME NEW next \in {"head", "enter"}, Touch(next) PROVE TouchedNow
  <2>1. PICK n \in Matches(call.number) : /\ Cardinality(Matches(call.number)) = 1
                                          /\ touched' = [node |-> n, shown |-> Shown(call.number)]
    BY <1>4 DEF Touch
  <2>2. Matches(call.number) = {n} /\ n \in Nodes
    BY <2>1, OnlyOne
  <2> QED
    BY <1>1, <1>2, <1>4, <2>1, <2>2 DEF TouchedNow, Touch
<1> QED
  BY <1>3, <1>4 DEF Click, Act, Continue

LEMMA TouchStep ==
  NumberInv /\ SectionInv /\ ShadowInv /\ TouchInv /\ [ElementsNext]_elementVars
  => TouchInv'
<1> SUFFICES ASSUME NumberInv, SectionInv, ShadowInv, TouchInv,
                    [ElementsNext]_elementVars
             PROVE  TouchInv'
  OBVIOUS
<1> USE DEF TouchInv, ActsOnWhatWasShown, Born
<1>1. CASE UNCHANGED elementVars
  BY <1>1 DEF elementVars, pageVars, stepVars
<1>2. CASE PageMoves
  <2>1. UNCHANGED touched
    BY <1>2 DEF PageMoves, TakeOut, PutIn, Clone, Toggle, Navigates, Moves, stepVars
  <2>2. /\ \A n \in Nodes : life[n] # "unborn" => life'[n] # "unborn" /\ origin'[n] = origin[n]
        /\ stale \subseteq stale' /\ UNCHANGED phase
    BY <1>2 DEF PageMoves, TakeOut, PutIn, Clone, Toggle, Navigates, NewDocument, NumberInv,
                Moves, stepVars
  <2> QED
    BY <2>1, <2>2
<1>3. CASE CallSteps
  <2>1. /\ UNCHANGED <<pageVars, stale>> /\ touched' \in {touched, NoTouch}
        /\ phase' \in {"clear", "tree", "tag", "chat"} => touched' = NoTouch
    BY <1>3 DEF CallSteps, BeginStep, Snapshot, SnapshotEnds, SnapshotRaises, EndCall, CallList,
                CallOnElement, Count, Probe, Report, Continue, ActRaises
  <2> QED
    BY <2>1 DEF pageVars
<1>4. CASE CallOther
  BY <1>4 DEF CallOther, EndCall, NewDocument, pageVars
<1>5. CASE Clear \/ ReadTree \/ \E n \in Nodes : TagNode(n)
  BY <1>5 DEF Clear, ReadTree, TagNode, pageVars
<1>6. CASE Click \/ Act
  <2>1. CASE UNCHANGED touched
    <3>1. phase' \notin {"clear", "tree", "tag", "chat"} /\ UNCHANGED <<pageVars, stale>>
      BY <1>6 DEF Click, Act, Touch, Continue
    <3> QED
      BY <2>1, <3>1 DEF pageVars
  <2>2. CASE TouchedNow
    <3>1. PICK n \in Nodes : /\ Matches(call.number) = {n}
                             /\ touched' = [node |-> n, shown |-> Shown(call.number)]
      BY <2>2 DEF TouchedNow
    <3>2. n \in Present /\ tag[n] = call.number
      BY <3>1 DEF Matches
    <3>3. tag[n] # NoTag
      BY <3>2, ElementsAssumption DEF NumberInv
    <3>4. origin[n] = origin[listed[call.number]] \/ n \in stale
      BY <3>2, <3>3 DEF ShadowInv, Present
    <3>5. touched'.node = n /\ touched'.shown = listed[call.number]
      BY <2>2, <3>1 DEF TouchedNow
    <3>6. Born(n) /\ Born(listed[call.number])
      BY <2>2, <3>2 DEF TouchedNow, NumberInv, Present
    <3> QED
      BY <2>2, <3>4, <3>5, <3>6 DEF TouchedNow
  <2> QED
    BY <1>6, <2>1, <2>2, TouchForms
<1> QED
  BY <1>1, <1>2, <1>3, <1>4, <1>5, <1>6 DEF ElementsNext, CallSteps

-----------------------------------------------------------------------------
(* While nothing moved since the numbers were wiped off, each listed node is in
   the document and bears its number, alone but for nodes in shadow roots that the
   wiping did not reach.                                                     *)
OneEach ==
  /\ \A k \in DOMAIN listed : listed[k] \in Present \ stale /\ tag[listed[k]] = k
  /\ \A n \in Present \ stale : tag[n] # NoTag => tag[n] \in DOMAIN listed /\ listed[tag[n]] = n

QuietInv == quiet =>
  /\ \A n \in Present \cap stale : Root[n] # "document"
  /\ phase = "tree" => \A n \in Present \ stale : tag[n] = NoTag
  /\ phase = "tag" => /\ OneEach
                      /\ \A n \in todo : n \in Present /\ (tag[n] = NoTag \/ n \in stale)
  /\ phase = "chat" /\ section # Unlisted => OneEach

LEMMA QuietStep ==
  NumberInv /\ SectionInv /\ QuietInv /\ [ElementsNext]_elementVars => QuietInv'
<1> SUFFICES ASSUME NumberInv, SectionInv, QuietInv, [ElementsNext]_elementVars
             PROVE  QuietInv'
  OBVIOUS
<1> USE DEF QuietInv, OneEach, Present
<1>1. CASE UNCHANGED elementVars
  BY <1>1 DEF elementVars, pageVars, stepVars
<1>2. CASE PageMoves \/ CallOnElement \/ CallOther
  BY <1>2 DEF PageMoves, TakeOut, PutIn, Clone, Toggle, Navigates, Moves, CallOnElement, CallOther
<1>3. CASE BeginStep \/ CallList \/ Count \/ Probe \/ ActRaises \/ Click \/ Act
  <2>0. UNCHANGED <<pageVars, stale, quiet>>
    BY <1>3 DEF BeginStep, CallList, Count, Probe, ActRaises, Click, Act
  <2>1. phase' \in {"tree", "tag", "chat"} => section' = Unlisted /\ phase' = "chat"
    BY <1>3 DEF BeginStep, Snapshot, CallList, Count, Probe, ActRaises, Report, Continue, EndCall,
                Click, Act, Touch
  <2> QED
    BY <2>0, <2>1 DEF pageVars
<1>4. CASE Clear
  BY <1>4 DEF Clear, ClearTags, Reached, NumberInv
<1>5. CASE ReadTree
  BY <1>5 DEF ReadTree, Interactive, Unlisted, pageVars
<1>6. CASE SnapshotEnds
  BY <1>6 DEF SnapshotEnds, EndCall, pageVars
<1>7. CASE SnapshotRaises
  BY <1>7 DEF SnapshotRaises, EndCall, SectionInv, pageVars
<1>8. ASSUME NEW n \in Nodes, TagNode(n) PROVE QuietInv'
  <2>1. /\ UNCHANGED <<life, origin, phase, quiet, section>> /\ phase = "tag"
        /\ n \in todo /\ todo' = todo \ {n}
    BY <1>8 DEF TagNode
  <2>2. CASE UNCHANGED <<tag, listed, stale>>
    BY <2>1, <2>2
  <2>3. CASE tag' = [tag EXCEPT ![n] = NextNumber] /\ listed' = Extended(n)
             /\ stale' = stale \ {n}
    <3> SUFFICES ASSUME quiet
                 PROVE  /\ OneEach'
                        /\ \A m \in todo' : m \in Present /\ (tag'[m] = NoTag \/ m \in stale')
      BY <2>1, <2>3
    <3>1. n \in Present /\ (tag[n] = NoTag \/ n \in stale) /\ tag'[n] = NextNumber
      BY <2>1, <2>3 DEF NumberInv
    <3>2. \A m \in Nodes : m # n => tag'[m] = tag[m]
      BY <2>3 DEF NumberInv
    <3>3. \A k \in DOMAIN listed : listed[k] # n
      BY <2>1, <3>1, ElementsAssumption DEF NumberInv
    <3>4. OneEach'
      BY <2>1, <2>3, <3>1, <3>2, <3>3, ExtendedList
    <3>5. \A m \in todo' : m \in Present /\ (tag'[m] = NoTag \/ m \in stale')
      BY <2>1, <2>3, <3>2
    <3> QED
      BY <3>4, <3>5
  <2> QED
    BY <1>8, <2>2, <2>3 DEF TagNode, PassedOver
<1> QED
  BY <1>1, <1>2, <1>3, <1>4, <1>5, <1>6, <1>7, <1>8 DEF ElementsNext

LEMMA ElementsStart ==
  ElementsInit => NumberInv /\ SectionInv /\ ShadowInv /\ TouchInv /\ QuietInv
<1> SUFFICES ASSUME ElementsInit
             PROVE  NumberInv /\ SectionInv /\ ShadowInv /\ TouchInv /\ QuietInv
  OBVIOUS
<1>1. /\ DOMAIN Unlisted = {} /\ NoCall.number = 0
      /\ \A n \in Nodes : tag[n] = NoTag /\ origin[n] = n
  BY DEF ElementsInit, Unlisted, NoCall
<1>2. 0 \in Nat /\ DOMAIN Unlisted = 0..(0 - 1)
  BY <1>1
<1>3. NumberInv
  BY <1>1, <1>2 DEF ElementsInit, NumberInv, Born
<1>4. SectionInv /\ ShadowInv /\ TouchInv /\ QuietInv
  BY <1>1 DEF ElementsInit, SectionInv, ShadowInv, Present, TouchInv, ActsOnWhatWasShown, QuietInv
<1> QED
  BY <1>3, <1>4

(* Where no node comes back and none is in a shadow root, nodes with an old number
   are out of the document for good.                                         *)
StaleOut == \A n \in stale : n \in Nodes /\ life[n] \in {"out", "gone"}

LEMMA StaleStep ==
  /\ ~Reattach /\ \A n \in Nodes : Root[n] = "document"
  /\ NumberInv /\ StaleOut /\ [ElementsNext]_elementVars
  => StaleOut'
<1> SUFFICES ASSUME ~Reattach, \A n \in Nodes : Root[n] = "document",
                    NumberInv, StaleOut, [ElementsNext]_elementVars
             PROVE  StaleOut'
  OBVIOUS
<1> USE DEF StaleOut, NumberInv
<1>1. CASE UNCHANGED elementVars
  BY <1>1 DEF elementVars, pageVars
<1>2. CASE PageMoves
  BY <1>2 DEF PageMoves, TakeOut, PutIn, Clone, Toggle, Navigates, NewDocument, Present
<1>3. CASE CallSteps \/ Click \/ Act
  BY <1>3, CallStepIsSteady DEF Steady, pageVars
<1>4. CASE CallOther
  BY <1>4 DEF CallOther, NewDocument, pageVars
<1>5. CASE Clear
  BY <1>5 DEF Clear, Reached, Present
<1>6. CASE ReadTree \/ \E n \in Nodes : TagNode(n)
  BY <1>6 DEF ReadTree, TagNode, pageVars
<1> QED
  BY <1>1, <1>2, <1>3, <1>4, <1>5, <1>6 DEF ElementsNext, CallSteps

(* A node that bears a number of the list without being the listed one or a clone of
   it was out of the reach of the wiping (snapshot, browser_session.py): it was put
   back by a script, or it is in a shadow root.  Where neither can be, no number is
   shadowed.                                                                 *)
THEOREM ShadowsHaveCause ==
  (~Reattach /\ \A n \in Nodes : Root[n] = "document") => (ElementsSpec => []NoShadow)
<1> SUFFICES ASSUME ~Reattach, \A n \in Nodes : Root[n] = "document"
             PROVE  ElementsSpec => []NoShadow
  OBVIOUS
<1> DEFINE Inv == NumberInv /\ ShadowInv /\ StaleOut
<1>1. Inv => NoShadow
  <2> SUFFICES ASSUME Inv, NEW number \in DOMAIN listed, NEW n \in Matches(number)
               PROVE  origin[n] = origin[listed[number]]
    BY DEF NoShadow
  <2>1. number # NoTag
    BY ElementsAssumption DEF NumberInv
  <2>2. n \in Nodes /\ n \notin stale
    BY DEF Matches, Present, StaleOut
  <2> QED
    BY <2>1, <2>2 DEF Matches, ShadowInv
<1>2. Inv /\ [ElementsNext]_elementVars => Inv'
  BY NumberStep, ShadowStep, StaleStep
<1>3. ElementsInit => Inv
  BY ElementsStart DEF ElementsInit, StaleOut
<1> QED
  BY <1>1, <1>2, <1>3, PTL DEF ElementsSpec

(* Whatever the page does in between, click and type touch what was shown under the
   number, or a clone of it, or a node that kept its number from an earlier
   snapshot because the wiping did not reach it.                             *)
THEOREM ActsAsShown == ElementsSpec => []ActsOnWhatWasShown
<1> DEFINE Inv == NumberInv /\ SectionInv /\ ShadowInv /\ TouchInv
<1>1. ElementsInit => Inv
  BY ElementsStart
<1>2. Inv /\ [ElementsNext]_elementVars => Inv'
  BY NumberStep, SectionStep, ShadowStep, TouchStep
<1>3. Inv => ActsOnWhatWasShown
  BY DEF TouchInv
<1> QED
  BY <1>1, <1>2, <1>3, PTL DEF ElementsSpec

(* Every number in the prompt of a page that kept still is borne by the one node it
   was given to, unless that is in a closed shadow root, and besides by nodes in
   open shadow roots only.                                                   *)
THEOREM NumbersWork == ElementsSpec => []ListedCanBeActedBy
<1> DEFINE Inv == NumberInv /\ SectionInv /\ QuietInv
<1>1. ElementsInit => Inv
  BY ElementsStart
<1>2. Inv /\ [ElementsNext]_elementVars => Inv'
  BY NumberStep, SectionStep, QuietStep
<1>3. Inv => ListedCanBeActedBy
  <2> SUFFICES ASSUME Inv, OneEach, quiet, NEW number \in DOMAIN listed,
                      Root[listed[number]] # "closed"
               PROVE  /\ Cardinality(Matches(number) \ stale) = 1
                      /\ \A n \in Matches(number) \cap stale : Root[n] = "open"
    BY DEF ListedCanBeActedBy, QuietInv
  <2>1. number # NoTag
    BY ElementsAssumption DEF NumberInv
  <2>2. Matches(number) \ stale = {listed[number]}
    BY <2>1 DEF Matches, OneEach
  <2>3. \A n \in Matches(number) \cap stale : Root[n] = "open"
    BY ElementsAssumption DEF Matches, Present, QuietInv
  <2> QED
    BY <2>2, <2>3, FS_Singleton
<1> QED
  BY <1>1, <1>2, <1>3, PTL DEF ElementsSpec

-----------------------------------------------------------------------------
(* Texts within texts.                                                     *)
LEMMA WithinTransitive ==
  ASSUME NEW W, NEW text \in Seq(W), NEW middle, NEW needle,
         Within(middle, text), Within(needle, middle)
  PROVE  Within(needle, text)
<1>1. PICK i, j \in 0..Len(text) : middle = SubSeq(text, i + 1, j)
  BY DEF Within, SubSeqs
<1>2. middle \in Seq(W) /\ Len(middle) = IF i + 1 <= j THEN j - i ELSE 0
  BY <1>1, SubSeqIs
<1>3. PICK k, l \in 0..Len(middle) : needle = SubSeq(middle, k + 1, l)
  BY DEF Within, SubSeqs
<1>4. CASE k + 1 <= l
  <2>1. needle = SubSeq(text, (i + k) + 1, i + l)
    BY <1>1, <1>2, <1>3, <1>4, SubSeqOfSubSeq
  <2>2. i + k \in 0..Len(text) /\ i + l \in 0..Len(text)
    BY <1>1, <1>2, <1>3, <1>4
  <2> QED
    BY <2>1, <2>2 DEF Within, SubSeqs
<1>5. CASE l < k + 1
  <2>1. needle = <<>>
    BY <1>3, <1>5, SubSeqEmpty
  <2>2. SubSeq(text, 0 + 1, 0) = <<>> /\ 0 \in 0..Len(text)
    BY SubSeqEmpty
  <2> QED
    BY <2>1, <2>2 DEF Within, SubSeqs
<1> QED
  BY <1>2, <1>3, <1>4, <1>5

-----------------------------------------------------------------------------
(* Everything that is said on the tape is made of these words.             *)
Texts == PageTexts \cup UserTexts \cup Citations \cup {Goal}
TextWords == UNION {{text[i] : i \in DOMAIN text} : text \in Texts}
Words == TextWords \cup {Wording}

StepKinds == {"read", "search", "blocked", "user", "rejected", "other"}
TapeInv == tape \in Seq([kind : StepKinds, pattern : Seq(Words), obs : Seq(Words)])

LEMMA TextsAreOfWords ==
  /\ \A text \in Texts : text \in Seq(Words)
  /\ \A text \in Seq(Words) : Message(text) \in Seq(Words) /\ <<Wording>> \o text \in Seq(Words)
  /\ <<>> \in Seq(Words)
<1>1. ASSUME NEW text \in Texts PROVE text \in Seq(Words)
  <2>1. text \in Seq({text[i] : i \in DOMAIN text})
    BY GroundingAssumption DEF Texts
  <2>2. {text[i] : i \in DOMAIN text} \subseteq TextWords
    BY Zenon DEF TextWords
  <2> QED
    BY <2>1, <2>2 DEF Words
<1>2. <<Wording>> \in Seq(Words)
  <2>1. Wording \in Words
    BY DEF Words
  <2> QED
    BY <2>1
<1>3. ASSUME NEW text \in Seq(Words)
      PROVE  Message(text) \in Seq(Words) /\ <<Wording>> \o text \in Seq(Words)
  BY <1>2, ConcatProperties DEF Message
<1> QED
  BY <1>1, <1>3

(* What a step called read may leave on the tape.                          *)
ReadTexts(said) ==
  PageTexts \cup {<<Wording>> \o text : text \in PageTexts} \cup {Message(said)}

LEMMA ReadForms ==
  Read => \E said \in Citations \cup {<<>>} : \E obs \in ReadTexts(said) : Step("read", said, obs)
BY DEF Read, ReadTexts

LEMMA HaystackType ==
  ASSUME TapeInv
  PROVE  Haystack \in Seq(Words)
<1>1. [i \in DOMAIN tape |-> tape[i].obs] \in Seq(Seq(Words))
  <2> DEFINE Entries == [kind : StepKinds, pattern : Seq(Words), obs : Seq(Words)]
  <2>0. tape \in Seq(Entries)
    BY DEF TapeInv
  <2> HIDE DEF Entries
  <2>1. DOMAIN tape = 1..Len(tape) /\ Len(tape) \in Nat
        /\ \A i \in 1..Len(tape) : tape[i] \in Entries
    BY <2>0
  <2> USE DEF Entries
  <2>2. \A i \in 1..Len(tape) : tape[i].obs \in Seq(Words)
    BY <2>1
  <2> QED
    BY <2>1, <2>2
<1> QED
  BY <1>1, FlattenType DEF Haystack

(* The tape is written one step at a time, with words of the texts.        *)
LEMMA TapeStep == TapeInv /\ [Next]_vars => TapeInv'
<1> SUFFICES ASSUME TapeInv, [Next]_vars PROVE TapeInv'
  OBVIOUS
<1>1. ASSUME NEW kind \in StepKinds, NEW pattern \in Seq(Words), NEW obs \in Seq(Words),
             Step(kind, pattern, obs)
      PROVE  TapeInv'
  BY <1>1 DEF Step, TapeInv
<1>2. CASE Read
  <2>1. PICK said \in Citations \cup {<<>>} :
          \E obs \in ReadTexts(said) : Step("read", said, obs)
    BY <1>2, ReadForms
  <2>2. PICK obs \in ReadTexts(said) : Step("read", said, obs)
    BY <2>1
  <2>3. said \in Seq(Words) /\ \A text \in PageTexts : text \in Seq(Words)
    BY TextsAreOfWords DEF Texts
  <2>4. obs \in Seq(Words)
    BY <2>3, TextsAreOfWords DEF ReadTexts
  <2> QED
    BY <1>1, <2>2, <2>3, <2>4 DEF StepKinds
<1>3. CASE UserSays
  <2>1. PICK text \in UserTexts : Step("user", <<>>, <<Wording>> \o text)
    BY <1>3 DEF UserSays
  <2>2. <<Wording>> \o text \in Seq(Words) /\ <<>> \in Seq(Words)
    BY TextsAreOfWords DEF Texts
  <2> QED
    BY <1>1, <2>1, <2>2 DEF StepKinds
<1>4. ASSUME NEW p \in Citations, Search(p) PROVE TapeInv'
  <2>1. p \in Seq(Words) /\ Message(p) \in Seq(Words)
    BY TextsAreOfWords DEF Texts
  <2>2. PICK kind \in {"search", "blocked"},
             obs \in PageTexts \cup {Message(p), Message(<<>>)} :
          Step(kind, p, obs)
    BY <1>4 DEF Search
  <2>3. obs \in Seq(Words)
    BY <2>1, TextsAreOfWords DEF Texts
  <2> QED
    BY <1>1, <2>1, <2>2, <2>3 DEF StepKinds
<1>5. ASSUME NEW s \in Statuses, NEW a \in Citations, NEW e \in Citations \cup {<<>>},
             Done(s, a, e)
      PROVE  TapeInv'
  <2>1. CASE Accepted(s, a, e)
    BY <1>5, <2>1 DEF Done, TapeInv
  <2>2. CASE ~Accepted(s, a, e)
    <3>1. a \in Seq(Words) /\ e \in Seq(Words)
      BY TextsAreOfWords DEF Texts
    <3>2. <<Wording>> \o e \in Seq(Words)
      BY <3>1, TextsAreOfWords
    <3>3. a \o <<Wording>> \o e \in Seq(Words)
      BY <3>1, <3>2, ConcatProperties
    <3>4. Rejection(s, a, e) \in Seq(Words)
      BY <3>1, <3>3, TextsAreOfWords DEF Rejection
    <3>5. Step("rejected", <<>>, Rejection(s, a, e)) /\ <<>> \in Seq(Words)
      BY <1>5, <2>2 DEF Done
    <3> QED
      BY <1>1, <3>4, <3>5 DEF StepKinds
  <2> QED
    BY <2>1, <2>2
<1>6. ASSUME NEW s, NEW a, NEW e, ForcedDone(s, a, e) PROVE TapeInv'
  BY <1>6 DEF ForcedDone, TapeInv
<1>7. CASE UNCHANGED vars
  BY <1>7 DEF vars, TapeInv
<1>8. CASE Other
  <2>1. PICK words \in Citations \cup {<<>>} : Step("other", words, Message(words))
    BY <1>8 DEF Other
  <2>2. words \in Seq(Words) /\ Message(words) \in Seq(Words)
    BY TextsAreOfWords DEF Texts
  <2> QED
    BY <1>1, <2>1, <2>2 DEF StepKinds
<1> QED
  BY <1>2, <1>3, <1>4, <1>5, <1>6, <1>7, <1>8 DEF Next, Finished

LEMMA AnswerStep == TapeInv /\ AnswersWereSeen /\ [Next]_vars => AnswersWereSeen'
<1> SUFFICES ASSUME TapeInv, AnswersWereSeen, [Next]_vars PROVE AnswersWereSeen'
  OBVIOUS
<1>1. CASE result = None /\ result' = None
  BY <1>1 DEF AnswersWereSeen, None
<1>2. CASE UNCHANGED vars
  BY <1>2 DEF vars, AnswersWereSeen, Haystack
<1>3. ASSUME NEW s \in Statuses, NEW a \in Citations, NEW e \in Citations \cup {<<>>},
             Done(s, a, e), Accepted(s, a, e)
      PROVE  AnswersWereSeen'
  <2>1. result' = [status |-> s, answer |-> a, evidence |-> e, way |-> "done"] /\ tape' = tape
    BY <1>3 DEF Done
  <2>2. CASE s = "success"
    <3>1. Within(e, Haystack) /\ Within(a, e)
      BY <1>3, <2>2 DEF Accepted, AnswerWithin
    <3>2. Within(a, Haystack)
      BY <3>1, HaystackType, WithinTransitive
    <3>3. e # <<>>
      BY <1>3, <2>2 DEF Accepted
    <3> QED
      BY <2>1, <3>1, <3>2, <3>3 DEF AnswersWereSeen, Haystack
  <2>3. CASE s # "success"
    BY <2>1, <2>3 DEF AnswersWereSeen
  <2> QED
    BY <2>2, <2>3
<1>4. ASSUME NEW s, NEW a, NEW e, ForcedDone(s, a, e) PROVE AnswersWereSeen'
  <2>1. /\ UNCHANGED tape /\ result'.way = "forced"
        /\ result'.status = "success" =>
             result'.evidence # <<>> /\ Within(result'.evidence, Haystack)
    BY <1>4 DEF ForcedDone
  <2> QED
    BY <2>1 DEF AnswersWereSeen, Haystack
<1>5. CASE Read \/ UserSays \/ Other \/ \E p \in Citations : Search(p)
  BY <1>1, <1>5 DEF Read, UserSays, Other, Search, Running, Step
<1>6. ASSUME NEW s, NEW a, NEW e, Done(s, a, e), ~Accepted(s, a, e) PROVE AnswersWereSeen'
  BY <1>1, <1>6 DEF Done, Running, Step
<1> QED
  BY <1>2, <1>3, <1>4, <1>5, <1>6 DEF Next, Finished

(* Step j is the last read before step i.                                  *)
LastBefore(steps, j, i) ==
  /\ steps[j].kind = "read" /\ \A k \in (j + 1)..(i - 1) : steps[k].kind # "read"

LEMMA LastReadIsRead ==
  ASSUME TapeInv
  PROVE  \/ LastRead = <<>>
         \/ \E j \in 1..Len(tape) : LastBefore(tape, j, Len(tape) + 1) /\ LastRead = tape[j].obs
<1> DEFINE reads == {i \in DOMAIN tape : tape[i].kind = "read"}
           left == {Len(tape) - i : i \in reads}
<1>1. DOMAIN tape = 1..Len(tape) /\ Len(tape) \in Nat
  BY DEF TapeInv
<1>2. reads \subseteq 1..Len(tape)
  BY <1>1
<1> HIDE DEF reads
<1>3. CASE reads = {}
  BY <1>3 DEF LastRead, reads
<1>4. CASE reads # {}
  <2>1. left \subseteq Nat /\ left # {}
    <3>1. \A i \in reads : Len(tape) - i \in Nat
      BY <1>1, <1>2
    <3> QED
      BY <1>4, <3>1
  <2> HIDE DEF left
  <2>2. PICK fewest \in left : \A other \in left : fewest <= other
    BY <2>1, LeastNumber
  <2>3. PICK i \in reads : fewest = Len(tape) - i
    BY DEF left
  <2>4. \A j \in reads : j <= i
    <3>1. \A j \in reads : Len(tape) - j \in left /\ j \in Nat
      BY <1>2 DEF left
    <3> QED
      BY <1>1, <1>2, <2>2, <2>3, <3>1
  <2>5. PICK last : last = CHOOSE k \in reads : \A j \in reads : j <= k
    OBVIOUS
  <2>6. last \in reads /\ \A j \in reads : j <= last
    BY <2>4, <2>5
  <2>7. LastRead = tape[last].obs
    BY <1>4, <2>5 DEF LastRead, reads
  <2>8. \A k \in (last + 1)..((Len(tape) + 1) - 1) : k \in DOMAIN tape /\ k \notin reads
    BY <1>1, <1>2, <2>6
  <2>9. LastBefore(tape, last, Len(tape) + 1)
    BY <2>6, <2>8 DEF LastBefore, reads
  <2> QED
    BY <1>2, <2>6, <2>7, <2>9
<1> QED
  BY <1>3, <1>4

(* A message holds what it repeats, with the wording before it or not.     *)
LEMMA InMessage ==
  ASSUME NEW text \in Seq(Words)
  PROVE  /\ Within(text, Message(text)) /\ Within(<<Wording>> \o text, Message(text))
         /\ Within(Message(text), Message(text))
<1> DEFINE front == <<Wording>> \o text
           back == text \o <<Wording>>
           n == Len(text)
<1>1. <<Wording>> \in Seq(Words) /\ Len(<<Wording>>) = 1
  <2>1. Wording \in Words
    BY DEF Words
  <2> QED
    BY <2>1
<1>2. /\ front \in Seq(Words) /\ Len(front) = 1 + n
      /\ back \in Seq(Words) /\ Len(back) = n + 1 /\ n \in Nat
  BY <1>1, ConcatProperties
<1>3. Message(text) = front \o <<Wording>> /\ Message(text) = <<Wording>> \o back
  BY <1>1, ConcatAssociative DEF Message
<1>4. Message(text) \in Seq(Words) /\ Len(Message(text)) = n + 2
  <2> HIDE DEF front
  <2> QED
    BY <1>1, <1>2, <1>3, ConcatProperties
<1>5. Within(front, Message(text))
  <2>1. SubSeq(front, 1, n + 1) = front
    BY <1>2, SubSeqFull
  <2> HIDE DEF front
  <2>2. SubSeq(front \o <<Wording>>, 1, n + 1) = SubSeq(front, 1, n + 1)
    BY <1>1, <1>2, SubSeqOfConcat1
  <2>3. front = SubSeq(Message(text), 0 + 1, n + 1)
    BY <1>3, <2>1, <2>2
  <2> QED
    BY <1>2, <1>4, <2>3 DEF Within, SubSeqs
<1>6. Within(text, Message(text))
  <2>1. CASE n = 0
    <3>1. text = <<>> /\ SubSeq(Message(text), 0 + 1, 0) = <<>>
      BY <2>1, SubSeqEmpty
    <3> QED
      BY <1>4, <3>1 DEF Within, SubSeqs
  <2>2. CASE n # 0
    <3>1. SubSeq(text, 1, n) = text
      BY SubSeqFull
    <3>2. SubSeq(text \o <<Wording>>, 1, n) = SubSeq(text, 1, n)
      BY <1>1, <1>2, <2>2, SubSeqOfConcat1
    <3> HIDE DEF back
    <3>3. SubSeq(<<Wording>> \o back, 2, n + 1) = SubSeq(back, 2 - 1, (n + 1) - 1)
      BY <1>1, <1>2, <2>2, SubSeqOfConcat2
    <3>4. text = SubSeq(Message(text), 1 + 1, n + 1)
      BY <1>2, <1>3, <3>1, <3>2, <3>3 DEF back
    <3> QED
      BY <1>2, <1>4, <3>4 DEF Within, SubSeqs
  <2> QED
    BY <2>1, <2>2
<1>7. Within(Message(text), Message(text))
  <2>1. Message(text) = SubSeq(Message(text), 0 + 1, n + 2)
    BY <1>4, SubSeqFull
  <2> QED
    BY <1>2, <1>4, <2>1 DEF Within, SubSeqs
<1> QED
  BY <1>5, <1>6, <1>7

(* A search that ran looked for words of the goal or of what the last read before it
   left on the tape: what the page showed, or a message that may repeat what was
   said in the call.                                                         *)
Grounded(steps, pattern, i) ==
  \/ Within(pattern, Goal)
  \/ \E j \in 1..(i - 1) : LastBefore(steps, j, i) /\ Within(pattern, steps[j].obs)

GroundInv ==
  /\ \A i \in DOMAIN tape : tape[i].kind = "search" => Grounded(tape, tape[i].pattern, i)
  /\ \A i \in DOMAIN tape : tape[i].kind = "read" => tape[i].obs \in ReadTexts(tape[i].pattern)

LEMMA NothingIsGrounded == \A text : Within(text, <<>>) => Within(text, Goal)
<1> SUFFICES ASSUME NEW text, Within(text, <<>>) PROVE Within(text, Goal)
  OBVIOUS
<1>1. PICK i, j \in 0..0 : text = SubSeq(<<>>, i + 1, j)
  BY DEF Within, SubSeqs
<1>2. text = <<>> /\ SubSeq(Goal, 0 + 1, 0) = <<>>
  BY <1>1, SubSeqEmpty
<1>3. 0 \in 0..Len(Goal)
  BY TextsAreOfWords DEF Texts
<1> QED
  BY <1>2, <1>3 DEF Within, SubSeqs

LEMMA GroundStep == TapeInv /\ GroundInv /\ [Next]_vars => GroundInv'
<1> SUFFICES ASSUME TapeInv, GroundInv, [Next]_vars PROVE GroundInv'
  OBVIOUS
<1>1. CASE UNCHANGED tape
  BY <1>1 DEF GroundInv, Grounded
<1>2. ASSUME NEW kind, NEW pattern, NEW obs, Step(kind, pattern, obs),
             kind = "search" => Grounded(tape, pattern, Len(tape) + 1),
             kind = "read" => obs \in ReadTexts(pattern)
      PROVE  GroundInv'
  <2>1. PICK n \in Nat \ {0} : n = Len(tape) + 1
    BY DEF TapeInv
  <2>2. /\ DOMAIN tape = 1..(n - 1) /\ DOMAIN tape' = 1..n /\ Len(tape) = n - 1
        /\ tape'[n] = [kind |-> kind, pattern |-> pattern, obs |-> obs]
        /\ \A i \in 1..(n - 1) : tape'[i] = tape[i]
    BY <1>2, <2>1 DEF Step, TapeInv
  <2>3. /\ tape'[n].kind = kind /\ tape'[n].pattern = pattern /\ tape'[n].obs = obs
    BY <2>2
  <2>4. \A i \in 1..n :
          /\ tape'[i].kind = "search" => Grounded(tape, tape'[i].pattern, i)
          /\ tape'[i].kind = "read" => tape'[i].obs \in ReadTexts(tape'[i].pattern)
    <3> SUFFICES ASSUME NEW i \in 1..n
                 PROVE  /\ tape'[i].kind = "search" => Grounded(tape, tape'[i].pattern, i)
                        /\ tape'[i].kind = "read" => tape'[i].obs \in ReadTexts(tape'[i].pattern)
      OBVIOUS
    <3>1. CASE i = n
      BY <1>2, <2>2, <2>3, <3>1
    <3>2. CASE i # n
      BY <2>1, <2>2, <3>2 DEF GroundInv
    <3> QED
      BY <3>1, <3>2
  <2>5. ASSUME NEW i \in 1..n, NEW text, Grounded(tape, text, i)
        PROVE  Grounded(tape', text, i)
    <3>1. CASE Within(text, Goal)
      BY <3>1 DEF Grounded
    <3>2. ASSUME NEW j \in 1..(i - 1), LastBefore(tape, j, i), Within(text, tape[j].obs)
          PROVE  Grounded(tape', text, i)
      <4>1. \A k \in j..(i - 1) : tape'[k] = tape[k]
        BY <2>1, <2>2
      <4>2. j \in j..(i - 1) /\ \A k \in (j + 1)..(i - 1) : k \in j..(i - 1)
        BY <2>1
      <4>3. LastBefore(tape', j, i) /\ tape'[j].obs = tape[j].obs
        BY <3>2, <4>1, <4>2 DEF LastBefore
      <4> QED
        BY <3>2, <4>3 DEF Grounded
    <3> QED
      BY <2>5, <3>1, <3>2 DEF Grounded
  <2>6. ASSUME NEW i \in 1..n, tape'[i].kind = "search"
        PROVE  Grounded(tape', tape'[i].pattern, i)
    <3>1. PICK text : text = tape'[i].pattern
      OBVIOUS
    <3>2. Grounded(tape, text, i)
      <4>1. Grounded(tape, tape'[i].pattern, i)
        BY Zenon, <2>4, <2>6
      <4> QED
        BY Zenon, <3>1, <4>1
    <3>3. Grounded(tape', text, i)
      BY <2>5, <3>2
    <3> QED
      BY Zenon, <3>1, <3>3
  <2> QED
    BY <2>2, <2>4, <2>6 DEF GroundInv
<1>3. ASSUME NEW p \in Citations, Search(p) PROVE GroundInv'
  <2>1. PICK kind, obs : Step(kind, p, obs) /\ kind \in {"search", "blocked"}
                         /\ (kind = "search" => MaySearch(p))
    BY <1>3 DEF Search
  <2>2. MaySearch(p) => Grounded(tape, p, Len(tape) + 1)
    <3>1. CASE Within(p, Goal)
      BY <3>1 DEF Grounded
    <3>2. CASE LastRead = <<>> /\ Within(p, LastRead)
      BY <3>2, NothingIsGrounded DEF Grounded
    <3>3. CASE /\ Within(p, LastRead)
               /\ \E j \in 1..Len(tape) : LastBefore(tape, j, Len(tape) + 1) /\ LastRead = tape[j].obs
      <4>1. (Len(tape) + 1) - 1 = Len(tape)
        BY DEF TapeInv
      <4> QED
        BY <3>3, <4>1 DEF Grounded
    <3> QED
      BY <3>1, <3>2, <3>3, LastReadIsRead DEF MaySearch
  <2> QED
    BY <1>2, <2>1, <2>2
<1>4. CASE Read
  <2>1. PICK said \in Citations \cup {<<>>} :
          \E obs \in ReadTexts(said) : Step("read", said, obs)
    BY <1>4, ReadForms
  <2> QED
    BY <1>2, <2>1
<1>5. CASE UserSays \/ Other
  BY <1>2, <1>5 DEF UserSays, Other
<1>6. ASSUME NEW s, NEW a, NEW e, Done(s, a, e) \/ ForcedDone(s, a, e) PROVE GroundInv'
  BY <1>1, <1>2, <1>6 DEF Done, ForcedDone
<1> QED
  BY <1>1, <1>3, <1>4, <1>5, <1>6 DEF Next, Finished, vars

LEMMA ClaimsStart == Init => TapeInv /\ AnswersWereSeen /\ GroundInv
BY DEF Init, TapeInv, AnswersWereSeen, GroundInv, None

(* The answer of a success that done() accepted is, word by word, in the joined
   observations (done, tools/meta.py).                                 *)
THEOREM AnswersAreOnTheTape == Spec => []AnswersWereSeen
<1>1. TapeInv /\ AnswersWereSeen /\ [Next]_vars => (TapeInv /\ AnswersWereSeen)'
  BY TapeStep, AnswerStep
<1> QED
  BY <1>1, ClaimsStart, PTL DEF Spec

(* Whatever the model says, a search that ran looked for words of the goal or of the
   last read before it: of what the page showed there, with the harness's wording,
   or of an argument that this read refused (_check_read_grep_grounding, loop.py). *)
THEOREM SearchesHaveGround == Spec => []SearchesAreGrounded
<1>1. TapeInv /\ GroundInv /\ [Next]_vars => (TapeInv /\ GroundInv)'
  BY TapeStep, GroundStep
<1>2. TapeInv /\ GroundInv => SearchesAreGrounded
  <2> SUFFICES ASSUME TapeInv, GroundInv, NEW i \in DOMAIN tape, tape[i].kind = "search",
                      ~Within(tape[i].pattern, Goal)
               PROVE  \E j \in 1..(i - 1) :
                        /\ LastBefore(tape, j, i)
                        /\ \E text \in PageTexts \cup {tape[j].pattern} :
                             Within(tape[i].pattern, Message(text))
    BY DEF SearchesAreGrounded, LastBefore
  <2>1. PICK j \in 1..(i - 1) : LastBefore(tape, j, i) /\ Within(tape[i].pattern, tape[j].obs)
    BY DEF GroundInv, Grounded
  <2>2. j \in DOMAIN tape
    BY DEF TapeInv
  <2>3. tape[j].pattern \in Seq(Words) /\ tape[j].obs \in ReadTexts(tape[j].pattern)
    <3> DEFINE Entries == [kind : StepKinds, pattern : Seq(Words), obs : Seq(Words)]
    <3>1. tape \in Seq(Entries)
      BY DEF TapeInv
    <3> HIDE DEF Entries
    <3>2. tape[j] \in Entries
      BY <2>2, <3>1
    <3>3. tape[j].pattern \in Seq(Words)
      BY <3>2 DEF Entries
    <3> QED
      BY <2>1, <2>2, <3>3 DEF GroundInv, LastBefore
  <2>4. PICK text \in PageTexts \cup {tape[j].pattern} :
          tape[j].obs \in {text, <<Wording>> \o text, Message(text)}
    BY <2>3 DEF ReadTexts
  <2>5. text \in Seq(Words)
    BY <2>3, TextsAreOfWords DEF Texts
  <2>6. Message(text) \in Seq(Words) /\ Within(tape[j].obs, Message(text))
    BY <2>4, <2>5, InMessage, TextsAreOfWords
  <2>7. Within(tape[i].pattern, Message(text))
    BY <2>1, <2>6, WithinTransitive
  <2> QED
    BY <2>1, <2>7
<1> QED
  BY <1>1, <1>2, ClaimsStart, PTL DEF Spec

=============================================================================
