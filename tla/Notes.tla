--------------------------------- MODULE Notes ---------------------------------
(***************************************************************************)
(* The notes that one run leaves for the next runs on a site: distill.py   *)
(* over notes_store.py.  A distillation reads the note of the site, awaits *)
(* the model and replaces the note, cut to the size limit; distillations   *)
(* of several runs overlap.  A note is a sequence of letters: a newline    *)
(* "n", letters of one byte, and "w" of two.                               *)
(***************************************************************************)
EXTENDS Integers, Sequences, FiniteSets, FiniteSetsExt, SequencesExt

CONSTANTS
  Pages,    (* [site, path]: where runs end                                *)
  Writers,  (* runs that distil                                            *)
  Learned,  (* what the model writes of one run: stripped, never nothing   *)
  MaxBytes  (* size limit of a note (2048)                                 *)

ASSUME NotesAssumption ==
  /\ MaxBytes \in Nat
  /\ \A text \in Learned :
       /\ text \in Seq({text[i] : i \in DOMAIN text})
       /\ text # <<>> /\ text[Len(text)] # "n"

VARIABLES
  notes,    (* url_notes: the note under each key, <<>> if there is none     *)
  at,       (* per run: the page it ended on                               *)
  stage,    (* per run: "idle", "asking" (awaits the model), "over"        *)
  prior,    (* per run: the note it has read                               *)
  told,     (* history, per site: the lines the model was last to keep     *)
  tainted   (* history: sites with a note replaced by a run that had not read it *)
noteVars == <<notes, at, stage, prior, told, tainted>>

Sites == {p.site : p \in Pages}

(* root_url.                                                               *)
RootUrl(page) == [site |-> page.site, path |-> "/"]

Bytes(text) == Len(text) + Cardinality({i \in DOMAIN text : text[i] = "w"})

(* NotesStore.set: as long as the text is too long and has a line to spare, its
   first line goes; a single line loses its end, never half a letter.
   Mutant: its last line goes.                                               *)
Newlines(text) == {i \in DOMAIN text : text[i] = "n"}
WithoutLastLine(text) == SubSeq(text, 1, Max(Newlines(text)) - 1)
WithoutFirstLine(text) == SubSeq(text, Min(Newlines(text)) + 1, Len(text))

Fits(text) == Bytes(text) <= MaxBytes
Clipped(text) == SubSeq(text, 1, Max({k \in 0..Len(text) : Fits(SubSeq(text, 1, k))}))

TrimmedNote(text) ==
  LET lines == Cardinality(Newlines(text))
      kept[k \in 0..lines] ==
        IF k = 0 THEN text
        ELSE IF Fits(kept[k - 1]) THEN kept[k - 1] ELSE WithoutFirstLine(kept[k - 1])
  IN  Clipped(kept[lines])

Joined(text, more) == IF text = <<>> THEN more ELSE text \o <<"n">> \o more

-----------------------------------------------------------------------------
(* distill_page_knowledge up to its await.                                 *)
Distil(r) ==
  /\ stage[r] = "idle"
  /\ \E p \in Pages :
       /\ at' = [at EXCEPT ![r] = p]
       /\ prior' = [prior EXCEPT ![r] = notes[RootUrl(p)]]
  /\ stage' = [stage EXCEPT ![r] = "asking"]
  /\ UNCHANGED <<notes, told, tainted>>

Replaces(r, text, site) ==
  /\ notes' = [notes EXCEPT ![RootUrl(at[r])] = TrimmedNote(text)]
  /\ tainted' = IF notes[RootUrl(at[r])] = prior[r] THEN tainted ELSE tainted \cup {site}
  /\ stage' = [stage EXCEPT ![r] = "over"]
  /\ UNCHANGED <<at, prior>>

(* The model folds the prior note in, as the prompt asks, or drops it.     *)
FoldsIn(r) ==
  /\ stage[r] = "asking"
  /\ \E text \in Learned :
       /\ Replaces(r, Joined(prior[r], text), at[r].site)
       /\ told' = [told EXCEPT ![at[r].site] = Joined(@, text)]

StartsOver(r) ==
  /\ stage[r] = "asking"
  /\ \E text \in Learned :
       /\ Replaces(r, text, at[r].site)
       /\ told' = [told EXCEPT ![at[r].site] = text]

(* An empty reply, an exception, a run that is cancelled.                  *)
SaysNothing(r) ==
  /\ stage[r] = "asking"
  /\ stage' = [stage EXCEPT ![r] = "over"]
  /\ UNCHANGED <<notes, at, prior, told, tainted>>

NotesInit ==
  /\ notes = [url \in {RootUrl(p) : p \in Pages} |-> <<>>]
  /\ at = [r \in Writers |-> CHOOSE p \in Pages : TRUE]
  /\ stage = [r \in Writers |-> "idle"]
  /\ prior = [r \in Writers |-> <<>>]
  /\ told = [s \in Sites |-> <<>>] /\ tainted = {}

NotesNext == \E r \in Writers : Distil(r) \/ FoldsIn(r) \/ StartsOver(r) \/ SaysNothing(r)

NotesSpec == NotesInit /\ [][NotesNext]_noteVars

-----------------------------------------------------------------------------
(* The longest run of whole lines at the end of a text that fits, or what fits of
   its last line.                                                            *)
NewestOf(text) ==
  LET starts == {1} \cup {i + 1 : i \in Newlines(text)}
      fitting == {k \in starts : Fits(SubSeq(text, k, Len(text)))}
  IN  IF fitting # {} THEN SubSeq(text, Min(fitting), Len(text))
      ELSE Clipped(SubSeq(text, Max(starts), Len(text)))

(* task2/README.md:120 and docs/plans/2026-05-02-reason-vs-note-split-design.md:43:
   whatever page of a site a run starts on, it is shown the newest whole lines of
   all that runs have told of the site, up to the limit; trimmed at each run, the
   note is what trimming once would have kept.  Runs that fail lose nothing; only
   a run that replaces a note it has not read does (distill.py:62).          *)
NewestIsKept ==
  \A p \in Pages : p.site \notin tainted => notes[RootUrl(p)] = NewestOf(told[p.site])

=============================================================================
