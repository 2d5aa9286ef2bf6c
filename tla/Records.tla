------------------------------- MODULE Records -------------------------------
(***************************************************************************)
(* From a cleaned filing to its records: the item headings (anchors.py),   *)
(* the choice among several headings of one item, made once for the report *)
(* of the find_anchors tool and once by the slicer (slicer.py), and the    *)
(* splitting of a record by status (_merge_5b.py), with the range checks   *)
(* of _validate.py.  A text is a sequence of letters: an item heading, a   *)
(* newline "n", a digit "9", any other text "x".  Positions count from 0.  *)
(***************************************************************************)
EXTENDS Integers, Sequences, FiniteSets, FiniteSetsExt, SequencesExt

CONSTANTS
  Items,      (* item numbers; as a letter, the heading ITEM <number>.     *)
  ShortBody,  (* shorter bodies lose a trailing page number (500)          *)
  ShortIbr, HeadIbr, (* the phrase counts in this head of bodies below (4000, 800) *)
  MinBody,    (* shorter bodies are not classified (200)                   *)
  MaxExhibits (* longer ones of item 15 are not either (500 000)           *)

ASSUME RecordsAssumption ==
  /\ {ShortBody, ShortIbr, HeadIbr, MinBody, MaxExhibits} \subseteq Nat
  /\ ShortBody > 0
  /\ {"n", "9", "x", "y"} \cap Items = {}

(* Texts, lists of records and lists of segments are sequences of anything. *)
IsSequence(s) == s \in Seq({s[i] : i \in DOMAIN s})

Char(text, p) == text[p + 1]
Positions(text) == 0..(Len(text) - 1)

(* text[from:to]: what lies past the end is not there.                     *)
Part(text, from, to) == SubSeq(text, from + 1, Min({to, Len(text)}))

(* The first position from p on that holds a newline, or another letter.   *)
NextNewline(text, p) ==
  Min({q \in Positions(text) : q >= p /\ Char(text, q) = "n"} \cup {Len(text)})
NextInk(text, p) ==
  Min({q \in Positions(text) : q >= p /\ Char(text, q) # "n"} \cup {Len(text)})

(* The first position of the run of newlines that ends at p.               *)
BlankBefore(text, p) ==
  Min({q \in 0..p : \A r \in q..(p - 1) : Char(text, r) = "n"})

-----------------------------------------------------------------------------
(* ITEM_RE.  A heading stands first on its line; the match takes in the empty
   lines above it and, when the line ends with the number, its title from the
   next line that is not empty, even if that is the next heading.            *)
IsHeading(text, p) ==
  Char(text, p) \in Items /\ (p = 0 \/ Char(text, p - 1) = "n")
MatchStart(text, p) == LET b == BlankBefore(text, p) IN IF b = 0 THEN 0 ELSE b + 1
MatchEnd(text, p) == NextNewline(text, NextInk(text, p + 1))

FindAnchors(text) ==
  LET headings == {p \in Positions(text) : IsHeading(text, p)}
      matched[p \in headings] ==
        \A q \in headings : q < p /\ p < MatchEnd(text, q) => ~matched[q]
  IN  {[item |-> Char(text, p), start |-> MatchStart(text, p), end |-> MatchEnd(text, p)] :
         p \in {q \in headings : matched[q]}}

(* dedupe_anchors: an item with a heading past the table of contents loses the
   ones inside it.                                                           *)
DedupeAnchors(anchors, tocEnd) ==
  {a \in anchors : a.start > tocEnd \/ \A b \in anchors : b.item = a.item => b.start <= tocEnd}

(* Mutant: the next heading of the same item is meant.                     *)
NextOfItem(text, anchors, a) ==
  Min({b.start : b \in {c \in anchors : c.start > a.start /\ c.item = a.item}} \cup {Len(text)})
NextStart(text, anchors, a) ==
  Min({b.start : b \in {c \in anchors : c.start > a.start}} \cup {Len(text)})

(* The anchor with the longest body, the first of equals: both copies of the
   rule keep the order of the text.  Mutant: the last of equals.             *)
LongestLast(group, length) ==
  CHOOSE a \in group : \A b \in group :
    length[a] > length[b] \/ (length[a] = length[b] /\ a.start >= b.start)
Longest(group, length) ==
  CHOOSE a \in group : \A b \in group :
    length[a] > length[b] \/ (length[a] = length[b] /\ a.start <= b.start)

ItemsOf(anchors) == {a.item : a \in anchors}
GroupOf(anchors, item) == {a \in anchors : a.item = item}

(* by_item of the find_anchors tool.                                       *)
ByItem(text, anchors) ==
  LET length == [a \in anchors |-> NextStart(text, anchors, a) - a.end]
  IN  [i \in ItemsOf(anchors) |-> Longest(GroupOf(anchors, i), length).start]

-----------------------------------------------------------------------------
(* _slice_body: the body starts after the line of the heading.             *)
BodyStart(text, a, next) ==
  LET nl == NextNewline(text, a.end) IN IF nl >= Len(text) \/ nl > next THEN a.end ELSE nl + 1

(* A page number on the last line of a short body goes, with the empty lines
   around it.                                                                *)
Trimmed(body) ==
  LET ink == BlankBefore(body, Len(body))
      digits == Min({q \in 0..ink : \A r \in q..(ink - 1) : Char(body, r) = "9"})
      numbered == /\ 0 < digits /\ digits < ink /\ ink - digits <= 4
                  /\ Char(body, digits - 1) = "n"
  IN  Part(body, 0, IF numbered THEN BlankBefore(body, digits) ELSE ink)

(* classify_default: a body that is not too long and says the phrase "incorporated
   by reference", the letter "y", near its head.                             *)
DefaultStatus(body) ==
  IF Len(body) < ShortIbr /\ \E p \in 0..(Min({HeadIbr, Len(body)}) - 1) : Char(body, p) = "y"
  THEN "incorporated_by_reference" ELSE "extracted"

(* slice_items: one record per item, in the order of the text, with its content;
   "at" is the heading it was cut at.                                        *)
SliceOf(text, anchors, item) ==
  LET next == [a \in anchors |-> NextStart(text, anchors, a)]
      from == [a \in anchors |-> BodyStart(text, a, next[a])]
      a == Longest(GroupOf(anchors, item), [b \in anchors |-> next[b] - from[b]])
      body == Part(text, from[a], next[a])
      short == Len(body) < ShortBody
      content == IF short THEN Trimmed(body) ELSE body
  IN  [item |-> item, at |-> a.start, from |-> from[a],
       to |-> IF short THEN from[a] + Len(content) ELSE next[a],
       content |-> content, status |-> DefaultStatus(content)]

(* The members of S in an order, given by those before each.               *)
InOrder(S, before) ==
  [k \in 1..Cardinality(S) |-> CHOOSE x \in S : Cardinality(before[x]) = k - 1]

(* Records that start at one place keep their order.                       *)
ByRange(records) ==
  LET before == [i \in DOMAIN records |-> {j \in DOMAIN records :
                   records[j].from < records[i].from \/ (records[j].from = records[i].from /\ j < i)}]
      order == InOrder(DOMAIN records, before)
  IN  [k \in DOMAIN records |-> records[order[k]]]

(* The items come in the order of their first anchor.                      *)
SliceItems(text, anchors) ==
  LET first == [i \in ItemsOf(anchors) |-> Min({a.start : a \in GroupOf(anchors, i)})]
      items == InOrder(ItemsOf(anchors),
                 [i \in ItemsOf(anchors) |-> {j \in ItemsOf(anchors) : first[j] < first[i]}])
  IN  ByRange([k \in DOMAIN items |-> SliceOf(text, anchors, items[k])])

-----------------------------------------------------------------------------
(* merge_segments.  A body is folded to plain quotes and dashes first: two
   letters are the same when they are folded to the same one.                *)
Statuses == {"extracted", "incorporated_by_reference", "not_applicable", "reserved"}

(* str.find and str.count, which does not count overlapping occurrences.   *)
FoundAt(body, snippet) ==
  {p \in 0..(Len(body) - Len(snippet)) : Part(body, p, p + Len(snippet)) = snippet}
CountOf(body, snippet) ==
  LET found == FoundAt(body, snippet)
      counted[p \in found] ==
        \A q \in found : q < p /\ p < q + Len(snippet) => ~counted[q]
  IN  Cardinality({p \in found : counted[p]})

Located(body, seg) == seg.starts # <<>> /\ CountOf(body, seg.starts) = 1

SpansOf(body, segs) ==
  [i \in DOMAIN segs |-> [at |-> Min(FoundAt(body, segs[i].starts)), status |-> segs[i].status]]

(* The head of the body belongs to the first segment if that is extracted, to
   an extracted segment of its own otherwise.                                *)
HeadFixed(spans) ==
  IF spans[1].at = 0 THEN spans
  ELSE IF spans[1].status = "extracted" THEN [spans EXCEPT ![1].at = 0]
  ELSE <<[at |-> 0, status |-> "extracted"]>> \o spans

Increasing(spans) == \A i \in 2..Len(spans) : spans[i].at > spans[i - 1].at

(* Neighbours of one status become one piece.                              *)
Collapsed(spans) ==
  LET first == {i \in DOMAIN spans : i = 1 \/ spans[i].status # spans[i - 1].status}
      kept == InOrder(first, [i \in first |-> {j \in first : j < i}])
  IN  [k \in DOMAIN kept |-> spans[kept[k]]]

(* The segments can be applied: all valid, all found once, in order.       *)
Accepted(body, segs) ==
  /\ segs # <<>>
  /\ \A i \in DOMAIN segs : segs[i].status \in Statuses /\ Located(body, segs[i])
  /\ Increasing(HeadFixed(SpansOf(body, segs)))

(* A rejected record stays as it is.                                       *)
MergeSegments(record, segs) ==
  LET body == record.content IN
  IF ~Accepted(body, segs) THEN <<record>>
  ELSE LET spans == Collapsed(HeadFixed(SpansOf(body, segs)))
           EndOf(k) == IF k < Len(spans) THEN spans[k + 1].at ELSE Len(body)
       IN  [k \in DOMAIN spans |->
              [record EXCEPT !.from = record.from + spans[k].at,
                             !.to = record.from + EndOf(k),
                             !.content = Part(body, spans[k].at, EndOf(k)),
                             !.status = spans[k].status]]

(* merge_records: the segments are given by the places that the records had
   before any was split.  Mutant: by the places that they have meanwhile.    *)
MergeShifted(records, results) ==
  ByRange(FoldLeft(
    LAMBDA out, r :
      IF Len(out) + 1 \in DOMAIN results THEN out \o MergeSegments(r, results[Len(out) + 1])
      ELSE Append(out, r), <<>>, records))
MergeRecords(records, results) ==
  ByRange(FlattenSeq(
    [i \in DOMAIN records |->
       IF i \in DOMAIN results THEN MergeSegments(records[i], results[i]) ELSE <<records[i]>>]))

(* eligible_indices.                                                       *)
Eligible(r) ==
  /\ r.status = "extracted"
  /\ Len(r.content) >= MinBody
  /\ ~(r.item = "15" /\ Len(r.content) >= MaxExhibits)
  /\ \E p \in Positions(r.content) : Char(r.content, p) = "y"

(* classify_records: all calls are gathered, then the replies that carry
   segments are applied, those in the domain of "reply".  A call that raised, or
   a reply that is no object with the key "segments", leaves its record alone. *)
ClassifyRecords(records, reply) ==
  LET results == {i \in DOMAIN reply : Eligible(records[i])}
  IN  MergeRecords(records, [i \in results |-> reply[i]])

-----------------------------------------------------------------------------
(* validate: the records whose range starts before the end of an earlier one,
   of any item or of the same.                                               *)
RangeFindings(records) ==
  {i \in DOMAIN records : \E j \in 1..(i - 1) : records[i].from < records[j].to}

=============================================================================
