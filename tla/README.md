# Verification of the browsing agent (task2) and the 10-K extractor (task3)

TLA+ modules, TLC configurations and TLAPS proofs kept beside the code.
`tlc -config X.cfg M` checks a run, `tlapm M_proofs.tla` checks the proofs;
`PROJECT.json` lists the runs, the mutants that each property catches, the lines
that each definition stands for, the findings and the hazards.

## 1. The system

Two programs. **task2** is a web agent: a FastAPI server starts one Chromium and
one agent loop per WebSocket session; a single page (`app.js`) drives it.
**task3** fetches 10-K filings from the SEC through a throttled client and a disk
cache, and a tool-calling agent cuts them into item records.

| component | state | operations | talks to |
|---|---|---|---|
| session pool (`server.py run_loop`) | semaphore, `sessions_in_flight`, browser of each session | arrive, announce, acquire, start, run, close, release, cancel | page (queued event), browser, loop |
| question channel (`tools/meta.py`, `server.py`, `app.js`) | future and text of the open question, `answer_q`, the box of the page | ask, pump every 50 ms, send, answer, disconnect | loop, page |
| agent loop (`loop.py`, `page_diff.py`) | tape, masks, memos of windows, lines already printed, streaks | look, ask the model, one tool per step, forced done | model, browser, trace |
| answer grounding (`tools/meta.py`, `force_done.py`) | the tape | check of a search pattern, of `done()`, of the forced done | loop |
| page (`static/app.js`) | socket held, active session, transcript, box, Run button | messages, run, open a session, new chat, answer | server |
| elements (`browser_session.py`, `tools/browser.py`) | `data-agent-eid` tags on nodes, element map, live section of the prompt | snapshot, list, click, type, goto | browser, loop |
| page notes (`notes_store.py`, `distill.py`) | one note per site in SQLite | get, distil, set | loop, model |
| extraction agent (`extract_agent/loop.py`, `__main__.py`, `queue.py`, `tools/`) | session (text, anchors, records, cost, steps), the sheet of filings, output files | next row, tool calls, mark done | model, cache |
| records (`anchors.py`, `slicer.py`, `default_classify.py`, `classify.py`, `_merge_5b.py`, `tools/`) | texts, anchors and records of a session | headings, slices, status splits, patches | extraction agent |
| regression diff (`eval/regression.py`) | none: a function of two layouts | differences, overrides, verdict, accuracy | extraction agent |
| fetch and cache (`sec_toolbox/fetch.py`, `cache.py`, `client.py`) | `index.json`, one file per document, the index in memory | lookup, request with one retry, write document, write index | SEC, API, survey, agent |
| throttle (`sec_toolbox/throttle.py`) | tokens, time of the last refill | acquire | client |

Formatting, HTML, regular expressions over prose, batch scripts and read-only HTTP
pages are listed in `PROJECT.json` as not modelled, each with the reason.

What is hard here, and what makes each component right:

* *asyncio hand-over.* A released slot travels to a waiter that runs only later;
  counters read in between are stale; a cancellation can meet it on the way.
  Slots must be conserved, never idle beside a waiter, and granted in order.
* *four parties in a ring.* Loop, pump, handler and user wait on one another
  over queues without question numbers. An answer must reach its own question.
* *a page that moves.* Every await in the loop lets the page change; masks and
  memos are statements about an earlier text. They must not outlive it.
* *a model that says anything*, several steps in a row: what vouches for a citation
  must be page text; every run must end within its budgets; every tool call must
  be answered, as the next request depends on it.
* *death between two steps.* Queue sheet, outputs, documents and index are separate
  files. A tick must be earned, an index entry must have its file.
* *processes side by side* on one cache directory, with a whole-file index.
* *numbers for things that move.* An element is listed under a number and acted on by it
  several awaits later; a record is a range and a content that separate calls set.
* *boundaries*: last window of a page, last heading of a filing, a body of no
  length, a request at the brim of the token bucket.

## 2. Modules

| module | models | correspondence |
|---|---|---|
| `SessionPool` | `run_loop`, `_acquire_with_queue_notify`, `asyncio.Semaphore` of Python 3.11 | one action per stretch of code between two awaits of a session's task; `st` says at which await it stands, `behind` is the deque of futures as a relation, `cancelled` is a `CancelledError` not thrown yet |
| `FifoPool` | what a pool promises: places, a line, the head of the line is served | abstract specification |
| `SessionPoolRefinement` | the refinement mapping: a granted waiter is inside, the pending ones in order of `behind` are the line | `SessionPool` with fairness implies `FifoPool!FairSpec` |
| `AskUser` | `QuestionChannel.ask`, `question_pump`, the receive loop of the handler, the question box | one action per party and await; an answer is the number of the question it was typed for |
| `PageDiff` | `OffsetCache`, `plan_read` | pure operators: the plan by the first window that is new, and `PlanByLoop`, the loop of the source hop by hop |
| `PlannedReads` (extends `PageDiff`) | the branch of `run()` for `read`: plan, record the window, serve it | one request made again and again on one page, with any memo to begin with |
| `ReactLoop` (extends `PageDiff`) | `ReactLoop.run` | `phase` is the await at which `run()` stands, a tool is chosen by the model as an input; the page may change between two awaits when `Flaky`; a call without a time limit may hang |
| `Grounding` | `_check_read_grep_grounding`, `done()`, `coerce_done_via_llm` | texts are sequences of words; messages of the harness that repeat the model's words are on the tape, as in the code, those of a read that refuses its arguments among them |
| `Elements` | `BrowserSession.snapshot`, `list_interactive`, `click`, `type`, `goto`, the live section of the prompt | a node of the DOM has a life (not there yet, in the document, out of it, gone with its document) and a tag; each CDP call and each locator call is a step, and the page takes nodes out, puts nodes in, clones them, opens lists and navigates between any two. Nodes hang in the document, or in an open or a closed shadow root: the clearing of old numbers reaches the first only, the locator the first two, the accessibility tree all; `stale` are those that kept an old number |
| `Notes` | `distill_page_knowledge`, `NotesStore.get` and `set` | two actions per run, before and after the model call; a note is a sequence of letters of one or two bytes |
| `Extraction` | `_run_queue`, `run_loop`, `queue.py` and what each tool does to the session | a text or a list of records is a version number; process death at every step; a tool call may hang; `mark_done` in two steps, truncate and write |
| `FilingCache` | `Fetcher._go`, `DiskCache`, `SECClient._request` | each open, write and rename is a step; files hold bodies, nothing, or two writes through each other. A key is the arguments as given, and `fileOf` its file: two keys may share one, as the path drops the zeros of a CIK and the dashes of an accession |
| `TokenBucket` | `TokenBucket` | time in ticks that refill one unit; calls at any moment, sleeps that return late |
| `Records` | `find_anchors`, `dedupe_anchors`, `slice_items`, `classify_default`, `by_item` of the tool, `classify_records`, `merge_records`, `merge_segments`, range checks of the validator | pure operators over texts as sequences of letters (heading, newline, digit, the phrase "incorporated by reference", other); a record has a range and a content |
| `Slicing` (extends `Records`) | one filing, from its headings to its slices | the state is the input; what `find_anchors` reports and what `slice_items` cuts are defined from it |
| `StatusSplit` (extends `Records`) | one pass of `classify_records` | the state is the input: records that lie apart, and for each the segments of the reply |
| `Toolbox` (extends `Records`) | the tools that make and change records, on one session | one action per tool; `slips` names what a call did that may part range and content |
| `Regression` | `_index_by_item`, `_diff_filing`, the verdict of `_evaluate_one` | pure operators over layouts |
| `Comparison` (extends `Regression`) | one filing of the regression | the state is the input: two layouts and the overrides |
| `Page` | `app.js` | one action per handler up to its first await; the server by its messages and traces |
| `MC*` | constants for TLC. `MCAlgorithms` runs `PlannedReads`, `Slicing`, `StatusSplit`, `Comparison`, `Toolbox`, `Notes` and `TokenBucket`; `MCGrounding` runs `Grounding` or `Elements`, `MCServer` runs `SessionPool`, `AskUser` or `Page`: independent subjects of one run, picked by `subject` in the initial state | |
| `*_proofs` | theorems | section 5 |

The boundary between `ReactLoop` and `Grounding`: in the first, `done()` is
accepted or rejected freely and no text is looked into; the second has texts and
checks, and no masks; `Elements` has the DOM, and no texts. Between `Extraction`
and `Toolbox`: budgets, queue and versions of records in the first, texts and ranges in
the second. Between `AskUser` and `Page`: one session seen from all four parties in the
first, many sessions seen from the page in the second.

`Records` (headings, slices, splits), `Regression` and the cut of `Notes` were compared
with the Python functions on every input of the runs (108 000 for the last two), with
equal results.

## 3. Runs

| run | question | states |
|---|---|---|
| `server` | four sessions over two slots, with disconnections and failing browsers: are slots conserved, not lost, granted in order; is each waiter served; does the pool implement the FIFO pool? Five questions, the page leaving at any moment: does an answer reach its question, and does no question wait for ever? A page among past sessions, new chats and three runs: does an answer go to the run that asked? | 263 000 |
| `pool_silent_wait` | *refuted*: is a session that waits always told so? | |
| `loop` | all tools, on a page that changes at every await and fails, and on one that only the agent changes: are masks earned on the page that is shown, does the wall streak count, are reads news, are lines dropped and the search masked only for this page, does the run end or hang in one call? | 2.1 M |
| `loop_memo` | *refuted*: does the memo hold what was served? | |
| `loop_vain` | *refuted*: do three vain searches in a row go before the mask? | |
| `grounding` | made-up, seen, half-seen citations: does a blocked search stay blocked, are evidence and answer of a success on the tape? A page that moves between the awaits of snapshot and action: does an action touch what was shown, or else a node that kept an older number; can what is listed be acted on? | 3.5 M |
| `grounding_evidence` | *refuted*: is accepted evidence page text? | |
| `elements_shadow` | *refuted*: does a number match only the element it was given to, when scripts put nodes back and nodes hang in shadow roots? | |
| `extract` | a sheet with one filing twice and one never fetched, crashes and restarts: are ticks earned and in order, do budgets hold, is every call answered, do runs end or hang in one call? | 39 000 |
| `fetch` | two processes with crashes at every step, two keys of two files or of one: what holds even when they overlap, what holds one at a time? | 2.7 M |
| `algorithms` | every small input: `plan_read` against the loop of the source; slices against a reader's view; classification and splits letter by letter; the regression diff against the layouts. Every order: the tools of a session, do ranges hold their content; runs that distil one site, is the newest kept. Every timing: the rate of the bucket in every window | 382 000 |
| `page_transcript` | *refuted*: does the transcript belong to the active session? | |

Each property of a passing run has a mutant: a plausible bug, written as an
operator beside the definition it changes, that makes TLC find the property
violated. `CHECK_DEADLOCK FALSE` is used for `algorithms` only, whose behaviours
end when the request is exhausted, the bucket has sent everything, the calls of the
session are used up or every run has distilled.

### Bounds

* `server`: 4 sessions, 2 slots. Two hold, two wait: a slot can be freed, handed
  over, cancelled and passed on while another waits. A newcomer beside a granted
  *and* a pending session needs a fifth session; that case is covered by the
  proofs, which have no bound.
  5 questions. At most one is under way, so that two would do. Two past
  sessions, three runs, two loads at a time: a run can be left, followed by another and
  by a third while traces are still on their way.
* `loop`: two settings, one where the page is unsteady and one where it is not; 4 or 5 steps, the last of which is forced; two page texts, one longer
  than a window and one shorter, so that a read can meet the end, an old window and
  a new one; three steps earn a mask (two vain searches and the change after it).
* `grounding`: three free steps, evidence of two words: one to plant a text, one to
  cite it, one to answer; among the citations is the harness's own wording. Elements: four
  nodes (a field, a select, its option in a closed shadow root, and a field in an open one,
  which a script adds or clones), scripts that put removed nodes back, two moves of the page,
  windows of two: a number can be given, its node be taken out and put back, or doubled, and
  a second snapshot follow.
* `extract`: sheet `<<brk, ibm, brk, ge>>`, `ge` not fetched; 2 steps and a ceiling
  of 2 with replies of 0, 1, 2; two calls per reply; four runs over all launches, so
  that a filing can be run, lost, run again and ticked.
* `fetch`: two processes, two keys, two files, two answers, symmetric in all four. Two of
  each is what a lost update, a mixed write and a confusion of files need.
* `algorithms`: page texts up to three letters with windows of two; filings up to six
  letters over two items, so that an item has two headings around another; bodies up
  to three letters, and four of four letters, with up to three segments in any order, their
  records apart by a letter after the first; seven tool calls over two texts, one of which
  is shorter than the headings of the other (load, find, load, slice, patch, classify and
  one more), patches that are ranges of one text, of none, or count from the end;
  three runs on two pages of a site and one of another, lines that fill a note
  of five bytes or are too long for it; layouts of up to two records over two items,
  lengths on both sides of the twentieth; a bucket of two tokens, six requests, eight
  ticks.
* `page_transcript`: two past sessions, two runs, two loads at a time.

### Fairness

* `SessionPool`: weak fairness of `Progress` per session: the event loop runs a task that can
  go on, and a browser call or a run ends. Of runs this is an assumption, and what follows
  (`NoStarvation`, the fairness of `RefinesFifoPool`) is no better than it: model calls time
  out and steps are bounded, but a session whose call into the page hangs, or whose question
  nobody answers, keeps its slot until its client leaves. The arrival and the departure of a
  client are not fair.
* `AskUser`: weak fairness of what the event loop delivers and, for `QuestionsReturn`
  only, of the user, who answers or leaves. There is no timeout on the future.
* `ReactLoop`: weak fairness of `Proceed`, the steps of the loop itself: a reply of the model
  ends within 120 seconds, a call into the page returns or hangs (`Hangs`). Evaluations
  (`loop.py:256`, `484`, `browser.py:78`, `90`), counts, key presses, CDP sends and questions
  to the user have no time limit, so `RunEnds` says that a run ends or stands for ever in
  one such call, out of which only a cancellation gets it, and that nothing else keeps it
  going. Changes of the page are not fair.
* `Extraction`: weak fairness of the steps of a run; launches and crashes are not. A tool call
  may hang: patterns of the model are matched against a whole filing without a time limit
  (`regex_search.py:31-37`, `find_anchors.py:56`, `extra_strip_patterns`), so `RunsEnd` says
  that a run ends or hangs in one tool call.
* `Page`, `FilingCache`, `Grounding`, `Elements`, `Toolbox`, `Notes`, `TokenBucket`:
  safety only, no fairness.

## 4. Where the code and its documents disagree

Six statements are refuted by runs (`findings` in `PROJECT.json`):

1. A session that arrives while a freed slot is on its way to a waiter reads
   `sessions_in_flight` below the capacity, is sent no queued event, and waits.
2. `run()` records the window of the *first* evaluation of the page; the tool serves
   the second. A call that fails or a page that changed leaves a memo of text that
   the model never saw, and the next read skips it.
3. `done()` looks for evidence on the whole tape, on which its own rejections and
   blocked searches repeat the model's words: made-up evidence is accepted the
   second time.
4. `openSession` awaits a trace and renders it into whatever session is open by then.
5. The numbers of the last snapshot are cleared by `document.querySelectorAll`, which does not
   reach a node that a script has taken out of the document, nor one in a shadow root. Back in
   the document, or in an open shadow root, which the locator enters, such a node bears an old
   number beside the element that has it now, and a click raises on two matches or lands on
   the old node.
6. A search is masked by the *second* search in a row that brings nothing new
   (`TwoVainSearches`, `loop.py:564`). Its message (`loop.py:567-568`), its design
   (`...-readgrep-redesign-and-answer-grounding-design.md:143` and the table at 159, where
   X, read, X, X, X is masked at the fifth call and not at the fourth) and
   `task2/README.md:111` say the third.

Read in the code while modelling, and not the subject of a run:

* a read whose arguments have an unknown name fails with a message that repeats the name, and
  that message is then the last read that a search may be grounded in: the check of
  `loop.py:119-138` means page text (`SearchesAreGrounded` says what holds);
* a node in a closed shadow root is listed but cannot be acted by, as no locator enters there
  (`ListedCanBeActedBy` is stated of the others);
* two spellings of one CIK or accession are two keys of the cache and one file
  (`endpoints.py:68-75`, `cache.py:43-46`): fetching the second leaves the entry of the first
  with the hash of the old text, and a crash while it is written leaves a torn file that the
  first serves as a hit (`EntriesMatchFiles` and `ReadsAreAnswers` except files that are
  fetched again);
* the limit of `--per-case-timeout` (`task3/README.md:446-451`) is an `asyncio.wait_for`, which
  does not interrupt a tool that is matching a pattern;
* a blank question is never shown, and the loop waits until the page leaves
  (`QuestionsReturn` excepts it);
* the "ahead" number of a queued event is the number of sessions in flight, which
  does not grow along the line;
* the bucket lets ten requests go at once and refills during the same second: up to
  twenty leave in a second (`docs/plans/2026-05-04-task3-toolbox-design.md:133`,
  `task3/README.md:673`: ten), and each process has a bucket of its own;
* two processes share one `index.json.tmp`: entries are lost, the index can be torn
  and the rename can raise (`IndexLoads`, `EntriesSurvive` are stated of one process
  at a time); a refusal of the SEC is cached like a document;
* `mark_done` truncates the sheet before it writes: after a crash there the queue
  looks empty and the process exits with 0;
* the requests of `classify_statuses` to the small model are not counted against the
  ceiling; `done` without `write_output` ticks the row;
* a tool name outside the offered list raises in the client and ends the extraction
  run, uncaught; so do model errors in the agent loop, which leaves no done event;
* `update_record` patches the record before it finds that the text is unknown, patches a
  content without its range, and takes a range that is none of its text; `slice_items` cuts
  one text by the anchors of another (the `slips` that `RangesHoldContent` excepts);
* the Run button stays disabled after New chat during a run (`task2/README.md:191`: "+ New
  chat to start fresh");
* `eval/regression.py` compares only the last record of an item: with several records on both
  sides a status flip in another one is not reported (`DriftIsReported` is stated of items
  with one record), and a filing whose run raised adds nothing to the total items;
* a single reasoning longer than 4 KB is put into the prompt whole;
* in `merge_segments` the head fix runs before the order check, so that a first
  segment that is out of order can be accepted (`SplitAsLabelled` says of any accepted
  reply which segment decides for a letter);
* a bare heading takes the following heading as its title;
* a forced done keeps an answer that is not part of its evidence, and evidence may
  span two observations;
* distillation reads a note, awaits the model and overwrites: of two runs on one
  site the later write drops what the earlier one learned.

## 5. Proofs

All theorems hold for every value of the constants under the named assumptions of the
modules, which TLC also evaluates: any number of sessions, questions, runs, rows, processes,
documents and nodes, any texts. A proof that steps keep an invariant has one step per action,
or first sorts the actions into a few forms.

* `SessionPool_proofs` (`PoolAssumption`: finitely many sessions, at least one slot).
  `TypeCorrect`, `SlotsAccounted`, `WakeupsNotLost`, `FirstComeFirstServed`,
  `BrowsersStayBounded`, `ImplementsFifoPool`.
  - Slot accounting is a count over two sets that each action changes by one element; lemmas
    state what entering and leaving does to a cardinality. No lost wake-up is inductive only
    together with it. That nobody is overtaken needs no history: it follows from types and
    from what one step does to a session that is granted or walks in (`Fair`).
    Browsers are bounded since one that is launched or in use is of a session
    that still holds its slot (`SlotOutlives`), and the slots are accounted for.
  - The refinement: `ImplementsFifoPool == Spec => Fifo!Spec`. The line of the abstract pool
    is read off `behind`: the place of a waiting session is one more than the number of
    waiting ones it queued behind. `InLine` says that this is a line (everybody in it once,
    each queued behind exactly those in front), `Came` that nobody queues behind a session
    that has not asked yet. Lines of one order are equal (`LineIsUnique`), so it is enough to
    name the line after a step: unchanged, with one more at the end (`JoinOrders`), or with
    one cut out (`CutOrders`); `StepIsOfLine` says which, for every action. The fairness half
    of `RefinesFifoPool` is only model-checked.
* `AskUser_proofs`. `AnswersMatch` and `OneUnderWay` for the four parties, `AnswersGoToTheirRun`
  for the page. Question, queue, socket, box and answer form a ring, and no party carries
  question numbers: the invariant is that the ring holds at most one item (`RingInv`), that
  whatever is in it is the question asked last (`Carries`), and where the two tasks of the
  server can stand (`TaskInv`). The page keeps its promise because the socket that is open is
  that of the run it follows (`HeldIsOpen`).
* `FilingCache_proofs` (`BodiesAreContents`: the marks for no file, a blank or a torn one and a
  refusal are not documents). `CacheTypes`, `ListedAreStored`, `IndexAlwaysLoads`,
  `EntriesAreOfFiles`, `CallersReadAnswers`, `NoEntryIsLost`, for any assignment of files to keys. That a listed document has
  a file holds however many processes overlap: `StoredInv` carries it through the index on
  disk, the one in every memory, and what an open index file is about to get. The others are
  about one process at a time, as the properties say; for these `Alone` states what the memory
  of the live process, its files half written and the index on disk have to do with each other
  at each step of a write, so that a crash between any two of them leaves something that can be
  loaded.
* `Extraction_proofs` (`SheetIsList`, `Bounds`, `Prices`).
  - `RowsInOrder`: a run between taking a row and ticking it must know that the row
    is still the first pending one, and that `mark_done`, which looks for the filing, finds
    this row and no later one (`RowIsNext`).
  - `TicksAreEarned`: the finished runs of a filing are as many as its ticks, or one more in
    the steps between the end of a run and its tick (`DoneIsAhead`). `CallsAreAnswered`:
    the transcript owes exactly the calls still to do (`AnswerInv`). `BudgetKept`: cost is
    only added while it is below the ceiling.
* `ReactLoop_proofs` (`LoopAssumption`). `MasksHoldForThePage`, `DroppedWasPrinted`,
  `SearchesWereVain`, `StreakIsOfLooks`, `ReadsBringNews`. `StepForms`: a step looks at the page,
  ends a call by one record on the tape, or leaves the history alone. `HistoryInv` ties the
  counters of the loop to tape and looks. For the wall streak the invariant names the looks
  that the streak counts (`WallInv`); for the vain searches, where on the tape the last two
  were and that only failures and spent reads lie between (`VainInv`); for
  the reads, that the memo holds what the tape shows was served since the text changed
  (`ReadInv`), which is so only when the agent alone changes the page, as `ReadsAreNews` says:
  otherwise `loop_memo` is the counterexample.
* `Grounding_proofs` (`GroundingAssumption`: texts are sequences; `ElementsAssumption`: finitely
  many nodes, no tag is a number or a node).
  - `AnswersAreOnTheTape`, of forced successes too; `SearchesHaveGround`, whatever the model
    cites: a text of one of the forms that a read can leave (`ReadForms`) that holds the pattern
    is a window of the page, with the harness's note or not, or a message around a refused
    argument (`InMessage`). What a join of observations contains is a fact about a recursive function. The library's induction takes an operator,
    which the provers cannot instantiate; `LeastNumber`, the least of a *set* of
    counterexamples, needs none, and gives that a join exists, has a type, and holds its parts.
  - `ActsAsShown`, for any page: a number is of one node and its clones, or of one that kept an
    older number. `NumberInv` is about tags and the counter, `SectionInv` about the section of
    the prompt, `ShadowInv` about clones and nodes with old numbers, `TouchInv` about an action
    half done. `NumbersWork`: on a page that kept still since the section was written each number
    is on exactly one node without an old one (`OneEach`). `ShadowsHaveCause`: where no script
    puts a removed node back and no node hangs in a shadow root, no node keeps an old number
    (`StaleStep`), so `elements_shadow` has these two causes and no third.
* `Algorithms_proofs`, on all seven subjects of `MCAlgorithms`.
  - `RangesAreHeld` (`RecordsAssumption`, `ToolboxAssumption`: texts, replies and the starts of
    segments are sequences, patches are of integers), over any order of the tools. `ToolInv`
    adds to the property that the anchors are headings of the text they were found in and
    that records have all their fields. The work is in the operators. A match starts at or
    before its heading and after the one above (`HeadingStarts`, `StartsDiffer`), so that
    two items never share a start and the slices have an order; the longest body of an item
    exists whatever the lengths (`LongestIs`); a body whose range is empty, because a title took
    the next heading, counts as short and is cut to nothing at its start, which needs the
    limit for short bodies to be positive; a trimmed body is a prefix (`TrimmedIs`), and a part
    of a part is a part of the text (`PartOfPart`). Segments that increase from one to the
    next increase altogether (`CutsInOrder`), the head fix and the collapse keep that, and each
    piece is then a part of the record's content. Sorting gives back the same records
    (`InOrderLists`, `ByRangeIs`).
  - `RateIsKept` (`BucketAssumption`: a request costs no more than the bucket
    holds): over any window the requests are bounded by a full bucket and
    the refill of the window. The invariant carries for each request what is owed since
    then (`Owed`): the cost of the requests from it on plus the tokens at hand is at most
    the capacity plus the time from the request to the last refill; and that a sleep is
    long enough for the missing tokens (`SleepCovers`), without which the tokens taken
    after it could be negative. TLC cannot give it: windows of any length, any rate.
  - `NewestStays` (`NotesAssumption`: what is learned of a run is a text, not empty, that does not
    end with a newline, as `.strip()` and the early return of `distill_page_knowledge` see to).
    Lines in front that do not fit do not matter for what is kept (`FrontFalls`). So each round
    of the loop in `NotesStore.set` keeps what is newest (`FirstLineFalls`, `NoteTrimmedIs`), and
    trimming a trimmed note with a line more is trimming both at once (`TrimAgain`): where
    no whole line was kept, the clipped one is at most a byte short of the limit (`ClippedIs`), so
    that a newline and a letter more push it out, and where nothing at all was kept the next
    note starts afresh. `NotesInv` is the property, that every note is told with no newline
    at its end, and that a run which asks the model has a page.
  - `PlansAreTheLoop`, `ReadsMoveOn` (`PlannedReadsAssumption`: texts are sequences, windows have a
    length). The loop is a recursive function; that it ends at the least hop that stops
    (`LoopIs`, `SearchIs`) needs no induction, but the last hop at which it would not. A window
    that was recorded is not new, so the next request stops later or is exhausted
    (`RecordedMovesOn`).
  - `ReportsAreSliced`, `SlicesNeverOverlap` (`SlicingAssumption`: filings are sequences). Kept
    headings are apart (`FoundAreApart`), since matching is greedy: a match begins at or after
    the end of the one before. The tool measures a body from the end of its
    heading and the slicer from after the newline, which differ by one letter for every heading but
    one at the end of the text; there both are empty, so both rules choose the same heading
    (`ChoicesAgree`).
  - `LettersKeepTheirRecord` (`StatusSplitAssumption`: records lie apart in order, each as long as
    its range; what a segment starts with is a text). A letter is followed through the pass.
    Sorting leaves records that are in order where they are (`SortedStay`); the head fix and the
    collapse keep for each letter the label of the last segment at or before it (`FixedLabels`,
    `CollapsedLists`); the pieces of one record lie end to end and cover it (`CutsCover`); and
    what is flattened comes, in order, from the lists it was flattened from (`ComeFrom`,
    `FlattenOrder`), so that pieces of two records do not overlap.
    `SlicesCanBeSplit` and `PiecesCanBeSplit` discharge the assumption: the slices of any
    filing meet it, and so do the records of an earlier pass.
  - `DriftNeverPasses` (`RegressionAssumption`: layouts are sequences). With at most one record of an
    item on a side, the index of the code, which keeps the last one, keeps that one
    (`OnePlace`); the verdict is then read off the differences item by item.
* `SequenceLemmas`: what `Grounding_proofs` and `Algorithms_proofs` share, `LeastNumber`, the
  recursive joins and flattened lists among it, and suffixes of texts.

Only model-checked are liveness and refinement with fairness (`NoStarvation`, the fairness of
`RefinesFifoPool`, `QuestionsReturn`, `RunEnds`, `RunsEnd`), as the prover has no rule for fairness
and ENABLED. Every invariant and every action property of a passing run is a theorem.

## 6. Not modelled

* Page scripts in `Elements` act on whole nodes: a script that gives an old node a new meaning
  without replacing it is not told from one that does not. The back/forward cache is off under
  the driver. Numbers that a model remembers from an older section than the one in its prompt
  are not claimed about. The order of the accessibility tree is any order.
* What becomes of `Elements` under two locators at once: the loop makes one call at a time.
* `Api` keeps no state but the output file of a filing, and what it does is one run of
  `Extraction` on a document of `FilingCache`. Two requests for one filing share that file, and
  a run that calls `done` without writing returns what an earlier one left; no document
  promises otherwise.
* Wall detection, HTML cleaning, the URL check of `goto`, titles, the rest of the default
  statuses and the probe are regular expressions and predicates of a library, which a small
  instance tells nothing about. Prompt assembly formats what the modules have as state. Model
  clients, traces, HTTP pages, the survey and the scripts have no state of their own between
  two calls, or start the components above in batches.

## 7. Plan

1. `FilingCache` against an abstract cache (a function from documents to answers) as a
   refinement, for one process at a time.
2. `Extraction` and `FilingCache` composed: a queue row whose document is being written.
