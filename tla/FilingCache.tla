----------------------------- MODULE FilingCache -----------------------------
(* The fetching of filings in task3: sec_toolbox.fetch.Fetcher over
   cache.DiskCache and client.SECClient.  A process builds a DiskCache, which
   reads index.json into memory once, and fetches documents through it; a
   document fetched is written to its file, then the whole index of the process
   is written to index.json.tmp and renamed over index.json.  Processes share
   the directory: the requests of one API server come one after another, as
   the fetching does not await, but a script can run beside it.
   Throttling only delays a request: see TokenBucket.                        *)
EXTENDS Naturals, Sequences

CONSTANTS
  Procs,      \* processes, or requests to the API
  Docs,       \* endpoint and arguments as they are given: the key of an entry
  Paths,      \* files under the root
  Bodies,     \* what the SEC answers with
  Busy,       \* the page that comes with 429 or 5xx
  None        \* no file, no entry

Blank == "blank"      \* truncated, not written yet
Torn == "torn"        \* two writes through each other

ASSUME BodiesAreContents ==
  /\ Busy \notin Bodies /\ None \notin Bodies \cup {Busy}
  /\ {Blank, Torn} \cap (Bodies \cup {Busy, None}) = {}

VARIABLES
  pc,         \* per process: where it is in a fetch
  mem,        \* per process: DiskCache._index, the body that an entry hashes
  want, got,  \* per process: the document asked for, the body received
  tmpFile,    \* per process: which file its open index.json.tmp now is
  file,       \* the documents on disk
  index, tmp, \* index.json and index.json.tmp
  shared,     \* two processes have been alive at the same time
  fileOf,     \* the file of the document that a key names, chosen once: keys that
              \* spell one CIK or accession in two ways name one document
  rewritten   \* files of an entry that were asked for again

cache == <<mem, want, got>>
disk == <<file, index, tmp, tmpFile>>
ghosts == <<shared, fileOf, rewritten>>
vars == <<pc, cache, disk, ghosts>>

Contents == Bodies \cup {Busy, Blank, Torn, None}
Entries == [Docs -> Bodies \cup {Busy, None}]
NoEntries == [d \in Docs |-> None]
Whole(es) == [kind |-> "whole", entries |-> es]
Kind(k) == [kind |-> k, entries |-> NoEntries]

(* What a file holds when x is written to it from the start: x, or a mixture
   when somebody else wrote since it was truncated.                          *)
Written(before, blank, x, mixture) == IF before = blank THEN {x} ELSE {x, mixture}

Moves(p, to) == pc' = [pc EXCEPT ![p] = to]

(* The process is gone, and its memory with it.                              *)
Ends(p) ==
  /\ Moves(p, "off")
  /\ mem' = [mem EXCEPT ![p] = NoEntries]
  /\ want' = [want EXCEPT ![p] = None]
  /\ got' = [got EXCEPT ![p] = None]

-----------------------------------------------------------------------------
(* DiskCache(root) reads the index; one that is not JSON raises.
   Mutant: the index is not read.                                            *)
StartsEmpty == NoEntries
LoadedIndex == index.entries

Start(p) ==
  /\ pc[p] = "off" /\ index.kind \in {"none", "whole"}
  /\ mem' = [mem EXCEPT ![p] = LoadedIndex]
  /\ Moves(p, "ready")
  /\ shared' = (shared \/ \E q \in Procs \ {p} : pc[q] # "off")
  /\ UNCHANGED <<want, got, disk, fileOf, rewritten>>

StartRaises(p) ==
  /\ pc[p] = "off" /\ index.kind \in {"blank", "torn"}
  /\ UNCHANGED vars

Stop(p) ==
  /\ pc[p] = "ready"
  /\ Ends(p)
  /\ UNCHANGED <<disk, ghosts>>

-----------------------------------------------------------------------------
(* DiskCache.write: the file, the entry, the index.  Mutants: the index goes
   out before the document, it is written in place, all documents share a path.
   The key is made of the arguments as given; the path of an archive document of
   the CIK without its zeros and the accession without its dashes.           *)

IndexFirst == <<"indexing", "document">>
InPlace(p) ==
  index' = Kind("blank") /\ tmpFile' = [tmpFile EXCEPT ![p] = "index"] /\ UNCHANGED tmp
OnePath(d) == CHOOSE f \in Paths : TRUE

Order == <<"document", "indexing">>
OpensTmp(p) ==
  tmp' = Kind("blank") /\ tmpFile' = [tmpFile EXCEPT ![p] = "tmp"] /\ UNCHANGED index
PathOf(d) == fileOf[d]

After(stage) == IF stage = Order[1] THEN Order[2] ELSE "returned"

-----------------------------------------------------------------------------
(* Fetcher._go: an entry in memory whose file exists is a hit, whatever the
   file holds; refresh and no_cache pass over it.                            *)

Hit(p, d) == mem[p][d] # None /\ file[PathOf(d)] # None

(* Under this spelling or another one.                                       *)
Known(p, f) == \E d \in Docs : fileOf[d] = f /\ mem[p][d] # None

Lookup(p, d, bypass) ==
  /\ pc[p] = "ready"
  /\ want' = [want EXCEPT ![p] = d]
  /\ IF Hit(p, d) /\ ~bypass THEN Moves(p, "returned") ELSE Moves(p, "asking")
  /\ rewritten' = IF (Hit(p, d) => bypass) /\ Known(p, fileOf[d])
                  THEN rewritten \cup {fileOf[d]} ELSE rewritten
  /\ UNCHANGED <<mem, got, disk, shared, fileOf>>

(* SECClient._request: a refusal (403, 404) is an answer like any other.     *)
Answered(p) ==
  /\ pc[p] \in {"asking", "again"}
  /\ \E b \in Bodies : got' = [got EXCEPT ![p] = b]
  /\ Moves(p, Order[1])
  /\ UNCHANGED <<mem, want, disk, ghosts>>

Forgets(p) ==
  /\ Moves(p, "ready")
  /\ want' = [want EXCEPT ![p] = None]
  /\ got' = [got EXCEPT ![p] = None]
  /\ UNCHANGED mem

(* The caller of the fetch gives up, or goes on with the same cache (the
   survey records the error and takes the next filing).                      *)
FetchRaises(p) ==
  \/ Ends(p)
  \/ Forgets(p)

(* Mutant: the second busy answer is returned.                               *)
BusyReturned(p) ==
  Moves(p, "document") /\ got' = [got EXCEPT ![p] = Busy] /\ UNCHANGED <<mem, want>>
SecondBusy(p) == FetchRaises(p)

BusyAnswer(p) ==
  /\ \/ pc[p] = "asking" /\ Moves(p, "again") /\ UNCHANGED cache
     \/ pc[p] = "again" /\ SecondBusy(p)
  /\ UNCHANGED <<disk, ghosts>>

(* A connection error or a timeout is not tried again.                       *)
RequestRaises(p) ==
  /\ pc[p] \in {"asking", "again"}
  /\ FetchRaises(p)
  /\ UNCHANGED <<disk, ghosts>>

-----------------------------------------------------------------------------
(* The document, then the entry and the index.                             *)

OpenDocument(p) ==
  /\ pc[p] = "document"
  /\ file' = [file EXCEPT ![PathOf(want[p])] = Blank]
  /\ Moves(p, "filling")
  /\ UNCHANGED <<cache, index, tmp, tmpFile, ghosts>>

WriteDocument(p) ==
  /\ pc[p] = "filling"
  /\ \E c \in Written(file[PathOf(want[p])], Blank, got[p], Torn) :
       file' = [file EXCEPT ![PathOf(want[p])] = c]
  /\ Moves(p, After("document"))
  /\ UNCHANGED <<cache, index, tmp, tmpFile, ghosts>>

OpenIndex(p) ==
  /\ pc[p] = "indexing"
  /\ mem' = [mem EXCEPT ![p][want[p]] = got[p]]
  /\ OpensTmp(p)
  /\ Moves(p, "saving")
  /\ UNCHANGED <<want, got, file, ghosts>>

(* The write follows the open file, also when another process has renamed it
   to index.json, or replaced it there.                                      *)
WriteIndex(p) ==
  /\ pc[p] = "saving"
  /\ \/ /\ tmpFile[p] = "tmp"
        /\ tmp' \in Written(tmp, Kind("blank"), Whole(mem[p]), Kind("torn"))
        /\ UNCHANGED index
     \/ /\ tmpFile[p] = "index"
        /\ index' \in Written(index, Kind("blank"), Whole(mem[p]), Kind("torn"))
        /\ UNCHANGED tmp
     \/ tmpFile[p] = "gone" /\ UNCHANGED <<index, tmp>>
  /\ tmpFile' = [tmpFile EXCEPT ![p] = "none"]
  /\ Moves(p, "renaming")
  /\ UNCHANGED <<cache, file, ghosts>>

Renamed(q) == CASE tmpFile[q] = "tmp" -> "index"
                [] tmpFile[q] = "index" -> "gone"
                [] OTHER -> tmpFile[q]

RenameIndex(p) ==
  /\ pc[p] = "renaming" /\ tmp.kind # "none"
  /\ index' = tmp
  /\ tmp' = Kind("none")
  /\ tmpFile' = [q \in Procs |-> Renamed(q)]
  /\ Moves(p, After("indexing"))
  /\ UNCHANGED <<cache, file, ghosts>>

(* Another process has renamed it: FileNotFoundError.                        *)
RenameRaises(p) ==
  /\ pc[p] = "renaming" /\ tmp.kind = "none"
  /\ FetchRaises(p)
  /\ UNCHANGED <<disk, ghosts>>

(* The caller reads the file at the path of the CacheEntry, and goes on.     *)
CallerReads(p) ==
  /\ pc[p] = "returned"
  /\ Forgets(p)
  /\ UNCHANGED <<disk, ghosts>>

(* The process dies and leaves its files as they are.                        *)
Crash(p) ==
  /\ pc[p] # "off"
  /\ Ends(p)
  /\ tmpFile' = [tmpFile EXCEPT ![p] = "none"]
  /\ UNCHANGED <<file, index, tmp, ghosts>>

-----------------------------------------------------------------------------
Init ==
  /\ pc = [p \in Procs |-> "off"]
  /\ mem = [p \in Procs |-> NoEntries]
  /\ want = [p \in Procs |-> None] /\ got = [p \in Procs |-> None]
  /\ tmpFile = [p \in Procs |-> "none"]
  /\ file = [f \in Paths |-> None]
  /\ index = Kind("none") /\ tmp = Kind("none")
  /\ shared = FALSE /\ rewritten = {}
  /\ fileOf \in [Docs -> Paths]

Next ==
  \E p \in Procs :
    \/ Start(p) \/ StartRaises(p) \/ Stop(p)
    \/ \E d \in Docs, bypass \in BOOLEAN : Lookup(p, d, bypass)
    \/ Answered(p) \/ BusyAnswer(p) \/ RequestRaises(p)
    \/ OpenDocument(p) \/ WriteDocument(p)
    \/ OpenIndex(p) \/ WriteIndex(p) \/ RenameIndex(p) \/ RenameRaises(p)
    \/ CallerReads(p) \/ Crash(p)

Spec == Init /\ [][Next]_vars

-----------------------------------------------------------------------------
(* The type of the state.                                                   *)
TypeOK ==
  /\ pc \in [Procs -> {"off", "ready", "asking", "again", "document", "filling",
                       "indexing", "saving", "renaming", "returned"}]
  /\ mem \in [Procs -> Entries] /\ want \in [Procs -> Docs \cup {None}]
  /\ got \in [Procs -> Bodies \cup {Busy, None}]
  /\ file \in [Paths -> Contents]
  /\ tmpFile \in [Procs -> {"none", "tmp", "index", "gone"}]
  /\ {index, tmp} \subseteq [kind : {"none", "whole", "blank", "torn"}, entries : Entries]
  /\ shared \in BOOLEAN /\ rewritten \subseteq Paths /\ fileOf \in [Docs -> Paths]

(* Whoever writes and dies when: a document that an index lists, on disk or
   in memory, has a file; the file is made before the entry.                 *)
ListedIsStored ==
  \A d \in Docs :
    /\ index.entries[d] # None => file[PathOf(d)] # None
    /\ \A p \in Procs : mem[p][d] # None => file[PathOf(d)] # None

(* docs/plans/2026-05-04-task3-toolbox-design.md:95, the index is updated
   atomically: with one process at a time, a crash at any step leaves an
   index.json that the next one can load.                                    *)
IndexLoads == ~shared => index.kind \in {"none", "whole"}

(* With one process at a time no crash loses an entry.                       *)
EntriesSurvive ==
  [][~shared' => \A d \in Docs : index.entries[d] # None => index'.entries[d] # None]_vars

(* The sha256 of an entry is that of its file, over crashes and restarts,
   unless the file was asked for again past its entry, by a refresh or under another
   spelling (it is overwritten in place), or processes overlapped.           *)
EntriesMatchFiles ==
  \A d \in Docs :
    ~shared /\ fileOf[d] \notin rewritten /\ index.entries[d] # None =>
      file[PathOf(d)] = index.entries[d]

(* The caller reads, whole, what the SEC answered; never a file that a dead
   process left, unless it left it while it overwrote the file of an entry, or the
   page of a busy server.                                                    *)
ReadsAreAnswers ==
  \A p \in Procs :
    pc[p] = "returned" /\ ~shared /\ fileOf[want[p]] \notin rewritten =>
      file[PathOf(want[p])] \in Bodies

=============================================================================
