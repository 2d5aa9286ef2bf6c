-------------------------- MODULE FilingCache_proofs --------------------------
(***************************************************************************)
(* The disk cache of filings, for any number of processes, documents and   *)
(* answers, with a crash at any step: what holds when processes overlap,   *)
(* and what holds as long as they come one after another.                  *)
(***************************************************************************)
EXTENDS FilingCache, TLAPS

Stages == {"off", "ready", "asking", "again", "document", "filling",
           "indexing", "saving", "renaming", "returned"}
Fetching == {"asking", "again", "document", "filling", "indexing"}
Writing == {"document", "filling", "indexing"}
Placed == {"filling", "indexing", "saving", "renaming", "returned"}

Listing == [Docs -> Bodies \cup {None}]
IndexFiles == [kind : {"none", "whole", "blank", "torn"}, entries : Listing]

(* No busy page ever gets an entry, and none is written.                   *)
CacheInv ==
  /\ pc \in [Procs -> Stages]
  /\ mem \in [Procs -> Listing]
  /\ want \in [Procs -> Docs \cup {None}]
  /\ got \in [Procs -> Bodies \cup {None}]
  /\ file \in [Paths -> Bodies \cup {Blank, Torn, None}] /\ fileOf \in [Docs -> Paths]
  /\ tmpFile \in [Procs -> {"none", "tmp", "index", "gone"}]
  /\ index \in IndexFiles /\ tmp \in IndexFiles
  /\ shared \in BOOLEAN /\ rewritten \subseteq Paths
  /\ \A p \in Procs : /\ pc[p] \notin {"off", "ready"} => want[p] \in Docs
                      /\ pc[p] \in Writing => got[p] \in Bodies
                      /\ pc[p] # "saving" => tmpFile[p] = "none"

LEMMA CacheInit == Init => CacheInv
<1> SUFFICES ASSUME Init PROVE CacheInv
  OBVIOUS
<1>1. index \in IndexFiles /\ tmp \in IndexFiles
  BY DEF Init, IndexFiles, Listing, Kind, NoEntries
<1>2. mem \in [Procs -> Listing]
  BY DEF Init, Listing, NoEntries
<1> QED
  BY <1>1, <1>2 DEF Init, CacheInv, Stages, Writing

LEMMA CacheStep == CacheInv /\ [Next]_vars => CacheInv'
<1> SUFFICES ASSUME CacheInv, [Next]_vars PROVE CacheInv'
  OBVIOUS
<1> USE BodiesAreContents DEF CacheInv, Stages, Writing, Listing, IndexFiles, NoEntries, Kind
<1>0. CASE UNCHANGED vars
  BY <1>0 DEF vars, cache, disk, ghosts
<1>1. ASSUME NEW p \in Procs, Start(p) PROVE CacheInv'
  BY <1>1 DEF Start, Moves, LoadedIndex, disk
<1>2. ASSUME NEW p \in Procs, Ends(p), UNCHANGED <<file, index, tmp, ghosts>>,
             tmpFile' \in {tmpFile, [tmpFile EXCEPT ![p] = "none"]},
             pc[p] # "saving" \/ tmpFile'[p] = "none"
      PROVE CacheInv'
  BY <1>2 DEF Ends, Moves, ghosts
<1>3. ASSUME NEW p \in Procs, Stop(p) \/ Crash(p) PROVE CacheInv'
  BY <1>2, <1>3 DEF Stop, Crash, disk
<1>4. ASSUME NEW p \in Procs, NEW d \in Docs, NEW bypass \in BOOLEAN, Lookup(p, d, bypass)
      PROVE CacheInv'
  <2>1. rewritten' \in {rewritten, rewritten \cup {fileOf[d]}} /\ UNCHANGED fileOf
    BY <1>4 DEF Lookup
  <2>2. rewritten' \subseteq Paths
    BY <2>1
  <2> QED
    BY <1>4, <2>1, <2>2 DEF Lookup, Moves, disk
<1>5. ASSUME NEW p \in Procs, Answered(p) PROVE CacheInv'
  BY <1>5 DEF Answered, Moves, disk, ghosts, Order
<1>6. ASSUME NEW p \in Procs, FetchRaises(p), pc[p] # "saving", UNCHANGED <<disk, ghosts>>
      PROVE CacheInv'
  <2>1. CASE Forgets(p)
    BY <1>6, <2>1 DEF Forgets, Moves, disk, ghosts
  <2> QED
    BY <1>2, <1>6, <2>1 DEF FetchRaises, disk
<1>7. ASSUME NEW p \in Procs, BusyAnswer(p) \/ RequestRaises(p) \/ RenameRaises(p) PROVE CacheInv'
  <2>1. CASE pc[p] = "asking" /\ Moves(p, "again") /\ UNCHANGED <<cache, disk, ghosts>>
    BY <2>1 DEF Moves, cache, disk, ghosts
  <2> QED
    BY <1>6, <1>7, <2>1 DEF BusyAnswer, RequestRaises, RenameRaises, SecondBusy
<1>8. ASSUME NEW p \in Procs, OpenDocument(p) PROVE CacheInv'
  BY <1>8 DEF OpenDocument, Moves, cache, ghosts, PathOf
<1>9. ASSUME NEW p \in Procs, WriteDocument(p) PROVE CacheInv'
  BY <1>9 DEF WriteDocument, Moves, After, Order, cache, ghosts, PathOf, Written
<1>10. ASSUME NEW p \in Procs, OpenIndex(p) PROVE CacheInv'
  BY <1>10 DEF OpenIndex, OpensTmp, Moves, ghosts
<1>11. ASSUME NEW p \in Procs, WriteIndex(p) PROVE CacheInv'
  BY SMTT(30), <1>11 DEF WriteIndex, Moves, cache, ghosts, Written, Whole
<1>12. ASSUME NEW p \in Procs, RenameIndex(p) PROVE CacheInv'
  BY <1>12 DEF RenameIndex, Renamed, After, Order, Moves, cache, ghosts
<1>13. ASSUME NEW p \in Procs, CallerReads(p) PROVE CacheInv'
  BY <1>13 DEF CallerReads, Forgets, Moves, disk, ghosts
<1>14. ASSUME NEW p \in Procs, StartRaises(p) PROVE CacheInv'
  BY <1>0, <1>14 DEF StartRaises
<1> QED
  BY <1>0, <1>1, <1>3, <1>4, <1>5, <1>7, <1>8, <1>9, <1>10, <1>11, <1>12, <1>13, <1>14 DEF Next

(* The type of the state: a busy page is a possible content of a file and an entry,
   and is never one (CacheInv leaves it out).                                *)
THEOREM CacheTypes == Spec => []TypeOK
<1>1. CacheInv => TypeOK
  <2> SUFFICES ASSUME CacheInv PROVE TypeOK
    OBVIOUS
  <2> USE DEF CacheInv
  <2>1. Listing \subseteq Entries /\ {index, tmp} \subseteq [kind : {"none", "whole", "blank", "torn"}, entries : Entries]
    BY DEF Listing, Entries, IndexFiles
  <2> QED
    BY <2>1 DEF TypeOK, Stages, Contents
<1> QED
  BY <1>1, CacheInit, CacheStep, PTL DEF Spec

-----------------------------------------------------------------------------
(* The file of a document is made before it is listed, and no file is ever
   removed: not while a listing is still in memory or in index.json.tmp either. *)
IsStored(entries) == \A d \in Docs : entries[d] # None => file[fileOf[d]] # None

StoredInv ==
  /\ IsStored(index.entries) /\ IsStored(tmp.entries)
  /\ \A p \in Procs : /\ IsStored(mem[p])
                      /\ pc[p] \in Placed => file[fileOf[want[p]]] # None

(* A step that stores what it stored and lists what was listed.            *)
LEMMA StoredKept ==
  ASSUME CacheInv, StoredInv,
         \A f \in Paths : file[f] # None => file'[f] # None, fileOf' = fileOf,
         \A x \in {index', tmp'} :
            x \in {index, tmp} \cup {Kind(k) : k \in {"none", "blank", "torn"}}
                              \cup {Whole(mem[p]) : p \in Procs},
         \A p \in Procs : /\ mem'[p] \in {mem[p], index.entries, NoEntries}
                          /\ pc'[p] \in Placed => pc[p] \in Placed /\ want'[p] = want[p]
  PROVE  StoredInv'
<1> USE DEF StoredInv, IsStored
<1>1. \A x \in {index', tmp'} : \A d \in Docs : x.entries[d] # None => file'[fileOf[d]] # None
  BY DEF Kind, Whole, NoEntries, CacheInv
<1>2. ASSUME NEW p \in Procs, NEW d \in Docs, mem'[p][d] # None PROVE file'[fileOf[d]] # None
  <2>1. NoEntries[d] = None
    BY DEF NoEntries
  <2>2. mem[p][d] # None \/ index.entries[d] # None
    BY <1>2, <2>1
  <2> QED
    BY <2>2 DEF CacheInv
<1>3. ASSUME NEW p \in Procs, pc'[p] \in Placed PROVE file'[fileOf[want'[p]]] # None
  <2>1. want[p] \in Docs /\ want'[p] = want[p] /\ file[fileOf[want[p]]] # None
    BY <1>3 DEF CacheInv, Placed
  <2> QED
    BY <2>1 DEF CacheInv
<1> QED
  BY <1>1, <1>2, <1>3

LEMMA StoredStep == CacheInv /\ StoredInv /\ [Next]_vars => StoredInv'
<1> SUFFICES ASSUME CacheInv, StoredInv, [Next]_vars PROVE StoredInv'
  OBVIOUS
<1> USE DEF Placed, ghosts
<1>0. CASE UNCHANGED vars
  BY <1>0, StoredKept DEF vars, cache, disk, ghosts
<1>1. ASSUME NEW p \in Procs, Start(p) PROVE StoredInv'
  BY <1>1, StoredKept DEF Start, Moves, LoadedIndex, disk, CacheInv
<1>2. ASSUME NEW p \in Procs, Ends(p), UNCHANGED <<file, index, tmp, ghosts>> PROVE StoredInv'
  BY <1>2, StoredKept DEF Ends, Moves, CacheInv
<1>3. ASSUME NEW p \in Procs, Stop(p) \/ Crash(p) PROVE StoredInv'
  BY <1>2, <1>3 DEF Stop, Crash, disk
<1>4. ASSUME NEW p \in Procs, NEW d \in Docs, NEW bypass \in BOOLEAN, Lookup(p, d, bypass)
      PROVE StoredInv'
  BY <1>4 DEF Lookup, Hit, PathOf, Moves, disk, CacheInv, StoredInv, IsStored
<1>5. ASSUME NEW p \in Procs, Answered(p) PROVE StoredInv'
  BY <1>5, StoredKept DEF Answered, Moves, disk, Order, CacheInv
<1>6. ASSUME NEW p \in Procs, FetchRaises(p), UNCHANGED <<disk, ghosts>> PROVE StoredInv'
  <2>1. CASE Forgets(p)
    BY <1>6, <2>1, StoredKept DEF Forgets, Moves, disk, CacheInv
  <2> QED
    BY <1>2, <1>6, <2>1 DEF FetchRaises, disk
<1>7. ASSUME NEW p \in Procs, BusyAnswer(p) \/ RequestRaises(p) \/ RenameRaises(p) PROVE StoredInv'
  <2>1. CASE pc[p] = "asking" /\ Moves(p, "again") /\ UNCHANGED <<cache, disk, ghosts>>
    BY <2>1, StoredKept DEF Moves, cache, disk, CacheInv
  <2> QED
    BY <1>6, <1>7, <2>1 DEF BusyAnswer, RequestRaises, RenameRaises, SecondBusy
<1>8. ASSUME NEW p \in Procs, OpenDocument(p) PROVE StoredInv'
  BY <1>8, BodiesAreContents DEF OpenDocument, Moves, cache, PathOf, CacheInv, StoredInv, IsStored
<1>9. ASSUME NEW p \in Procs, WriteDocument(p) PROVE StoredInv'
  BY <1>9, BodiesAreContents
     DEF WriteDocument, Moves, After, Order, cache, PathOf, Written, CacheInv, Writing, StoredInv, IsStored
<1>10. ASSUME NEW p \in Procs, OpenIndex(p) PROVE StoredInv'
  BY <1>10 DEF OpenIndex, OpensTmp, Moves, Kind, NoEntries, CacheInv, Listing, StoredInv, IsStored
<1>11. ASSUME NEW p \in Procs, WriteIndex(p) PROVE StoredInv'
  BY <1>11, StoredKept DEF WriteIndex, Moves, cache, Written, CacheInv
<1>12. ASSUME NEW p \in Procs, RenameIndex(p) PROVE StoredInv'
  BY <1>12, StoredKept DEF RenameIndex, After, Order, Moves, cache, CacheInv
<1>13. ASSUME NEW p \in Procs, CallerReads(p) PROVE StoredInv'
  BY <1>13, StoredKept DEF CallerReads, Forgets, Moves, disk, CacheInv
<1>14. ASSUME NEW p \in Procs, StartRaises(p) PROVE StoredInv'
  BY <1>0, <1>14 DEF StartRaises
<1> QED
  BY <1>0, <1>1, <1>3, <1>4, <1>5, <1>7, <1>8, <1>9, <1>10, <1>11, <1>12, <1>13, <1>14 DEF Next

(* However many processes share the directory and whoever dies when, a document
   that an index lists, on disk or in memory, has a file (cache.py write).   *)
THEOREM ListedAreStored == Spec => []ListedIsStored
<1>1. Init => StoredInv
  BY DEF Init, StoredInv, IsStored, Placed, Kind, NoEntries
<1>2. StoredInv => ListedIsStored
  BY DEF StoredInv, IsStored, ListedIsStored, PathOf
<1> QED
  BY <1>1, <1>2, CacheInit, CacheStep, StoredStep, PTL DEF Spec


-----------------------------------------------------------------------------
(* While processes come one after another, the one that is alive knows at least
   the entries of the disk; an entry matches its file unless the file is
   being fetched, which it is only without an entry, or was asked for again; and
   index.json.tmp holds what this process wrote.                             *)
Matches(entries) ==
  \A d \in Docs : (fileOf[d] \notin rewritten /\ entries[d] # None) => file[fileOf[d]] = entries[d]

Knows(p) == \A d \in Docs : index.entries[d] # None => mem[p][d] # None

InOrder(p) ==
  /\ pc[p] = "saving" => tmpFile[p] = "tmp" /\ tmp = Kind("blank")
  /\ pc[p] = "renaming" => tmp = Whole(mem[p])
  /\ pc[p] = "filling" => file[fileOf[want[p]]] = Blank
  /\ pc[p] = "indexing" => file[fileOf[want[p]]] = got[p]
  /\ (pc[p] \in Fetching /\ fileOf[want[p]] \notin rewritten) => ~Known(p, fileOf[want[p]])
  /\ pc[p] \in {"saving", "renaming", "returned"} => mem[p][want[p]] # None

Alone(p) ==
  /\ \A q \in Procs \ {p} : pc[q] = "off"
  /\ Knows(p) /\ Matches(mem[p]) /\ InOrder(p)

IndexInv == index.kind \in {"none", "whole"} /\ Matches(index.entries)

AloneInv == ~shared => IndexInv /\ \A p \in Procs : pc[p] # "off" => Alone(p)

CacheAndAlone == CacheInv /\ StoredInv /\ AloneInv

(* A step of a process that is alive is followed by the same picture if the
   step keeps it for this process.                                           *)
LEMMA AloneKept ==
  ASSUME CacheInv, NEW p \in Procs, pc' = [pc EXCEPT ![p] = pc'[p]],
         pc[p] # "off" \/ \A q \in Procs \ {p} : pc[q] = "off",
         AloneInv, ~shared,
         IndexInv', pc'[p] # "off" => Knows(p)' /\ Matches(mem[p])' /\ InOrder(p)'
  PROVE  AloneInv'
<1>1. \A q \in Procs \ {p} : pc[q] = "off"
  BY DEF AloneInv, Alone
<1>2. \A q \in Procs \ {p} : pc'[q] = "off"
  BY <1>1 DEF CacheInv
<1>3. ASSUME NEW q \in Procs, pc'[q] # "off" PROVE Alone(q)'
  <2>1. q = p
    BY <1>2, <1>3
  <2> QED
    BY <1>2, <1>3, <2>1 DEF Alone
<1> QED
  BY <1>3 DEF AloneInv


LEMMA AloneStep == CacheAndAlone /\ [Next]_vars => AloneInv'
<1> SUFFICES ASSUME CacheAndAlone, [Next]_vars, ~shared' PROVE AloneInv'
  BY DEF AloneInv
<1> USE DEF CacheAndAlone
<1>0. CASE UNCHANGED vars
  BY <1>0 DEF vars, cache, disk, ghosts, AloneInv, IndexInv, Alone, Knows, Matches, InOrder,
              Known
<1>1. ASSUME NEW p \in Procs, Start(p) PROVE AloneInv'
  <2>1. /\ ~shared /\ \A q \in Procs \ {p} : pc[q] = "off"
        /\ pc' = [pc EXCEPT ![p] = pc'[p]] /\ pc'[p] = "ready"
        /\ mem'[p] = index.entries /\ index' = index /\ UNCHANGED <<file, fileOf, rewritten>>
    BY <1>1 DEF Start, Moves, LoadedIndex, disk, CacheInv
  <2>2. IndexInv
    BY <2>1 DEF AloneInv
  <2>3. IndexInv' /\ Knows(p)' /\ Matches(mem[p])' /\ InOrder(p)'
    BY <2>1, <2>2 DEF IndexInv, Knows, Matches, InOrder, Fetching
  <2> QED
    BY <2>1, <2>3, AloneKept
<1>2. ASSUME NEW p \in Procs, pc[p] # "off", UNCHANGED <<file, index, ghosts>>,
             pc' = [pc EXCEPT ![p] = pc'[p]], pc'[p] \in {"off", "ready"},
             pc'[p] = "ready" => mem' = mem
      PROVE AloneInv'
  <2>1. ~shared /\ IndexInv /\ Alone(p)
    BY <1>2 DEF AloneInv, ghosts
  <2>2. IndexInv'
    BY <1>2, <2>1 DEF IndexInv, Matches, ghosts
  <2>3. ASSUME pc'[p] # "off"
        PROVE  Knows(p)' /\ Matches(mem[p])' /\ InOrder(p)'
    BY <1>2, <2>1, <2>3 DEF Alone, Knows, Matches, InOrder, Fetching, ghosts
  <2> QED
    BY <1>2, <2>1, <2>2, <2>3, AloneKept
<1>3. ASSUME NEW p \in Procs, Stop(p) \/ Crash(p) PROVE AloneInv'
  BY <1>2, <1>3 DEF Stop, Crash, Ends, Moves, disk, ghosts, CacheInv
<1>4. ASSUME NEW p \in Procs, FetchRaises(p), pc[p] # "off", UNCHANGED <<disk, ghosts>> PROVE AloneInv'
  BY <1>2, <1>4 DEF FetchRaises, Ends, Forgets, Moves, disk, CacheInv
<1>5. ASSUME NEW p \in Procs, RequestRaises(p) \/ RenameRaises(p) \/ CallerReads(p) PROVE AloneInv'
  BY <1>4, <1>5 DEF RequestRaises, RenameRaises, CallerReads, FetchRaises
(* The steps of a fetch, of a process p that is alone.                     *)
<1>6. ASSUME NEW p \in Procs, pc[p] # "off", UNCHANGED ghosts, pc' = [pc EXCEPT ![p] = pc'[p]],
             ~shared /\ IndexInv /\ Alone(p)
               => IndexInv' /\ Knows(p)' /\ Matches(mem[p])' /\ InOrder(p)'
      PROVE  AloneInv'
  BY <1>6, AloneKept DEF AloneInv, ghosts
<1> USE DEF IndexInv, Alone, Knows, Matches, InOrder, Fetching, ghosts
<1>7. ASSUME NEW p \in Procs, NEW d \in Docs, NEW bypass \in BOOLEAN, Lookup(p, d, bypass)
      PROVE AloneInv'
  <2>1. ~shared /\ IndexInv /\ Alone(p)
    BY <1>7 DEF Lookup, AloneInv
  <2>2. /\ pc' = [pc EXCEPT ![p] = pc'[p]] /\ pc'[p] \in {"asking", "returned"}
        /\ want'[p] = d /\ UNCHANGED <<mem, file, index, tmp, tmpFile>>
        /\ pc'[p] = "returned" => mem[p][d] # None
        /\ (pc'[p] = "asking" /\ fileOf[d] \notin rewritten') => ~Known(p, fileOf[d])
        /\ rewritten \subseteq rewritten' /\ fileOf' = fileOf
    BY <1>7 DEF Lookup, Moves, Hit, PathOf, disk, CacheInv
  <2>3. Known(p, fileOf[d])' = Known(p, fileOf[d])
    BY <2>2 DEF Known
  <2>4. IndexInv' /\ Knows(p)' /\ Matches(mem[p])' /\ InOrder(p)'
    BY <2>1, <2>2, <2>3
  <2> QED
    BY <1>7, <2>1, <2>2, <2>4, AloneKept DEF Lookup
<1>8. ASSUME NEW p \in Procs, Answered(p) \/ BusyAnswer(p) PROVE AloneInv'
  <2>1. CASE Answered(p)
    BY <1>6, <2>1 DEF Answered, Moves, disk, Order, CacheInv, Known
  <2>2. CASE BusyAnswer(p) /\ pc[p] = "asking" /\ Moves(p, "again") /\ UNCHANGED cache
    BY <1>6, <2>2 DEF BusyAnswer, Moves, disk, cache, CacheInv, Known
  <2> QED
    BY <1>4, <1>8, <2>1, <2>2 DEF BusyAnswer, SecondBusy
<1>9. ASSUME NEW p \in Procs, OpenDocument(p) PROVE AloneInv'
  <2>1. /\ pc' = [pc EXCEPT ![p] = "filling"] /\ file' = [file EXCEPT ![fileOf[want[p]]] = Blank]
        /\ UNCHANGED <<mem, want, got, index, tmp, tmpFile, ghosts>> /\ pc[p] = "document"
        /\ want[p] \in Docs
    BY <1>9 DEF OpenDocument, Moves, PathOf, cache, CacheInv
  <2>2. ~shared /\ Alone(p) => \A d \in Docs :
           (fileOf[d] \notin rewritten /\ (mem[p][d] # None \/ index.entries[d] # None))
             => fileOf[d] # fileOf[want[p]]
    BY <2>1 DEF Known
  <2> QED
    BY <1>6, <2>1, <2>2 DEF CacheInv, Known
<1>10. ASSUME NEW p \in Procs, WriteDocument(p) PROVE AloneInv'
  <2>1. /\ pc[p] = "filling" /\ pc' = [pc EXCEPT ![p] = "indexing"]
        /\ UNCHANGED <<mem, want, got, index, tmp, tmpFile, ghosts>>
        /\ want[p] \in Docs
        /\ file[fileOf[want[p]]] = Blank => file' = [file EXCEPT ![fileOf[want[p]]] = got[p]]
    BY <1>10 DEF WriteDocument, Moves, Written, After, Order, PathOf, cache, CacheInv
  <2>2. ASSUME ~shared, IndexInv, Alone(p)
        PROVE  IndexInv' /\ Knows(p)' /\ Matches(mem[p])' /\ InOrder(p)'
    <3>1. file' = [file EXCEPT ![fileOf[want[p]]] = got[p]]
      BY <2>1, <2>2
    <3>2. ASSUME NEW d \in Docs, fileOf[d] \notin rewritten,
                 mem[p][d] # None \/ index.entries[d] # None
          PROVE  file'[fileOf[d]] = file[fileOf[d]]
      BY <2>1, <2>2, <3>1, <3>2 DEF Known
    <3>3. IndexInv' /\ Knows(p)' /\ Matches(mem[p])'
      BY <2>1, <2>2, <3>2
    <3>4. InOrder(p)'
      BY <2>1, <2>2, <3>1 DEF CacheInv, Known
    <3> QED
      BY <3>3, <3>4
  <2> QED
    BY <1>6, <2>1, <2>2
<1>11. ASSUME NEW p \in Procs, OpenIndex(p) PROVE AloneInv'
  <2>1. /\ pc[p] = "indexing" /\ pc' = [pc EXCEPT ![p] = "saving"]
        /\ mem' = [mem EXCEPT ![p][want[p]] = got[p]] /\ got[p] # None /\ want[p] \in Docs
        /\ tmp' = Kind("blank") /\ tmpFile' = [tmpFile EXCEPT ![p] = "tmp"]
        /\ UNCHANGED <<want, got, file, index, ghosts>>
    BY <1>11, BodiesAreContents DEF OpenIndex, OpensTmp, Moves, CacheInv, Writing
  <2>2. ASSUME ~shared, IndexInv, Alone(p)
        PROVE  IndexInv' /\ Knows(p)' /\ Matches(mem[p])' /\ InOrder(p)'
    <3>1. \A d \in Docs : mem'[p][d] = IF d = want[p] THEN got[p] ELSE mem[p][d]
      BY <2>1 DEF CacheInv, Listing
    <3>2. IndexInv' /\ Knows(p)'
      BY <2>1, <2>2, <3>1
    <3>3. Matches(mem[p])'
      BY <2>1, <2>2, <3>1
    <3>4. InOrder(p)'
      BY <2>1, <2>2, <3>1 DEF CacheInv
    <3> QED
      BY <3>2, <3>3, <3>4
  <2> QED
    BY <1>6, <2>1, <2>2
<1>12. ASSUME NEW p \in Procs, WriteIndex(p) PROVE AloneInv'
  <2>1. /\ pc[p] = "saving" /\ pc' = [pc EXCEPT ![p] = "renaming"]
        /\ tmpFile[p] = "tmp" /\ tmp = Kind("blank") => UNCHANGED index /\ tmp' = Whole(mem[p])
        /\ UNCHANGED <<mem, want, got, file, ghosts>>
    BY <1>12 DEF WriteIndex, Moves, Written, cache
  <2>2. ASSUME ~shared, IndexInv, Alone(p)
        PROVE  IndexInv' /\ Knows(p)' /\ Matches(mem[p])' /\ InOrder(p)'
    <3>1. UNCHANGED index /\ tmp' = Whole(mem[p])
      BY <2>1, <2>2
    <3>2. IndexInv' /\ Knows(p)' /\ Matches(mem[p])'
      BY <2>1, <2>2, <3>1
    <3>3. pc'[p] = "renaming"
      BY <2>1 DEF CacheInv
    <3> QED
      BY <2>1, <2>2, <3>1, <3>2, <3>3
  <2> QED
    BY <1>6, <2>1, <2>2
<1>13. ASSUME NEW p \in Procs, RenameIndex(p) PROVE AloneInv'
  <2>1. /\ pc[p] = "renaming" /\ pc' = [pc EXCEPT ![p] = "returned"] /\ index' = tmp
        /\ UNCHANGED <<mem, want, got, file, ghosts>>
    BY <1>13 DEF RenameIndex, Moves, After, Order, cache
  <2>2. ASSUME ~shared, IndexInv, Alone(p)
        PROVE  IndexInv' /\ Knows(p)' /\ Matches(mem[p])' /\ InOrder(p)'
    <3>1. index'.kind = "whole" /\ index'.entries = mem[p]
      BY <2>1, <2>2 DEF Whole
    <3>2. IndexInv' /\ Knows(p)' /\ Matches(mem[p])'
      BY <2>1, <2>2, <3>1
    <3>3. pc'[p] = "returned"
      BY <2>1 DEF CacheInv
    <3> QED
      BY <2>1, <2>2, <3>2, <3>3
  <2> QED
    BY <1>6, <2>1, <2>2
<1>14. ASSUME NEW p \in Procs, StartRaises(p) PROVE AloneInv'
  BY <1>0, <1>14 DEF StartRaises
<1> QED
  BY <1>0, <1>1, <1>3, <1>5, <1>7, <1>8, <1>9, <1>10, <1>11, <1>12, <1>13, <1>14 DEF Next

LEMMA CacheIsSafe == Spec => []CacheAndAlone
<1>1. Init => CacheAndAlone
  <2>1. Init => StoredInv
    BY DEF Init, StoredInv, IsStored, Placed, Kind, NoEntries
  <2>2. Init => AloneInv
    BY DEF Init, AloneInv, IndexInv, Matches, Kind, NoEntries
  <2> QED
    BY <2>1, <2>2, CacheInit DEF CacheAndAlone
<1>2. CacheAndAlone /\ [Next]_vars => CacheAndAlone'
  BY CacheStep, StoredStep, AloneStep DEF CacheAndAlone
<1> QED
  BY <1>1, <1>2, PTL DEF Spec

(* With one process at a time, a crash at any step leaves an index.json that the
   next one can load (docs/plans/2026-05-04-task3-toolbox-design.md:95).     *)
THEOREM IndexAlwaysLoads == Spec => []IndexLoads
<1>1. CacheAndAlone => IndexLoads
  BY DEF CacheAndAlone, AloneInv, IndexInv, IndexLoads
<1> QED
  BY <1>1, CacheIsSafe, PTL

(* The hash of an entry is that of its file, over crashes and restarts, unless the
   file was asked for again past its entry: by a refresh, or under another spelling
   of the CIK or the accession (cache.py write, endpoints.py archive).       *)
THEOREM EntriesAreOfFiles == Spec => []EntriesMatchFiles
<1>1. CacheAndAlone => EntriesMatchFiles
  BY DEF CacheAndAlone, AloneInv, IndexInv, Matches, EntriesMatchFiles, PathOf
<1> QED
  BY <1>1, CacheIsSafe, PTL

(* What the caller of a fetch reads is an answer of the SEC, and whole, unless its
   file was asked for again past its entry (fetch.py _go, client.py _request,
   cache.py write).                                                          *)
THEOREM CallersReadAnswers == Spec => []ReadsAreAnswers
<1>1. ASSUME CacheAndAlone, NEW p \in Procs, pc[p] = "returned", ~shared,
             fileOf[want[p]] \notin rewritten
      PROVE  file[fileOf[want[p]]] \in Bodies
  <2>1. Alone(p) /\ want[p] \in Docs /\ mem[p][want[p]] \in Bodies \cup {None}
    BY <1>1 DEF CacheAndAlone, CacheInv, AloneInv, Listing
  <2>2. mem[p][want[p]] # None
    BY <1>1, <2>1 DEF Alone, InOrder
  <2> QED
    BY <1>1, <2>1, <2>2 DEF Alone, Matches
<1>2. CacheAndAlone => ReadsAreAnswers
  BY <1>1 DEF ReadsAreAnswers, PathOf
<1> QED
  BY <1>2, CacheIsSafe, PTL

(* With one process at a time no step loses an entry: the index that is renamed
   over the old one was written from a memory that holds all of it.          *)
THEOREM NoEntryIsLost == Spec => EntriesSurvive
<1>1. ASSUME CacheAndAlone, [Next]_vars, ~shared', NEW d \in Docs, index.entries[d] # None
      PROVE  index'.entries[d] # None
  <2>1. CASE UNCHANGED index
    BY <1>1, <2>1
  <2>2. ASSUME NEW p \in Procs, pc[p] # "off", UNCHANGED ghosts PROVE Alone(p)
    BY <1>1, <2>2 DEF CacheAndAlone, AloneInv, ghosts
  <2>3. ASSUME NEW p \in Procs, WriteIndex(p) PROVE UNCHANGED index
    <3>1. Alone(p)
      BY <2>2, <2>3 DEF WriteIndex
    <3> QED
      BY <2>3, <3>1 DEF WriteIndex, Alone, InOrder
  <2>4. ASSUME NEW p \in Procs, RenameIndex(p) PROVE index'.entries = mem[p] /\ Knows(p)
    <3>1. Alone(p)
      BY <2>2, <2>4 DEF RenameIndex
    <3> QED
      BY <2>4, <3>1 DEF RenameIndex, Alone, InOrder, Whole
  <2>5. ASSUME ~ \E p \in Procs : WriteIndex(p) \/ RenameIndex(p) PROVE UNCHANGED index
    BY <1>1, <2>5
       DEF Next, Start, StartRaises, Stop, Lookup, Answered, BusyAnswer, RequestRaises,
           OpenDocument, WriteDocument, OpenIndex, OpensTmp, RenameRaises, CallerReads,
           Crash, disk, vars
  <2> QED
    BY <1>1, <2>1, <2>3, <2>4, <2>5 DEF Knows
<1>2. CacheAndAlone /\ [Next]_vars
        => [~shared' => \A d \in Docs : index.entries[d] # None => index'.entries[d] # None]_vars
  BY <1>1
<1> QED
  BY <1>2, CacheIsSafe, PTL DEF Spec, EntriesSurvive

=============================================================================
