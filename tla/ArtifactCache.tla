---------------------------- MODULE ArtifactCache ----------------------------
(***************************************************************************)
(* The node's cache of snapshot artifacts (src/snapshot/artifact_cache.rs): *)
(* an index of files with reference counts under one mutex, a map of the    *)
(* fetches that run under another, and the files themselves, which no lock  *)
(* guards.  Each request wants the file of one key, holds it for a while    *)
(* and lets go; a fetch that fills the cache starts an eviction.            *)
(*                                                                          *)
(* A step is one critical section, one file operation or one await; between *)
(* two of them other requests run.  A fetch writes its file whole.          *)
(***************************************************************************)
EXTENDS Naturals, FiniteSets, Sequences, SequencesExt

CONSTANTS Request, Key,
          KeyOf,         \* the key each request wants
          Size,          \* of the file of each key
          MaxSize, TargetSize,
          CancelPoints,  \* where the client of a request may go away
          NoRequest

ASSUME CacheAssumption ==
  /\ KeyOf \in [Request -> Key] /\ Size \in [Key -> Nat \ {0}]
  /\ MaxSize \in Nat /\ TargetSize \in 0 .. MaxSize
  /\ CancelPoints \subseteq {"exists", "inflight", "wait", "fetch", "unlist", "stat"}

VARIABLES entries,       \* the keys of the index
          refs,          \* their reference counts
          recent,        \* the keys in the order of their last use
          totalSize,
          files,         \* the keys whose file exists
          inflight,      \* per key, the request whose fetch is listed
          result,        \* of each fetch: "none", "ok", "failed" or "dropped"
          pc, path,      \* of each request; "ensure" or "pin"
          awaited,       \* the fetch a request waits for
          evict,         \* of the eviction a request has started
          candidates, removals

indexVars == <<entries, refs, recent, totalSize>>
requestVars == <<pc, path, awaited>>
evictVars == <<evict, candidates, removals>>
vars == <<indexVars, files, inflight, result, requestVars, evictVars>>

TypeOK ==
  /\ entries \subseteq Key /\ files \subseteq Key
  /\ refs \in [Key -> Nat] /\ totalSize \in Nat
  /\ recent \in Seq(Key)
  /\ inflight \in [Key -> Request \cup {NoRequest}]
  /\ result \in [Request -> {"none", "ok", "failed", "dropped"}]
  /\ pc \in [Request -> {"start", "try", "exists", "inflight", "wait", "fetch", "insert",
                         "send", "refuse", "unlist", "limit", "stat", "pin", "held",
                         "released", "failed"}]
  /\ path \in [Request -> {"ensure", "pin"}]
  /\ awaited \in [Request -> Request \cup {NoRequest}]
  /\ evict \in [Request -> {"none", "list", "mark", "remove"}]
  /\ candidates \in [Request -> Seq(Key)] /\ removals \in [Request -> Seq(Key)]

Init ==
  /\ entries = {} /\ refs = [k \in Key |-> 0] /\ recent = <<>> /\ totalSize = 0
  /\ files \in SUBSET Key      \* what an earlier process has left
  /\ inflight = [k \in Key |-> NoRequest]
  /\ result = [r \in Request |-> "none"]
  /\ pc = [r \in Request |-> "start"]
  /\ path = [r \in Request |-> "ensure"]
  /\ awaited = [r \in Request |-> NoRequest]
  /\ evict = [r \in Request |-> "none"]
  /\ candidates = [r \in Request |-> <<>>]
  /\ removals = [r \in Request |-> <<>>]

Goto(r, l) == pc' = [pc EXCEPT ![r] = l]
Minus(a, b) == IF a < b THEN 0 ELSE a - b
Used(k) == Append(SelectSeq(recent, LAMBDA j : j # k), k)

------------------------------------------------------------------------------
Call(r) ==
  /\ pc[r] = "start"
  /\ Goto(r, "try")
  /\ UNCHANGED <<indexVars, files, inflight, result, path, awaited, evictVars>>

\* try_acquire: an entry whose file is gone is dropped, whoever holds it.
TryAcquire(r) ==
  LET k == KeyOf[r] IN
  /\ pc[r] = "try"
  /\ \/ /\ k \in entries /\ k \in files
        /\ refs' = [refs EXCEPT ![k] = @ + 1]
        /\ recent' = Used(k)
        /\ Goto(r, "held")
        /\ UNCHANGED <<entries, totalSize>>
     \/ /\ k \in entries /\ k \notin files
        /\ entries' = entries \ {k}
        /\ totalSize' = Minus(totalSize, Size[k])
        /\ Goto(r, IF path[r] = "ensure" THEN "exists" ELSE "inflight")
        /\ UNCHANGED <<refs, recent>>
     \/ /\ k \notin entries
        /\ Goto(r, IF path[r] = "ensure" THEN "exists" ELSE "inflight")
        /\ UNCHANGED indexVars
  /\ UNCHANGED <<files, inflight, result, path, awaited, evictVars>>

\* ensure_cached_at finds a file that is not indexed and goes on in pin_local_file.
FileExists(r) ==
  /\ pc[r] = "exists"
  /\ IF KeyOf[r] \in files
     THEN path' = [path EXCEPT ![r] = "pin"] /\ Goto(r, "try")
     ELSE Goto(r, "inflight") /\ UNCHANGED path
  /\ UNCHANGED <<indexVars, files, inflight, result, awaited, evictVars>>

\* Mutant: the fetch is listed without a look at the list.
JoinOrFetchAlways(r) ==
  /\ pc[r] = "inflight"
  /\ inflight' = [inflight EXCEPT ![KeyOf[r]] = IF path[r] = "ensure" THEN r ELSE @]
  /\ Goto(r, IF path[r] = "ensure" THEN "fetch" ELSE "stat")
  /\ UNCHANGED <<indexVars, files, result, path, awaited, evictVars>>

\* Under the lock of the fetches: wait for the one that is listed, or else list
\* one's own, or, to pin a file, go on without.
JoinOrFetch(r) ==
  LET k == KeyOf[r] IN
  /\ pc[r] = "inflight"
  /\ \/ /\ inflight[k] # NoRequest
        /\ awaited' = [awaited EXCEPT ![r] = inflight[k]]
        /\ Goto(r, "wait")
        /\ UNCHANGED inflight
     \/ /\ inflight[k] = NoRequest /\ path[r] = "ensure"
        /\ inflight' = [inflight EXCEPT ![k] = r]
        /\ Goto(r, "fetch")
        /\ UNCHANGED awaited
     \/ /\ inflight[k] = NoRequest /\ path[r] = "pin"
        /\ Goto(r, "stat")
        /\ UNCHANGED <<inflight, awaited>>
  /\ UNCHANGED <<indexVars, files, result, path, evictVars>>

\* wait_for_inflight_result, then the loop again, or an error.
Awaited(r) ==
  /\ pc[r] = "wait" /\ result[awaited[r]] # "none"
  /\ Goto(r, IF result[awaited[r]] = "ok" THEN "try" ELSE "failed")
  /\ awaited' = [awaited EXCEPT ![r] = NoRequest]
  /\ UNCHANGED <<indexVars, files, inflight, result, path, evictVars>>

\* The directory is made, which may fail at once and drops the sender, then the
\* file is fetched.
Fetch(r) ==
  /\ pc[r] = "fetch"
  /\ \/ files' = files \cup {KeyOf[r]} /\ Goto(r, "insert") /\ UNCHANGED result
     \/ Goto(r, "refuse") /\ UNCHANGED <<files, result>>
     \/ /\ result' = [result EXCEPT ![r] = "dropped"]
        /\ Goto(r, "failed")
        /\ UNCHANGED files
  /\ UNCHANGED <<indexVars, inflight, path, awaited, evictVars>>

\* Mutant: what a replaced entry had added to the size stays in it.
InsertTwice(r) ==
  /\ entries' = entries \cup {KeyOf[r]}
  /\ refs' = [refs EXCEPT ![KeyOf[r]] = 1]
  /\ recent' = Used(KeyOf[r])
  /\ totalSize' = totalSize + Size[KeyOf[r]]

\* An entry with the one reference of the request, in the place of any other.
Insert(r) ==
  /\ entries' = entries \cup {KeyOf[r]}
  /\ refs' = [refs EXCEPT ![KeyOf[r]] = 1]
  /\ recent' = Used(KeyOf[r])
  /\ totalSize' = Size[KeyOf[r]] +
       (IF KeyOf[r] \in entries THEN Minus(totalSize, Size[KeyOf[r]]) ELSE totalSize)

InsertFetched(r) ==
  /\ pc[r] = "insert"
  /\ Insert(r)
  /\ Goto(r, "send")
  /\ UNCHANGED <<files, inflight, result, path, awaited, evictVars>>

\* finish_inflight: the result is sent, then the fetch leaves the list.
Send(r) ==
  /\ pc[r] \in {"send", "refuse"}
  /\ result' = [result EXCEPT ![r] = IF pc[r] = "send" THEN "ok" ELSE "failed"]
  /\ Goto(r, "unlist")
  /\ UNCHANGED <<indexVars, files, inflight, path, awaited, evictVars>>

\* Mutant: a fetch that succeeded stays in the list.
UnlistFailed(r) ==
  /\ pc[r] = "unlist"
  /\ inflight' = [inflight EXCEPT ![KeyOf[r]] = IF result[r] = "ok" THEN @ ELSE NoRequest]
  /\ Goto(r, IF result[r] = "ok" THEN "limit" ELSE "failed")
  /\ UNCHANGED <<indexVars, files, result, path, awaited, evictVars>>

Unlist(r) ==
  /\ pc[r] = "unlist"
  /\ inflight' = [inflight EXCEPT ![KeyOf[r]] = NoRequest]
  /\ Goto(r, IF result[r] = "ok" THEN "limit" ELSE "failed")
  /\ UNCHANGED <<indexVars, files, result, path, awaited, evictVars>>

\* is_over_limit: an eviction is started in the background.
CheckLimit(r) ==
  /\ pc[r] = "limit"
  /\ evict' = [evict EXCEPT ![r] = IF totalSize > MaxSize THEN "list" ELSE "none"]
  /\ Goto(r, "held")
  /\ UNCHANGED <<indexVars, files, inflight, result, path, awaited, candidates, removals>>

\* The rest of pin_local_file: the file is looked at, then indexed.
StatFile(r) ==
  /\ pc[r] = "stat"
  /\ Goto(r, IF KeyOf[r] \in files THEN "pin" ELSE "failed")
  /\ UNCHANGED <<indexVars, files, inflight, result, path, awaited, evictVars>>

PinFile(r) ==
  /\ pc[r] = "pin"
  /\ Insert(r)
  /\ Goto(r, "held")
  /\ UNCHANGED <<files, inflight, result, path, awaited, evictVars>>

\* Mutant: the reference is kept by an entry that others use.
ReleaseLast(r) ==
  LET k == KeyOf[r] IN
  /\ pc[r] = "held"
  /\ refs' = [refs EXCEPT ![k] = IF k \in entries /\ @ = 1 THEN 0 ELSE @]
  /\ Goto(r, "released")
  /\ UNCHANGED <<entries, recent, totalSize, files, inflight, result, path, awaited, evictVars>>

\* The handle is dropped.
Release(r) ==
  LET k == KeyOf[r] IN
  /\ pc[r] = "held"
  /\ refs' = [refs EXCEPT ![k] = IF k \in entries THEN Minus(@, 1) ELSE @]
  /\ Goto(r, "released")
  /\ UNCHANGED <<entries, recent, totalSize, files, inflight, result, path, awaited, evictVars>>

\* The client goes away and the request is dropped where it awaits something,
\* the sender of its result with it.  What a fetch has begun may still happen.
Cancel(r) ==
  /\ pc[r] \in CancelPoints
  /\ result' = [result EXCEPT ![r] = IF pc[r] = "fetch" THEN "dropped" ELSE @]
  /\ files' \in {files} \cup (IF pc[r] = "fetch" THEN {files \cup {KeyOf[r]}} ELSE {})
  /\ Goto(r, "failed")
  /\ UNCHANGED <<indexVars, inflight, path, awaited, evictVars>>

------------------------------------------------------------------------------
\* evict_lru.  The files without references are listed in the order of their last
\* use; under the lock again, those that are still so are taken from the index.
ListCandidates(r) ==
  /\ evict[r] = "list"
  /\ \/ /\ totalSize <= TargetSize
        /\ evict' = [evict EXCEPT ![r] = "none"]
        /\ UNCHANGED candidates
     \/ /\ totalSize > TargetSize
        /\ candidates' = [candidates EXCEPT ![r] =
             SelectSeq(recent, LAMBDA k : k \in entries /\ refs[k] = 0)]
        /\ evict' = [evict EXCEPT ![r] = "mark"]
  /\ UNCHANGED <<indexVars, files, inflight, result, requestVars, removals>>

\* The evictable candidates, up to the one that brings the size to the target.
Evicted(cs) ==
  LET free == SelectSeq(cs, LAMBDA k : k \in entries /\ refs[k] = 0)
      left[n \in 0 .. Len(free)] ==
        IF n = 0 THEN totalSize ELSE Minus(left[n - 1], Size[free[n]])
  IN  SelectSeq(free, LAMBDA k : \E n \in 1 .. Len(free) : free[n] = k /\ left[n - 1] > TargetSize)

MarkEvicted(r) ==
  LET out == Evicted(candidates[r])
      left[n \in 0 .. Len(out)] ==
        IF n = 0 THEN totalSize ELSE Minus(left[n - 1], Size[out[n]])
  IN
  /\ evict[r] = "mark"
  /\ removals' = [removals EXCEPT ![r] = out]
  /\ entries' = entries \ ToSet(out)
  /\ totalSize' = left[Len(out)]
  /\ candidates' = [candidates EXCEPT ![r] = <<>>]
  /\ evict' = [evict EXCEPT ![r] = "remove"]
  /\ UNCHANGED <<refs, recent, files, inflight, result, requestVars>>

\* The files are removed one by one, without the lock.
RemoveFile(r) ==
  /\ evict[r] = "remove"
  /\ IF removals[r] = <<>>
     THEN evict' = [evict EXCEPT ![r] = "none"] /\ UNCHANGED <<files, removals>>
     ELSE /\ files' = files \ {Head(removals[r])}
          /\ removals' = [removals EXCEPT ![r] = Tail(@)]
          /\ UNCHANGED evict
  /\ UNCHANGED <<indexVars, inflight, result, requestVars, candidates>>

RequestStep(r) ==
  \/ TryAcquire(r) \/ FileExists(r) \/ JoinOrFetch(r) \/ Awaited(r) \/ Fetch(r)
  \/ InsertFetched(r) \/ Send(r) \/ Unlist(r) \/ CheckLimit(r) \/ StatFile(r) \/ PinFile(r)

EvictStep(r) == ListCandidates(r) \/ MarkEvicted(r) \/ RemoveFile(r)

Next == \E r \in Request :
          Call(r) \/ RequestStep(r) \/ Release(r) \/ Cancel(r) \/ EvictStep(r)

\* A request that was made runs on, and a fetch comes to its end.
Fairness == \A r \in Request : WF_vars(RequestStep(r))

Spec == Init /\ [][Next]_vars /\ Fairness

------------------------------------------------------------------------------
Holders(k) == {r \in Request : KeyOf[r] = k /\ pc[r] \in {"held", "limit", "unlist", "send"}}

(***************************************************************************)
(* "Fetches are deduplicated: only one fetch per key at a time" (the        *)
(* design invariants of LocalArtifactCache), through fetches that fail, are *)
(* dropped or repeated.                                                     *)
(***************************************************************************)
OneFetch ==
  \A r, q \in Request : r # q /\ KeyOf[r] = KeyOf[q] => ~(pc[r] = "fetch" /\ pc[q] = "fetch")

(***************************************************************************)
(* No reference outlives the request it was counted for, so that a file     *)
(* nobody holds can be evicted: entries that are replaced, dropped and      *)
(* evicted while handles to them exist never count too many (release,       *)
(* try_acquire and the two insertions).                                     *)
(***************************************************************************)
NoPinLeak == \A k \in entries : refs[k] <= Cardinality(Holders(k))

(***************************************************************************)
(* Nor is one forgotten.  It does not hold: an insertion replaces the entry *)
(* that another request has inserted since this one found none, and with it *)
(* that request's count (pin_local_file, finish_inflight).                  *)
(***************************************************************************)
PinsCounted == \A k \in entries : refs[k] >= Cardinality(Holders(k))

(***************************************************************************)
(* The size the limit is tested against is that of the indexed files: an    *)
(* entry that is replaced, dropped for a missing file, or evicted by one of *)
(* two evictions that listed it is counted once.                            *)
(***************************************************************************)
SizeCounted == totalSize = MapThenSumSet(LAMBDA k : Size[k], entries)

(***************************************************************************)
(* Every request comes to an answer, also when the fetch it waits for fails *)
(* or is dropped, or the file is evicted before it gets to it.              *)
(***************************************************************************)
RequestsEnd ==
  \A r \in Request : pc[r] = "try" ~> pc[r] \in {"held", "released", "failed"}

(***************************************************************************)
(* "While held, the underlying file is pinned and will not be evicted by    *)
(* LRU" (CacheHandle) and "Files with `ref_count > 0` are never evicted":   *)
(* the file of a held handle exists.                                        *)
(***************************************************************************)
PinnedExists == \A r \in Request : pc[r] = "held" => KeyOf[r] \in files

(***************************************************************************)
(* "Entries are node-local derived state that can be regenerated or         *)
(* re-fetched": a fetch that is listed is one that somebody still runs.     *)
(***************************************************************************)
Refetchable ==
  \A k \in Key : inflight[k] # NoRequest =>
    pc[inflight[k]] \in {"fetch", "insert", "send", "refuse", "unlist"}
==============================================================================
