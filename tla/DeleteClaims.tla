---------------------------- MODULE DeleteClaims ----------------------------
(***************************************************************************)
(* Every step of a delete, an eviction, a snapshot, a fork and a keep-alive *)
(* is plain, save the ones by which a fork adds its child and an eviction  *)
(* turns to its next sandbox.                                              *)
(***************************************************************************)
EXTENDS ClaimShapes

(* Going on to a kill, with the state it was taken from. *)
LEMMA PrevGoes ==
  ASSUME Tasks, NEW t \in Task, NEW p,
         Becomes(t, [task[t] EXCEPT !.pc = "deleteDetach", !.prev = p])
  PROVE  /\ \A u \in Task \ {t} : task'[u] = task[u]
         /\ Keeps(t, task'[t])
         /\ task'[t].pc = "deleteDetach"
  <1> DEFINE q == [task[t] EXCEPT !.pc = "deleteDetach", !.prev = p]
  <1>1. /\ q.sb = task[t].sb /\ q.child = task[t].child /\ q.rest = task[t].rest
        /\ q.op = task[t].op /\ q.entry = task[t].entry /\ q.locked = task[t].locked
        /\ q.pc = "deleteDetach"
    BY Fields DEF TaskSet
  <1>2. task'[t] = q /\ \A u \in Task \ {t} : task'[u] = task[u]
    BY BecomesOne
  <1> HIDE DEF q
  <1>3. Keeps(t, q)
    BY <1>1, SameKeeps DEF Same, CreateLabels, ForkLabels
  <1>4. QED
    BY <1>1, <1>2, <1>3

(* Going on after a capture that failed. *)
LEMMA CapGoes ==
  ASSUME Tasks, NEW t \in Task,
         Becomes(t, [task[t] EXCEPT !.pc = "deleteStop", !.cap = TRUE])
  PROVE  /\ \A u \in Task \ {t} : task'[u] = task[u]
         /\ Keeps(t, task'[t])
         /\ task'[t].pc = "deleteStop"
  <1> DEFINE q == [task[t] EXCEPT !.pc = "deleteStop", !.cap = TRUE]
  <1>1. /\ q.sb = task[t].sb /\ q.child = task[t].child /\ q.rest = task[t].rest
        /\ q.op = task[t].op /\ q.entry = task[t].entry /\ q.locked = task[t].locked
        /\ q.pc = "deleteStop"
    BY Fields DEF TaskSet
  <1>2. task'[t] = q /\ \A u \in Task \ {t} : task'[u] = task[u]
    BY BecomesOne
  <1> HIDE DEF q
  <1>3. Keeps(t, q)
    BY <1>1, SameKeeps DEF Same, CreateLabels, ForkLabels
  <1>4. QED
    BY <1>1, <1>2, <1>3

-----------------------------------------------------------------------------
(* The steps of a delete and of an eviction are plain, save the one by     *)
(* which the eviction turns to the next sandbox.                           *)

(* Setting the progress of an entry leaves the others alone. *)
LEMMA ProgressOne ==
  ASSUME Shared, NEW t, NEW p, SetProgress(t, p), NEW x \in Sandbox, NEW e \in Task,
         progress'[x][e] # progress[x][e]
  PROVE  x = Sb(t) /\ e = task[t].entry
  BY DEF Shared, SetProgress, Sb

(* Taking the mutex of an entry. *)
LEMMA LockKeeps ==
  ASSUME Tasks, NEW t \in Task, NEW q, ~Locked(Sb(t), task[t].entry),
         q.sb = task[t].sb, q.child = task[t].child, q.rest = task[t].rest,
         q.op = task[t].op, q.entry = task[t].entry,
         q.pc \notin CreateLabels, q.pc \notin ForkLabels
  PROVE  Keeps(t, q)
  BY DEF Keeps, Births, CreateLabels, ForkLabels, Sb

(* A delete past its claim holds the mutex of its entry, and Killing. *)
LEMMA KillerHolds ==
  ASSUME Shared, Tasks, Inv, NEW t \in Task, task[t].pc \in KillLabels
  PROVE  /\ Sb(t) \in Sandbox /\ task[t].locked /\ task[t].entry # None
         /\ Claim(task[t]) = "Killing"
         /\ StateOf(Sb(t)) \in {"Absent", "Killing"}
  <1>1. Sb(t) \in Sandbox /\ task[t].locked /\ task[t].entry # None
    BY Fields, HasSandbox DEF Placed, MutexLabels, KillLabels
  <1>2. Claim(task[t]) = "Killing"
    BY ClaimTable
  <1>3. QED
    BY <1>1, <1>2 DEF Inv, OneClaimant

(* Every step of a delete or an eviction but EvictNext is plain. *)
LEMMA DeletePlain ==
  ASSUME Shared, Tasks, Inv, NEW t \in Task, DeleteStep(t), ~EvictNext(t)
  PROVE  Plain(t)
  <1> USE DEF At, runtimeVars, pinVars, deleteVars, nodeVars
  <1>0. Sb(t) \in Sandbox
    BY ZenonT(60), HasSandbox
    DEF DeleteStep, DeleteLock, DeleteClaim, DeleteWoken, DeleteDetach, Capture,
       DeleteStop, Release, Purge, DeleteEnd, EvictLock, EvictClaim
  <1>1. ASSUME NEW o, Finish(t, o), UNCHANGED <<store, disk, deletions, progress, used, sweep>>
        PROVE  Plain(t)
    BY <1>0, <1>1, Ends, QuietPlain DEF Frame, StateOf
  <1>2. CASE DeleteLock(t)
    <2>1. CASE Progress(t) = "Done"
      BY ZenonT(60), <1>1, <1>2, <2>1 DEF DeleteLock
    <2>2. CASE Progress(t) # "Done"
      <3> DEFINE l == IF Progress(t) = "Capture" THEN "deleteClaim" ELSE "deleteDetach"
                 q == [task[t] EXCEPT !.locked = TRUE, !.prev = "Killing", !.pc = l]
      <3>1. /\ q.sb = task[t].sb /\ q.child = task[t].child /\ q.rest = task[t].rest
            /\ q.op = task[t].op /\ q.entry = task[t].entry /\ q.pc = l
        BY Fields DEF TaskSet
      <3>2. Becomes(t, q)
        BY <1>2, <2>2 DEF DeleteLock
      <3> HIDE DEF q
      <3>3. task'[t] = q /\ \A u \in Task \ {t} : task'[u] = task[u]
        BY <3>2, BecomesOne
      <3>4. Keeps(t, q)
        BY ZenonT(60), <1>2, <3>1, LockKeeps DEF DeleteLock, CreateLabels, ForkLabels
      <3>5. task[t].entry \in Task /\ Progress(t) \in {"Capture", "Stop", "Release", "Done"}
        <4>1. task[t].entry \in Task
          BY <1>2, Fields DEF DeleteLock, Placed, Option
        <4>2. QED
          BY ZenonT(60), <1>0, <4>1 DEF Shared, Progress, Sb
      <3>6. Advances(t, StateOf(Sb(t)), store'[Sb(t)].state, task'[t])
        <4>1. CASE l = "deleteClaim"
          BY ZenonT(60), <1>2, <3>1, <3>3, <4>1, ClaimTable
          DEF Advances, FreeLabels, DeleteLock, StateOf
        <4>2. CASE l = "deleteDetach"
          <5>1. Claim(q) = "Killing"
            BY <3>1, <4>2, ClaimTable DEF KillLabels
          <5>2. Progress(t) \in {"Stop", "Release"}
            BY <2>2, <3>5, <4>2
          <5>3. QED
            BY ZenonT(60), <1>2, <3>3, <3>5, <5>1, <5>2 DEF Advances, DeleteLock, StateOf
        <4>3. QED
          BY <4>1, <4>2
      <3>7. QED
        BY ZenonT(60), <1>0, <1>2, <3>1, <3>3, <3>4, <3>6, FramedPlain
        DEF Frame, DeleteLock, StateOf
    <2>3. QED
      BY <2>1, <2>2
  <1>3. CASE DeleteClaim(t)
    <2>1. /\ \A x \in Sandbox \ {Sb(t)} : store'[x].state = store[x].state
          /\ store'[Sb(t)].state = IF StateOf(Sb(t)) \in {"Running", "Paused"} THEN "Killing"
                                   ELSE StateOf(Sb(t))
      BY ZenonT(60), <1>0, <1>3, CompareAndSetStates DEF DeleteClaim
    <2>2. CASE StateOf(Sb(t)) \in {"Running", "Paused"}
      <3>1. Becomes(t, [task[t] EXCEPT !.pc = "deleteDetach", !.prev = StateOf(Sb(t))])
        BY ZenonT(60), <1>3, <2>2 DEF DeleteClaim
      <3>2. /\ \A u \in Task \ {t} : task'[u] = task[u]
            /\ Keeps(t, task'[t]) /\ task'[t].pc = "deleteDetach"
        BY ZenonT(60), <3>1, PrevGoes
      <3>3. Claim(task'[t]) = "Killing"
        BY <3>2, ClaimTable DEF KillLabels
      <3>4. Frame(t) /\ deletions' = deletions /\ progress' = progress
        BY ZenonT(60), <1>0, <1>3, <2>1, <2>2, <3>2 DEF Frame, DeleteClaim
      <3>5. QED
        BY ZenonT(60), <2>1, <2>2, <3>2, <3>3, <3>4, FramedPlain DEF Advances
    <2>3. CASE StateOf(Sb(t)) = "Absent"
      <3>1. /\ \A u \in Task \ {t} : task'[u] = task[u]
            /\ Keeps(t, task'[t]) /\ task'[t].pc \in {"done", "evictNext"}
        BY ZenonT(60), <1>3, <2>3, Ends DEF DeleteClaim
      <3>2. \A x \in Sandbox \ {Sb(t)} : deletions'[x] = deletions[x] /\ disk'[x] = disk[x]
        BY <1>0, <1>3 DEF DeleteClaim, Shared
      <3>3. QED
        BY ZenonT(60), <1>0, <1>3, <2>1, <2>3, <3>1, <3>2
        DEF Plain, Progresses, Advances, DeleteClaim
    <2>4. CASE StateOf(Sb(t)) \notin {"Running", "Paused", "Absent"}
      <3>1. WaitWhile(t, StateOf(Sb(t)), "deleteWoken")
        BY <1>3, <2>4 DEF DeleteClaim
      <3>2. /\ \A u \in Task \ {t} : task'[u] = task[u]
            /\ Keeps(t, task'[t]) /\ task'[t].pc = "wait"
        BY <3>1, WaitGoes
      <3>3. Claim(task'[t]) = "none"
        BY <3>2, ClaimTable DEF FreeLabels
      <3>4. Frame(t) /\ deletions' = deletions /\ progress' = progress
        BY ZenonT(60), <1>0, <1>3, <2>1, <2>4, <3>2 DEF Frame, DeleteClaim
      <3>5. QED
        BY ZenonT(60), <2>1, <2>4, <3>2, <3>3, <3>4, QuietPlain
    <2>5. QED
      BY <2>2, <2>3, <2>4
  <1>4. CASE DeleteWoken(t)
    <2>1. CASE Goto(t, "deleteClaim")
      <3>1. /\ \A u \in Task \ {t} : task'[u] = task[u]
            /\ Keeps(t, task'[t]) /\ task'[t].pc = "deleteClaim"
        BY <2>1, Goes DEF CreateLabels, ForkLabels
      <3>2. Claim(task'[t]) = "none"
        BY <3>1, ClaimTable DEF FreeLabels
      <3>3. QED
        BY ZenonT(60), <1>0, <1>4, <3>1, <3>2, QuietPlain DEF Frame, DeleteWoken, StateOf
    <2>2. QED
      BY ZenonT(60), <1>1, <1>4, <2>1 DEF DeleteWoken
  <1>5. CASE DeleteDetach(t)
    <2> DEFINE l == CASE Progress(t) = "Capture" -> "capture"
                      [] Progress(t) = "Stop"    -> "deleteStop"
                      [] OTHER                   -> "release"
    <2>1. /\ l \in {"capture", "deleteStop", "release"}
          /\ l = "capture" => Progress(t) = "Capture"
      OBVIOUS
    <2>2. Becomes(t, [task[t] EXCEPT !.hd = handles[Sb(t)], !.rt = routes[Sb(t)], !.pc = l])
      BY <1>5 DEF DeleteDetach
    <2> HIDE DEF l
    <2>3. l \notin CreateLabels /\ l \notin ForkLabels /\ l \in KillLabels
      BY ZenonT(60), <2>1 DEF CreateLabels, ForkLabels, KillLabels
    <2>4. /\ \A u \in Task \ {t} : task'[u] = task[u]
          /\ Keeps(t, task'[t]) /\ task'[t].pc = l
      BY ZenonT(60), <2>2, <2>3, DetachGoes
    <2>5. Claim(task'[t]) = "Killing" /\ Claim(task[t]) = "Killing"
      BY ZenonT(60), <1>5, <2>3, <2>4, ClaimTable DEF DeleteDetach, KillLabels
    <2>6. QED
      BY ZenonT(60), <1>0, <1>5, <2>1, <2>4, <2>5
      DEF Plain, Advances, Progresses, DeleteDetach, StateOf
  <1>6. CASE Capture(t)
    <2>1. /\ task[t].locked /\ Claim(task[t]) = "Killing"
          /\ StateOf(Sb(t)) \in {"Absent", "Killing"}
      BY <1>6, KillerHolds DEF Capture, KillLabels
    <2>2. UNCHANGED <<disk, deletions, used, sweep>>
      BY <1>6 DEF Capture
    <2>3. ASSUME SetProgress(t, "Stop"), store' = store,
                 \/ Goto(t, "deleteStop")
                 \/ Becomes(t, [task[t] EXCEPT !.pc = "deleteStop", !.cap = TRUE])
          PROVE  Plain(t)
      <3>1. /\ \A u \in Task \ {t} : task'[u] = task[u]
            /\ Keeps(t, task'[t]) /\ task'[t].pc = "deleteStop"
        BY ZenonT(60), <2>3, Goes, CapGoes DEF CreateLabels, ForkLabels
      <3>2. Claim(task'[t]) = "Killing"
        BY ZenonT(60), <3>1, ClaimTable DEF KillLabels
      <3>3. Progresses(t, store'[Sb(t)].state, task'[t])
        BY ZenonT(60), <2>1, <2>3, <3>1, ProgressOne DEF Progresses, StateOf
      <3>4. QED
        BY ZenonT(60), <1>0, <2>1, <2>2, <2>3, <3>1, <3>2, <3>3 DEF Plain, Advances, StateOf
    <2>4. ASSUME CompareAndSet(Sb(t), {"Killing"}, task[t].prev), Finish(t, "err"),
                 progress' = progress
          PROVE  Plain(t)
      <3>1. /\ \A u \in Task \ {t} : task'[u] = task[u]
            /\ Keeps(t, task'[t]) /\ task'[t].pc \in {"done", "evictNext"}
            /\ Claim(task'[t]) = "none"
        BY <2>4, Ends
      <3>2. /\ \A x \in Sandbox \ {Sb(t)} : store'[x].state = store[x].state
            /\ store'[Sb(t)].state = IF StateOf(Sb(t)) = "Killing" THEN task[t].prev
                                     ELSE StateOf(Sb(t))
        BY <1>0, <2>4, CompareAndSetStates
      <3>3. Progress(t) = "Capture"
        BY <1>6 DEF Inv, Committed, Capture
      <3>4. QED
        BY ZenonT(60), <1>0, <2>1, <2>2, <2>4, <3>1, <3>2, <3>3, FramedPlain DEF Frame, Advances
    <2>5. QED
      BY <1>6, <2>3, <2>4 DEF Capture
  <1>7. CASE DeleteStop(t)
    <2>1. /\ task[t].locked /\ Claim(task[t]) = "Killing"
          /\ StateOf(Sb(t)) \in {"Absent", "Killing"}
      BY <1>7, KillerHolds DEF DeleteStop, KillLabels
    <2>2. UNCHANGED <<store, disk, deletions, used, sweep>>
      BY ZenonT(60), <1>7 DEF DeleteStop
    <2>3. CASE SetProgress(t, "Release") /\ Goto(t, "release")
      <3>1. /\ \A u \in Task \ {t} : task'[u] = task[u]
            /\ Keeps(t, task'[t]) /\ task'[t].pc = "release"
        BY <2>3, Goes DEF CreateLabels, ForkLabels
      <3>2. Claim(task'[t]) = "Killing"
        BY <3>1, ClaimTable DEF KillLabels
      <3>3. Progresses(t, store'[Sb(t)].state, task'[t])
        BY ZenonT(60), <2>1, <2>2, <2>3, <3>1, ProgressOne DEF Progresses, StateOf
      <3>4. QED
        BY ZenonT(60), <1>0, <2>1, <2>2, <2>3, <3>1, <3>2, <3>3 DEF Plain, Advances, StateOf
    <2>4. QED
      BY ZenonT(60), <1>1, <1>7, <2>2, <2>3 DEF DeleteStop
  <1>8. CASE Release(t)
    <2>1. CASE RemoveRecord(Sb(t)) /\ Goto(t, "purge")
      <3>1. /\ \A u \in Task \ {t} : task'[u] = task[u]
            /\ Keeps(t, task'[t]) /\ task'[t].pc = "purge"
        BY ZenonT(60), <2>1, Goes DEF CreateLabels, ForkLabels
      <3>2. /\ \A x \in Sandbox \ {Sb(t)} : store'[x].state = store[x].state
            /\ store'[Sb(t)].state = "Absent"
        BY ZenonT(60), <1>0, <2>1, RemoveStates
      <3>3. QED
        BY ZenonT(60), <1>0, <1>8, <3>1, <3>2 DEF Plain, Progresses, Advances, Release
    <2>2. QED
      BY ZenonT(60), <1>1, <1>8, <2>1 DEF Release
  <1>9. CASE Purge(t) \/ DeleteEnd(t)
    <2>1. StateOf(Sb(t)) = "Absent" /\ task[t].locked
      BY ZenonT(60), <1>9, Fields DEF Inv, Committed, Purge, DeleteEnd, Placed, MutexLabels
    <2>2. /\ \A u \in Task \ {t} : task'[u] = task[u]
          /\ Keeps(t, task'[t]) /\ task'[t].pc \in {"deleteEnd", "done", "evictNext"}
      <3>1. CASE Goto(t, "deleteEnd")
        BY <3>1, Goes DEF CreateLabels, ForkLabels
      <3>2. CASE \E o \in {"ok", "err"} : Finish(t, o)
        BY ZenonT(60), <3>2, Ends
      <3>3. QED
        BY ZenonT(60), <1>9, <3>1, <3>2 DEF Purge, DeleteEnd
    <2>3. \A x \in Sandbox \ {Sb(t)} : deletions'[x] = deletions[x] /\ disk'[x] = disk[x]
      BY ZenonT(60), <1>0, <1>9 DEF Purge, DeleteEnd, Shared
    <2>4. Progresses(t, store'[Sb(t)].state, task'[t])
      <3>1. store' = store /\ (progress' = progress \/ SetProgress(t, "Done"))
        BY <1>9 DEF Purge, DeleteEnd
      <3>2. QED
        BY ZenonT(60), <2>1, <2>2, <3>1, ProgressOne DEF Progresses, StateOf
    <2>5. store' = store /\ used' = used /\ sweep' = sweep
      BY <1>9 DEF Purge, DeleteEnd
    <2>6. QED
      BY ZenonT(60), <1>0, <2>1, <2>2, <2>3, <2>4, <2>5 DEF Plain, Advances, StateOf
  <1>10. CASE EvictLock(t)
    <2> DEFINE q == [task[t] EXCEPT !.pc = "evictClaim", !.locked = TRUE]
    <2>1. /\ q.sb = task[t].sb /\ q.child = task[t].child /\ q.rest = task[t].rest
          /\ q.op = task[t].op /\ q.entry = task[t].entry /\ q.pc = "evictClaim"
      BY Fields DEF TaskSet
    <2>2. Becomes(t, q)
      BY <1>10 DEF EvictLock
    <2> HIDE DEF q
    <2>3. task'[t] = q /\ \A u \in Task \ {t} : task'[u] = task[u]
      BY <2>2, BecomesOne
    <2>4. Keeps(t, q)
      BY ZenonT(60), <1>10, <2>1, LockKeeps DEF EvictLock, CreateLabels, ForkLabels
    <2>5. Claim(q) = "none"
      BY <2>1, ClaimTable DEF FreeLabels
    <2>6. QED
      BY ZenonT(60), <1>0, <1>10, <2>1, <2>3, <2>4, <2>5, QuietPlain DEF Frame, EvictLock, StateOf
  <1>11. CASE EvictClaim(t)
    <2>1. CASE StateOf(Sb(t)) = "Running" /\ store[Sb(t)].due
      <3>1. /\ \A u \in Task \ {t} : task'[u] = task[u]
            /\ Keeps(t, task'[t]) /\ task'[t].pc \in {"deleteDetach", "pausePin"}
            /\ \A x \in Sandbox \ {Sb(t)} : store'[x].state = store[x].state
            /\ task'[t].pc = "deleteDetach" => store'[Sb(t)].state = "Killing"
            /\ task'[t].pc = "pausePin" => store'[Sb(t)].state = "Pausing"
        <4>1. CASE /\ store' = [store EXCEPT ![Sb(t)].state = "Killing"]
                   /\ Becomes(t, [task[t] EXCEPT !.pc = "deleteDetach", !.prev = "Running"])
          <5>1. /\ \A u \in Task \ {t} : task'[u] = task[u]
                /\ Keeps(t, task'[t]) /\ task'[t].pc = "deleteDetach"
            BY ZenonT(60), <4>1, PrevGoes
          <5>2. /\ \A x \in Sandbox \ {Sb(t)} : store'[x].state = store[x].state
                /\ store'[Sb(t)].state = "Killing"
            BY <1>0, <4>1 DEF Shared, RecordSet
          <5>3. QED
            BY ZenonT(60), <5>1, <5>2
        <4>2. CASE store' = [store EXCEPT ![Sb(t)].state = "Pausing"] /\ Goto(t, "pausePin")
          <5>1. /\ \A u \in Task \ {t} : task'[u] = task[u]
                /\ Keeps(t, task'[t]) /\ task'[t].pc = "pausePin"
            BY <4>2, Goes DEF CreateLabels, ForkLabels
          <5>2. /\ \A x \in Sandbox \ {Sb(t)} : store'[x].state = store[x].state
                /\ store'[Sb(t)].state = "Pausing"
            BY <1>0, <4>2 DEF Shared, RecordSet
          <5>3. QED
            BY <5>1, <5>2
        <4>3. QED
          BY ZenonT(60), <1>11, <2>1, <4>1, <4>2 DEF EvictClaim
      <3>2. Claim(task'[t]) = store'[Sb(t)].state
        BY <3>1, ClaimTable DEF KillLabels, PauseLabels
      <3>3. Frame(t)
        BY <1>0, <1>11, <3>1 DEF Frame, EvictClaim
      <3>4. QED
        BY ZenonT(60), <1>11, <2>1, <3>1, <3>2, <3>3, FramedPlain DEF Advances, EvictClaim
    <2>2. CASE ~(StateOf(Sb(t)) = "Running" /\ store[Sb(t)].due)
      BY ZenonT(60), <1>1, <1>11, <2>2 DEF EvictClaim
    <2>3. QED
      BY <2>1, <2>2
  <1>12. QED
    BY ZenonT(60), <1>2, <1>3, <1>4, <1>5, <1>6, <1>7, <1>8, <1>9, <1>10, <1>11 DEF DeleteStep

-----------------------------------------------------------------------------
(* The steps of a snapshot, a fork and a keep-alive are plain, save the    *)
(* one that adds a child's record; and so is waking up.                    *)

(* A captured sandbox that cannot be kept. *)
LEMMA DropPlain ==
  ASSUME Shared, Tasks, Inv, NEW t \in Task, Sb(t) \in Sandbox,
         RemoveRecord(Sb(t)), Finish(t, "err"),
         UNCHANGED <<disk, deletions, progress, used, sweep>>
  PROVE  Plain(t)
  <1>1. /\ \A u \in Task \ {t} : task'[u] = task[u]
        /\ Keeps(t, task'[t]) /\ task'[t].pc \in {"done", "evictNext"}
    BY ZenonT(60), Ends
  <1>2. /\ \A x \in Sandbox \ {Sb(t)} : store'[x].state = store[x].state
        /\ store'[Sb(t)].state = "Absent"
    BY ZenonT(60), RemoveStates
  <1>3. QED
    BY ZenonT(60), <1>1, <1>2, FramedPlain DEF Frame, Advances

(* A claim given back: the sandbox runs again. *)
LEMMA GiveBackPlain ==
  ASSUME Shared, Tasks, Inv, NEW t \in Task, Sb(t) \in Sandbox,
         NEW c, Claim(task[t]) = c, c \notin {"none", "Killing"},
         CompareAndSet(Sb(t), {c}, "Running"),
         (\E o \in Outcome : Finish(t, o)) \/ Goto(t, "forkAdd"),
         task[t].op = "fork" /\ Goto(t, "forkAdd") => task[t].pc \in ForkLabels,
         UNCHANGED <<disk, deletions, progress, used, sweep>>
  PROVE  Plain(t)
  <1>1. /\ \A u \in Task \ {t} : task'[u] = task[u]
        /\ Keeps(t, task'[t]) /\ task'[t].pc \in {"done", "evictNext", "forkAdd"}
    <2>1. CASE \E o \in Outcome : Finish(t, o)
      BY ZenonT(60), <2>1, Ends
    <2>2. CASE Goto(t, "forkAdd")
      BY ZenonT(60), <2>2, Goes DEF CreateLabels
    <2>3. QED
      BY ZenonT(60), <2>1, <2>2
  <1>2. /\ \A x \in Sandbox \ {Sb(t)} : store'[x].state = store[x].state
        /\ store'[Sb(t)].state = IF StateOf(Sb(t)) \in {c} THEN "Running" ELSE StateOf(Sb(t))
    BY CompareAndSetStates
  <1>3. c # "Absent"
    BY KillingClaim
  <1>4. Claim(task'[t]) = "none"
    BY <1>1, ClaimTable DEF FreeLabels
  <1>5. QED
    BY ZenonT(60), <1>1, <1>2, <1>3, <1>4, ReleasePlain DEF Frame

(* Every step of a snapshot, a fork or a keep-alive but ForkAdd is plain. *)
LEMMA CapturePlain ==
  ASSUME Shared, Tasks, Inv, NEW t \in Task, CaptureStep(t), ~ForkAdd(t)
  PROVE  Plain(t)
  <1> USE DEF At, runtimeVars, pinVars, deleteVars, nodeVars
  <1>0. Sb(t) \in Sandbox
    BY ZenonT(60), HasSandbox
    DEF CaptureStep, SnapshotClaim, SnapshotHandle, SnapshotVM, ForkHandle,
       ForkClaim, ForkVM, ForkRestore, ForkInsert, ForkRoute, KeepReread
  <1>1. ASSUME NEW o, Finish(t, o), UNCHANGED <<store, disk, deletions, progress, used, sweep>>
        PROVE  Plain(t)
    BY <1>0, <1>1, Ends, QuietPlain DEF Frame, StateOf
  <1>2. ASSUME NEW l, Goto(t, l), UNCHANGED <<store, disk, deletions, progress, used, sweep>>,
               l \in {"touch", "forkRoute"}
        PROVE  Plain(t)
    <2>1. /\ \A u \in Task \ {t} : task'[u] = task[u]
          /\ Keeps(t, task'[t]) /\ task'[t].pc = l
      BY <1>2, Goes DEF CreateLabels, ForkLabels
    <2>2. Claim(task'[t]) = "none"
      BY ZenonT(60), <1>2, <2>1, ClaimTable DEF FreeLabels
    <2>3. QED
      BY ZenonT(60), <1>0, <1>2, <2>1, <2>2, QuietPlain DEF Frame, StateOf
  <1>3. ASSUME NEW c, NEW l, CompareAndSet(Sb(t), {"Running"}, c), StateOf(Sb(t)) = "Running",
               Goto(t, l), UNCHANGED <<disk, deletions, progress, used, sweep>>,
               \/ c = "Snapshotting" /\ l = "snapHandle"
               \/ c = "Forking" /\ l = "fork" /\ task[t].pc \in ForkLabels
        PROVE  Plain(t)
    <2>1. /\ \A u \in Task \ {t} : task'[u] = task[u]
          /\ Keeps(t, task'[t]) /\ task'[t].pc = l
      BY ZenonT(60), <1>3, Goes DEF CreateLabels, ForkLabels
    <2>2. Claim(task'[t]) = c
      BY ZenonT(60), <1>3, <2>1, ClaimTable
    <2>3. /\ \A x \in Sandbox \ {Sb(t)} : store'[x].state = store[x].state
          /\ store'[Sb(t)].state = c
      BY <1>0, <1>3, CompareAndSetStates
    <2>4. QED
      BY ZenonT(60), <1>0, <1>3, <2>1, <2>2, <2>3, FramedPlain DEF Frame, Advances
  <1>4. ASSUME NEW h, NEW l, Becomes(t, [task[t] EXCEPT !.pc = l, !.hd = h]),
               UNCHANGED <<store, disk, deletions, progress, used, sweep>>,
               \/ task[t].pc = "snapHandle" /\ l = "snap"
               \/ task[t].pc = "forkHandle" /\ l = "forkClaim"
               \/ task[t].pc = "fork" /\ l = "forkRestore"
        PROVE  Plain(t)
    <2>1. /\ \A u \in Task \ {t} : task'[u] = task[u]
          /\ Keeps(t, task'[t]) /\ task'[t].pc = l
      BY ZenonT(60), <1>4, HandleGoes DEF CreateLabels, ForkLabels
    <2>2. Claim(task'[t]) \in {Claim(task[t]), "none"}
      BY <1>4, <2>1, ClaimTable DEF FreeLabels
    <2>3. QED
      BY ZenonT(60), <1>0, <1>4, <2>1, <2>2, QuietPlain DEF Frame, StateOf
  <1>5. CASE SnapshotClaim(t)
    <2>1. CASE StateOf(Sb(t)) = "Running"
      BY <1>3, <1>5, <2>1 DEF SnapshotClaim
    <2>2. CASE StateOf(Sb(t)) # "Running"
      BY <1>1, <1>5, <2>2 DEF SnapshotClaim, CompareAndSet
    <2>3. QED
      BY ZenonT(60), <2>1, <2>2
  <1>6. CASE SnapshotHandle(t)
    <2>1. CASE handles[Sb(t)] = None
      BY ZenonT(60), <1>0, <1>6, <2>1, DropPlain DEF SnapshotHandle
    <2>2. CASE handles[Sb(t)] # None
      BY ZenonT(60), <1>4, <1>6, <2>2 DEF SnapshotHandle
    <2>3. QED
      BY <2>1, <2>2
  <1>7. CASE SnapshotVM(t)
    <2>1. Claim(task[t]) = "Snapshotting"
      BY ZenonT(60), <1>7, ClaimTable DEF SnapshotVM
    <2>2. CASE DropCaptured(t, Sb(t))
      BY ZenonT(60), <1>0, <1>7, <2>2, DropPlain DEF SnapshotVM, DropCaptured
    <2>3. CASE /\ CompareAndSet(Sb(t), {"Snapshotting"}, "Running")
               /\ Finish(t, "ok") \/ Finish(t, "err")
      <3>1. \E o \in Outcome : Finish(t, o)
        BY <2>3 DEF Outcome
      <3>2. task[t].op = "fork" /\ Goto(t, "forkAdd") => task[t].pc \in ForkLabels
        <4>1. task'[t].pc \in {"done", "evictNext"}
          BY <2>3, Ends
        <4>2. Goto(t, "forkAdd") => task'[t].pc = "forkAdd"
          BY ZenonT(60), Fields DEF Goto, Becomes, Tasks, TaskSet
        <4>3. QED
          BY ZenonT(60), <4>1, <4>2
      <3>3. QED
        BY ZenonT(60), <1>0, <1>7, <2>1, <2>3, <3>1, <3>2, GiveBackPlain DEF SnapshotVM
    <2>4. QED
      BY ZenonT(60), <1>7, <2>2, <2>3 DEF SnapshotVM
  <1>8. CASE ForkHandle(t)
    <2>1. CASE handles[Sb(t)] = None
      BY ZenonT(60), <1>1, <1>8, <2>1 DEF ForkHandle
    <2>2. CASE handles[Sb(t)] # None
      BY ZenonT(60), <1>4, <1>8, <2>2 DEF ForkHandle
    <2>3. QED
      BY <2>1, <2>2
  <1>9. CASE ForkClaim(t)
    <2>1. CASE StateOf(Sb(t)) = "Running"
      BY <1>3, <1>9, <2>1 DEF ForkClaim, ForkLabels
    <2>2. CASE StateOf(Sb(t)) # "Running"
      BY <1>1, <1>9, <2>2 DEF ForkClaim, CompareAndSet
    <2>3. QED
      BY <2>1, <2>2
  <1>10. CASE ForkVM(t)
    <2>1. Claim(task[t]) = "Forking"
      BY <1>10, ClaimTable DEF ForkVM
    <2>2. CASE DropCaptured(t, Sb(t))
      BY ZenonT(60), <1>0, <1>10, <2>2, DropPlain DEF ForkVM, DropCaptured
    <2>3. CASE CompareAndSet(Sb(t), {"Forking"}, "Running") /\ Finish(t, "err")
      <3>1. \E o \in Outcome : Finish(t, o)
        BY <2>3 DEF Outcome
      <3>2. task[t].pc \in ForkLabels
        BY ZenonT(60), <1>10 DEF ForkVM, ForkLabels
      <3>3. QED
        BY ZenonT(60), <1>0, <1>10, <2>1, <2>3, <3>1, <3>2, GiveBackPlain DEF ForkVM
    <2>4. CASE /\ store' = store
               /\ \/ Becomes(t, [task[t] EXCEPT !.pc = "forkRestore", !.hd = task[t].child])
                  \/ Becomes(t, [task[t] EXCEPT !.pc = "forkRestore", !.hd = None])
      BY ZenonT(60), <1>4, <1>10, <2>4 DEF ForkVM
    <2>5. QED
      BY ZenonT(60), <1>10, <2>2, <2>3, <2>4 DEF ForkVM
  <1>11. CASE ForkRestore(t)
    <2>1. Claim(task[t]) = "Forking"
      BY ZenonT(60), <1>11, ClaimTable DEF ForkRestore
    <2>2. (\E o \in Outcome : Finish(t, o)) \/ Goto(t, "forkAdd")
      BY <1>11 DEF ForkRestore, Outcome
    <2>3. task[t].pc \in ForkLabels
      BY ZenonT(60), <1>11 DEF ForkRestore, ForkLabels
    <2>4. QED
      BY ZenonT(60), <1>0, <1>11, <2>1, <2>2, <2>3, GiveBackPlain DEF ForkRestore
  <1>12. CASE ForkInsert(t)
    BY ZenonT(60), <1>2, <1>12 DEF ForkInsert
  <1>13. CASE ForkRoute(t)
    BY ZenonT(60), <1>1, <1>13 DEF ForkRoute
  <1>14. CASE KeepReread(t)
    BY <1>1, <1>2, <1>14 DEF KeepReread
  <1>15. QED
    BY ZenonT(60), <1>5, <1>6, <1>7, <1>8, <1>9, <1>10, <1>11, <1>12, <1>13, <1>14 DEF CaptureStep

(* Waking up, and giving up waiting, is plain. *)
LEMMA WakePlain ==
  ASSUME Shared, Tasks, Inv, NEW t \in Task, Wake(t) \/ WaitTimesOut(t)
  PROVE  Plain(t)
  <1> USE DEF At, runtimeVars, pinVars, deleteVars, nodeVars
  <1>0. Sb(t) \in Sandbox
    BY ZenonT(60), HasSandbox DEF Wake, WaitTimesOut
  <1>1. CASE WaitTimesOut(t)
    BY ZenonT(60), <1>0, <1>1, Ends, QuietPlain DEF Frame, StateOf, WaitTimesOut
  <1>2. CASE Wake(t)
    <2>1. task[t].next \in {"resumeReread", "resumeJoined", "pauseJoined", "deleteWoken",
                            "keepReread"}
      BY ZenonT(60), <1>2, Fields DEF Wake, Placed
    <2>2. /\ \A u \in Task \ {t} : task'[u] = task[u]
          /\ Keeps(t, task'[t]) /\ task'[t].pc = task[t].next
      <3>1. task[t].next \notin CreateLabels /\ task[t].next \notin ForkLabels
        BY ZenonT(60), <2>1 DEF CreateLabels, ForkLabels
      <3>2. QED
        BY ZenonT(60), <1>2, <3>1, Goes DEF Wake
    <2>3. Claim(task'[t]) = "none" /\ task'[t].pc \notin {"purge", "deleteEnd", "capture"}
      BY <2>1, <2>2, ClaimTable DEF FreeLabels
    <2>4. QED
      BY ZenonT(60), <1>0, <1>2, <2>2, <2>3, QuietPlain DEF Frame, StateOf, Wake
  <1>3. QED
    BY <1>1, <1>2
=============================================================================
