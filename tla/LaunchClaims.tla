---------------------------- MODULE LaunchClaims ----------------------------
(***************************************************************************)
(* Every step of a launch and of a pause is plain, save the one by which a *)
(* create adds its record.                                                 *)
(***************************************************************************)
EXTENDS ClaimShapes

-----------------------------------------------------------------------------
(* The steps of a launch are plain, save the one that adds a record. *)

(* An operation that reads and has yet to decide. *)
LEMMA DispatchKeeps ==
  ASSUME Shared, Tasks, NEW t \in Task, NEW s \in Sandbox, NEW joined \in BOOLEAN,
         ResumeDispatch(t, s, joined)
  PROVE  /\ \A u \in Task \ {t} : task'[u] = task[u]
         /\ Claim(task'[t]) = "none"
         /\ task'[t].sb = s /\ task'[t].child = None /\ task'[t].rest = {}
         /\ task'[t].locked = FALSE /\ task'[t].entry = None /\ task'[t].op = "resume"
         /\ task'[t].pc \in {"resumeClaim", "wait", "touch", "done"}
  <1> DEFINE base == [Started("resume", s, "resumeClaim") EXCEPT !.gen = store[s].paused]
             wait == [base EXCEPT !.pc = "wait", !.prev = "Resuming", !.next = "resumeReread"]
             near == [base EXCEPT !.pc = "touch"]
             fail == Ended("resume", s, "err")
             Good(q) == /\ q.sb = s /\ q.child = None /\ q.rest = {} /\ q.op = "resume"
                        /\ q.locked = FALSE /\ q.entry = None
                        /\ q.pc \in {"resumeClaim", "wait", "touch", "done"}
  <1>1. Good(base) /\ Good(wait) /\ Good(near) /\ Good(fail)
    <2>1. Good(base)
      BY DEF Started, IdleTask
    <2>2. Good(wait)
      BY DEF Started, IdleTask
    <2>3. Good(near)
      BY DEF Started, IdleTask
    <2>4. Good(fail)
      BY DEF Ended, IdleTask
    <2>5. QED
      BY <2>1, <2>2, <2>3, <2>4
  <1>2. Becomes(t, base) \/ Becomes(t, wait) \/ Becomes(t, near) \/ Becomes(t, fail)
    BY DEF ResumeDispatch
  <1> HIDE DEF base, wait, near, fail
  <1>3. task'[t] \in {base, wait, near, fail} /\ \A u \in Task \ {t} : task'[u] = task[u]
    BY <1>2, BecomesOne
  <1>4. QED
    BY <1>1, <1>3, ClaimTable DEF FreeLabels

(* Turning to the rollback. *)
LEMMA UndoGoes ==
  ASSUME Tasks, NEW t \in Task, NEW l \in UndoLabels, NEW p,
         Becomes(t, [task[t] EXCEPT !.pc = l, !.prev = p])
  PROVE  /\ \A u \in Task \ {t} : task'[u] = task[u]
         /\ Keeps(t, task'[t])
         /\ task'[t].pc = l /\ task'[t].op = task[t].op /\ task'[t].prev = p
  <1> DEFINE q == [task[t] EXCEPT !.pc = l, !.prev = p]
  <1>1. /\ q.sb = task[t].sb /\ q.child = task[t].child /\ q.rest = task[t].rest
        /\ q.op = task[t].op /\ q.entry = task[t].entry /\ q.locked = task[t].locked
        /\ q.pc = l /\ q.prev = p
    BY Fields DEF TaskSet
  <1>2. task'[t] = q /\ \A u \in Task \ {t} : task'[u] = task[u]
    BY BecomesOne
  <1> HIDE DEF q
  <1>3. Keeps(t, q)
    BY <1>1, SameKeeps DEF Same, UndoLabels, CreateLabels, ForkLabels
  <1>4. QED
    BY <1>1, <1>2, <1>3

(* A launch that fails before its record has been added, or while it is    *)
(* held, has the state to itself.                                          *)
LEMMA RollbackPlain ==
  ASSUME Shared, Tasks, Inv, NEW t \in Task, task[t].op \in {"create", "resume"},
         task[t].pc \in {"build", "pin", "start"}, Sb(t) \in Sandbox,
         UNCHANGED <<store, disk, deletions, progress, used, sweep>>, Rollback(t)
  PROVE  Plain(t)
  <1>1. /\ \A u \in Task \ {t} : task'[u] = task[u]
        /\ Keeps(t, task'[t]) /\ task'[t].pc = "rollback"
        /\ task'[t].op = task[t].op /\ task'[t].prev = LaunchState(t)
    BY ZenonT(60), UndoGoes DEF Rollback, UndoLabels
  <1>2. Frame(t)
    BY ZenonT(60), <1>1 DEF Frame
  <1>3. CASE task[t].op = "create"
    <2>1. StateOf(Sb(t)) = "Absent"
      <3>1. Births(task[t], Sb(t))
        BY <1>3 DEF Births, Sb
      <3>2. QED
        BY <3>1 DEF Inv, Untouched, Fresh
    <2>2. QED
      BY ZenonT(60), <1>1, <1>2, <2>1, FramedPlain DEF Advances, StateOf
  <1>4. CASE task[t].op = "resume"
    <2>1. Claim(task[t]) = "Resuming" /\ Claim(task'[t]) = "Resuming"
      BY <1>1, <1>4, LaunchTable DEF LaunchState, LaunchLabels, UndoLabels
    <2>2. QED
      BY <1>1, <1>2, <2>1, QuietPlain DEF StateOf
  <1>5. QED
    BY ZenonT(60), <1>3, <1>4

(* Turning to the cleanup of a failed launch is plain. *)
LEMMA CleanupPlain ==
  ASSUME Shared, Tasks, NEW t \in Task, NEW stage, Cleanup(t, stage), Sb(t) \in Sandbox,
         task[t].op \in {"create", "resume"},
         \/ task[t].pc \in {"ready", "publish"} /\ stage = LaunchState(t)
         \/ stage = "Running",
         UNCHANGED <<store, disk, deletions, progress, used, sweep>>
  PROVE  Plain(t)
  <1>1. /\ \A u \in Task \ {t} : task'[u] = task[u]
        /\ Keeps(t, task'[t]) /\ task'[t].pc = "launchDetach"
        /\ task'[t].op = task[t].op /\ task'[t].prev = stage
    BY ZenonT(60), UndoGoes DEF Cleanup, UndoLabels
  <1>2. Frame(t)
    BY <1>1 DEF Frame
  <1>3. Claim(task'[t]) \in {Claim(task[t]), "none"}
    BY <1>1, LaunchTable DEF LaunchState, LaunchLabels, UndoLabels
  <1>4. QED
    BY ZenonT(60), <1>1, <1>2, <1>3, QuietPlain DEF StateOf

(* Every step of a launch but AddRecord is plain. *)
LEMMA LaunchPlain ==
  ASSUME Shared, Tasks, Inv, NEW t \in Task, LaunchStep(t), ~AddRecord(t)
  PROVE  Plain(t)
  <1> USE DEF At, runtimeVars, pinVars, deleteVars, nodeVars
  <1>0. Sb(t) \in Sandbox
    BY ZenonT(60), HasSandbox
    DEF LaunchStep, ResumeReread, Touch, ResumeClaim, ResumeJoined, MarkRead,
       MarkWrite, Build, PinStarting, StartVM, InsertHandle, UnpinStarting, WaitForReady,
       PublishRunning, ProxyTarget, PublishRoute, ForgetRecord, UnpinResumed, LaunchDetach,
       LaunchStop, RollbackMetadata, UnmarkRead, UnmarkWrite
  <1>1. CASE ResumeReread(t)
    <2>1. /\ \A u \in Task \ {t} : task'[u] = task[u]
          /\ Claim(task'[t]) = "none"
          /\ task'[t].sb = Sb(t) /\ task'[t].child = None /\ task'[t].rest = {}
          /\ task'[t].locked = FALSE /\ task'[t].entry = None /\ task'[t].op = "resume"
          /\ task'[t].pc \in {"resumeClaim", "wait", "touch", "done"}
      BY ZenonT(60), <1>0, <1>1, DispatchKeeps DEF ResumeReread
    <2>2. Keeps(t, task'[t])
      BY <2>1 DEF Keeps, Births, Sb
    <2>3. QED
      BY <1>0, <1>1, <2>1, <2>2, QuietPlain DEF Frame, ResumeReread, StateOf
  <1>2. CASE Touch(t)
    <2>1. \A x \in Sandbox : store'[x].state = store[x].state
      <3>1. \A x \in Sandbox : [store EXCEPT ![Sb(t)].due = FALSE][x].state = store[x].state
        BY <1>0, DueStates
      <3>2. QED
        BY ZenonT(60), <1>2, <3>1 DEF Touch
    <2>2. \E o \in {"ok", "err"} : Finish(t, o)
      BY <1>2 DEF Touch
    <2>3. QED
      BY ZenonT(60), <1>0, <1>2, <2>1, <2>2, Ends, QuietPlain DEF Frame, Touch, StateOf
  <1>3. CASE ResumeClaim(t)
    <2>1. task[t].op = "resume" /\ Claim(task[t]) = "none"
      BY <1>3, Fields, ClaimTable DEF ResumeClaim, Placed, FreeLabels
    <2>2. /\ \A x \in Sandbox \ {Sb(t)} : store'[x].state = store[x].state
          /\ store'[Sb(t)].state = IF StateOf(Sb(t)) = "Paused" THEN "Resuming" ELSE StateOf(Sb(t))
      BY ZenonT(60), <1>0, <1>3, CompareAndSetStates DEF ResumeClaim
    <2>3. CASE StateOf(Sb(t)) = "Paused"
      <3>1. /\ \A u \in Task \ {t} : task'[u] = task[u]
            /\ Keeps(t, task'[t]) /\ task'[t].pc = "mark" /\ task'[t].op = "resume"
        BY ZenonT(60), <1>3, <2>1, <2>3, Goes DEF ResumeClaim
      <3>2. Claim(task'[t]) = "Resuming"
        BY <3>1, LaunchTable
      <3>3. Frame(t)
        BY <1>0, <1>3, <2>2, <3>1 DEF Frame, ResumeClaim
      <3>4. QED
        BY ZenonT(60), <1>3, <2>2, <2>3, <3>1, <3>2, <3>3, FramedPlain DEF Advances, ResumeClaim
    <2>4. CASE StateOf(Sb(t)) # "Paused"
      <3>1. Goto(t, "touch") \/ WaitWhile(t, "Resuming", "resumeJoined") \/ Finish(t, "err")
        BY <1>3, <2>4 DEF ResumeClaim
      <3>2. /\ \A u \in Task \ {t} : task'[u] = task[u]
            /\ Keeps(t, task'[t]) /\ task'[t].pc \in {"touch", "wait", "done", "evictNext"}
        <4>1. CASE Goto(t, "touch")
          BY ZenonT(60), <2>1, <4>1, Goes
        <4>2. CASE WaitWhile(t, "Resuming", "resumeJoined")
          BY <4>2, WaitGoes
        <4>3. QED
          BY ZenonT(60), <3>1, <4>1, <4>2, Ends
      <3>3. Frame(t)
        BY <1>0, <1>3, <2>2, <3>2 DEF Frame, ResumeClaim
      <3>4. Claim(task'[t]) = "none"
        BY <3>2, ClaimTable DEF FreeLabels
      <3>5. QED
        BY ZenonT(60), <1>3, <2>2, <2>4, <3>2, <3>3, <3>4, QuietPlain DEF ResumeClaim
    <2>5. QED
      BY ZenonT(60), <2>3, <2>4
  <1>4. CASE MarkRead(t)
    <2>1. task[t].op = "resume" /\ Claim(task[t]) = "Resuming"
      BY <1>4, Fields, LaunchTable DEF MarkRead, Placed
    <2>2. CASE Becomes(t, [task[t] EXCEPT !.pc = "markPut", !.rec = disk[Sb(t)]]) /\ store' = store
      <3>1. /\ \A u \in Task \ {t} : task'[u] = task[u]
            /\ Keeps(t, task'[t]) /\ task'[t].pc = "markPut" /\ task'[t].op = "resume"
        <4>1. "markPut" \notin CreateLabels /\ "markPut" \notin ForkLabels
          BY DEF CreateLabels, ForkLabels
        <4>2. QED
          BY ZenonT(60), <2>1, <2>2, <4>1, ReadGoes
      <3>2. Claim(task'[t]) = "Resuming" /\ Frame(t)
        BY ZenonT(60), <1>0, <1>4, <2>2, <3>1, LaunchTable DEF Frame, MarkRead
      <3>3. QED
        BY ZenonT(60), <1>4, <2>1, <2>2, <3>1, <3>2, QuietPlain DEF MarkRead, StateOf
    <2>3. CASE CompareAndSet(Sb(t), {"Resuming"}, "Paused") /\ Finish(t, "err")
      <3>1. /\ \A x \in Sandbox \ {Sb(t)} : store'[x].state = store[x].state
            /\ store'[Sb(t)].state = IF StateOf(Sb(t)) = "Resuming" THEN "Paused"
                                     ELSE StateOf(Sb(t))
        BY <1>0, <2>3, CompareAndSetStates
      <3>2. QED
        BY ZenonT(60), <1>0, <1>4, <2>1, <2>3, <3>1, Ends, ReleasePlain DEF Frame, MarkRead
    <2>4. QED
      BY ZenonT(60), <1>4, <2>2, <2>3 DEF MarkRead

  <1>5. CASE MarkWrite(t)
    <2>1. task[t].op = "resume" /\ Claim(task[t]) = "Resuming"
      BY <1>5, Fields, LaunchTable DEF MarkWrite, Placed
    <2>2. \A x \in Sandbox \ {Sb(t)} : disk'[x] = disk[x]
      BY <1>0, <1>5 DEF MarkWrite, Shared
    <2>3. /\ \A u \in Task \ {t} : task'[u] = task[u]
          /\ Keeps(t, task'[t]) /\ Claim(task'[t]) \in {"Resuming", "none"}
          /\ task'[t].pc \in {"build", "done", "evictNext"}
      <3>1. CASE Finish(t, "err")
        BY <3>1, Ends
      <3>2. CASE Goto(t, "build")
        BY <2>1, <3>2, Goes, LaunchTable
      <3>3. QED
        BY <1>5, <3>1, <3>2 DEF MarkWrite
    <2>4. QED
      BY ZenonT(60), <1>0, <1>5, <2>1, <2>2, <2>3, QuietPlain DEF Frame, MarkWrite, StateOf
  <1>6. CASE Build(t) \/ PinStarting(t) \/ StartVM(t) \/ InsertHandle(t) \/ UnpinStarting(t)
             \/ WaitForReady(t)
    <2>1. task[t].op \in {"create", "resume"}
      BY ZenonT(60), <1>6, Fields
      DEF Build, PinStarting, StartVM, InsertHandle, UnpinStarting, WaitForReady,
         Placed, LaunchLabels
    <2>2. UNCHANGED <<store, disk, deletions, progress, used, sweep>>
      BY <1>6 DEF Build, PinStarting, StartVM, InsertHandle, UnpinStarting, WaitForReady
    <2>3. CASE Rollback(t) /\ task[t].pc \in {"build", "pin", "start"}
      BY ZenonT(60), <1>0, <2>1, <2>2, <2>3, RollbackPlain
    <2>4. CASE Cleanup(t, LaunchState(t)) /\ task[t].pc = "ready"
      BY ZenonT(60), <1>0, <2>1, <2>2, <2>4, CleanupPlain
    <2>5. CASE Finish(t, "err")
      BY ZenonT(60), <1>0, <2>2, <2>5, Ends, QuietPlain DEF Frame, StateOf
    <2>6. ASSUME NEW l \in LaunchLabels \cup {"add"},
                 Goto(t, l) \/ Becomes(t, [task[t] EXCEPT !.pc = l, !.hd = t]),
                 task[t].pc \in {"build"} \cup LaunchLabels,
                 l \in CreateLabels => task[t].pc \in CreateLabels,
                 l = "add" => task[t].op = "create",
                 task[t].op = "create" => (l \in CreateLabels <=> task[t].pc \in CreateLabels)
          PROVE  Plain(t)
      <3>1. /\ \A u \in Task \ {t} : task'[u] = task[u]
            /\ Keeps(t, task'[t]) /\ task'[t].pc = l /\ task'[t].op = task[t].op
        BY ZenonT(60), <2>1, <2>6, Goes, HandleGoes
      <3>2. Claim(task'[t]) = Claim(task[t])
        BY ZenonT(60), <2>1, <2>6, <3>1, LaunchTable DEF LaunchLabels, CreateLabels
      <3>3. QED
        BY ZenonT(60), <1>0, <2>2, <2>6, <3>1, <3>2, QuietPlain DEF Frame, StateOf, LaunchLabels
    <2>7. CASE Build(t)
      BY <2>3, <2>5, <2>6, <2>7 DEF Build, LaunchLabels, CreateLabels
    <2>8. CASE PinStarting(t)
      BY <2>3, <2>6, <2>8 DEF PinStarting, LaunchLabels, CreateLabels
    <2>9. CASE StartVM(t)
      BY <2>3, <2>6, <2>9 DEF StartVM, LaunchLabels, CreateLabels
    <2>10. CASE InsertHandle(t)
      BY <2>6, <2>10 DEF InsertHandle, LaunchLabels, CreateLabels
    <2>11. CASE UnpinStarting(t)
      BY <2>1, <2>6, <2>11 DEF UnpinStarting, LaunchLabels, CreateLabels
    <2>12. CASE WaitForReady(t)
      BY <2>4, <2>6, <2>12 DEF WaitForReady, LaunchLabels, CreateLabels
    <2>13. QED
      BY ZenonT(60), <1>6, <2>7, <2>8, <2>9, <2>10, <2>11, <2>12
  <1>7. CASE PublishRunning(t)
    <2>1. task[t].op \in {"create", "resume"} /\ Claim(task[t]) = LaunchState(t)
      BY ZenonT(60), <1>7, Fields, LaunchTable DEF PublishRunning, Placed, LaunchLabels, LaunchState
    <2>2. CASE StateOf(Sb(t)) = LaunchState(t)
      <3>1. store' = [store EXCEPT ![Sb(t)].state = "Running", ![Sb(t)].due = FALSE]
        BY <1>7, <2>2 DEF PublishRunning
      <3>2. \A x \in Sandbox \ {Sb(t)} : store'[x].state = store[x].state
        BY <1>0, <3>1 DEF Shared
      <3>3. Goto(t, "target")
        BY <1>7, <2>2 DEF PublishRunning
      <3>4. /\ \A u \in Task \ {t} : task'[u] = task[u]
            /\ Keeps(t, task'[t]) /\ task'[t].pc = "target"
        BY <3>3, Goes DEF CreateLabels, ForkLabels
      <3>5. Claim(task'[t]) = "none"
        BY <3>4, ClaimTable DEF FreeLabels
      <3>6. Frame(t)
        BY <1>0, <1>7, <3>2, <3>4 DEF Frame, PublishRunning
      <3>7. QED
        BY ZenonT(60), <1>7, <2>1, <2>2, <3>4, <3>5, <3>6, ReleasePlain
        DEF LaunchState, PublishRunning
    <2>3. CASE StateOf(Sb(t)) # LaunchState(t)
      BY <1>0, <1>7, <2>1, <2>3, CleanupPlain DEF PublishRunning
    <2>4. QED
      BY ZenonT(60), <2>2, <2>3
  <1>8. CASE \/ ProxyTarget(t) \/ PublishRoute(t) \/ ForgetRecord(t)
             \/ UnpinResumed(t) \/ UnmarkRead(t)
             \/ UnmarkWrite(t) \/ ResumeJoined(t)
    <2>1. CASE ProxyTarget(t) /\ Cleanup(t, "Running")
      <3>1. task[t].op \in {"create", "resume"}
        BY ZenonT(60), <2>1, Fields DEF ProxyTarget, Placed
      <3>2. QED
        BY ZenonT(60), <1>0, <2>1, <3>1, CleanupPlain DEF ProxyTarget
    <2>2. CASE ~(ProxyTarget(t) /\ Cleanup(t, "Running"))
      <3>1. \/ \E l \in {"route", "forget", "unpinPaused", "touch"} : Goto(t, l)
            \/ \E o \in {"ok", "err"} : Finish(t, o)
            \/ Becomes(t, [task[t] EXCEPT !.pc = "unmarkPut", !.rec = disk[Sb(t)]])
        BY <1>8, <2>2 DEF ProxyTarget, PublishRoute, ForgetRecord, UnpinResumed, UnmarkRead,
           UnmarkWrite, ResumeJoined
      <3>2. /\ \A u \in Task \ {t} : task'[u] = task[u]
            /\ Keeps(t, task'[t])
            /\ task'[t].pc \in {"route", "forget", "unpinPaused", "touch", "done", "evictNext",
                                "unmarkPut"}
        <4>1. ASSUME NEW l \in {"route", "forget", "unpinPaused", "touch", "unmarkPut"}
              PROVE  l \notin CreateLabels /\ l \notin ForkLabels
          BY DEF CreateLabels, ForkLabels
        <4>2. CASE \E l \in {"route", "forget", "unpinPaused", "touch"} : Goto(t, l)
          BY ZenonT(60), <4>1, <4>2, Goes
        <4>3. CASE Becomes(t, [task[t] EXCEPT !.pc = "unmarkPut", !.rec = disk[Sb(t)]])
          BY ZenonT(60), <4>1, <4>3, ReadGoes
        <4>4. QED
          BY <3>1, <4>2, <4>3, Ends
      <3>3. Claim(task'[t]) = "none"
        BY ZenonT(60), <3>2, ClaimTable DEF FreeLabels
      <3>4. /\ UNCHANGED <<store, deletions, progress, used, sweep>>
            /\ \A x \in Sandbox \ {Sb(t)} : disk'[x] = disk[x]
        BY <1>0, <1>8 DEF ProxyTarget, PublishRoute, ForgetRecord, UnpinResumed, UnmarkRead,
           UnmarkWrite, ResumeJoined, Shared
      <3>5. QED
        BY ZenonT(60), <1>0, <3>2, <3>3, <3>4, QuietPlain DEF Frame, StateOf
    <2>3. QED
      BY <2>1, <2>2
  <1>9. CASE LaunchDetach(t) \/ LaunchStop(t)
    <2>1. task[t].op \in {"create", "resume"} /\ task[t].pc \in UndoLabels
      BY <1>9, Fields DEF LaunchDetach, LaunchStop, Placed, UndoLabels
    <2>2. \/ \E p \in {task[t].prev, "Absent"} :
               Becomes(t, [task[t] EXCEPT !.pc = "launchStop", !.prev = p])
          \/ Goto(t, "rollback") \/ Finish(t, "err")
      BY ZenonT(60), <1>9 DEF LaunchDetach, LaunchStop
    <2>3. /\ \A u \in Task \ {t} : task'[u] = task[u]
          /\ Keeps(t, task'[t])
          /\ task'[t].pc \notin {"purge", "deleteEnd", "capture"}
          /\ Claim(task'[t]) \in {Claim(task[t]), "none"}
      <3>1. CASE \E p \in {task[t].prev, "Absent"} :
                   Becomes(t, [task[t] EXCEPT !.pc = "launchStop", !.prev = p])
        <4>1. PICK p \in {task[t].prev, "Absent"} :
                Becomes(t, [task[t] EXCEPT !.pc = "launchStop", !.prev = p])
          BY ZenonT(60), <3>1
        <4>2. /\ \A u \in Task \ {t} : task'[u] = task[u]
              /\ Keeps(t, task'[t])
              /\ task'[t].pc = "launchStop" /\ task'[t].op = task[t].op /\ task'[t].prev = p
          BY ZenonT(60), <4>1, UndoGoes DEF UndoLabels
        <4>3. QED
          BY <2>1, <4>2, LaunchTable DEF UndoLabels
      <3>2. CASE Goto(t, "rollback")
        <4>1. /\ \A u \in Task \ {t} : task'[u] = task[u]
              /\ Keeps(t, task'[t])
              /\ task'[t].pc = "rollback" /\ task'[t].op = task[t].op
              /\ task'[t].prev = task[t].prev
          BY <3>2, Goes DEF CreateLabels, ForkLabels
        <4>2. task[t].op = "create" \/ task[t].op = "resume"
          BY ZenonT(60), <2>1
        <4>3. task'[t].pc \in UndoLabels
          BY ZenonT(60), <4>1 DEF UndoLabels
        <4>4. Claim(task'[t]) = Claim(task[t])
          BY ZenonT(60), <2>1, <4>1, <4>2, <4>3, LaunchTable
        <4>5. QED
          BY ZenonT(60), <4>1, <4>4
      <3>3. QED
        BY ZenonT(60), <2>2, <3>1, <3>2, Ends
    <2>4. QED
      BY ZenonT(60), <1>0, <1>9, <2>3, QuietPlain DEF Frame, StateOf, LaunchDetach, LaunchStop
  <1>10. CASE RollbackMetadata(t)
    <2>1. task[t].op \in {"create", "resume"} /\ task[t].prev # "Absent"
          /\ task[t].prev \in {"Absent", "Running", LaunchState(t)}
      BY ZenonT(60), <1>10, Fields DEF RollbackMetadata, Placed, UndoLabels, LaunchState
    <2>2. CASE task[t].op = "create"
      <3>1. /\ \A x \in Sandbox \ {Sb(t)} : store'[x].state = store[x].state
            /\ store'[Sb(t)].state = "Absent"
        BY ZenonT(60), <1>0, <1>10, <2>2, RemoveStates DEF RollbackMetadata
      <3>2. Finish(t, "err")
        BY ZenonT(60), <1>10, <2>2 DEF RollbackMetadata
      <3>3. QED
        BY ZenonT(60), <1>0, <1>10, <3>1, <3>2, Ends, FramedPlain
        DEF Frame, Advances, RollbackMetadata
    <2>3. CASE task[t].op = "resume"
      <3>1. /\ \A x \in Sandbox \ {Sb(t)} : store'[x].state = store[x].state
            /\ store'[Sb(t)].state = IF StateOf(Sb(t)) = task[t].prev THEN "Paused"
                                     ELSE StateOf(Sb(t))
        BY ZenonT(60), <1>0, <1>10, <2>3, CompareAndSetStates DEF RollbackMetadata
      <3>2. Goto(t, "unmark")
        BY <1>10, <2>3 DEF RollbackMetadata
      <3>3. /\ \A u \in Task \ {t} : task'[u] = task[u]
            /\ Keeps(t, task'[t]) /\ task'[t].pc = "unmark"
        BY <3>2, Goes DEF CreateLabels, ForkLabels
      <3>4. Claim(task'[t]) = "none"
        BY ZenonT(60), <3>3, ClaimTable DEF FreeLabels
      <3>5. Frame(t)
        BY ZenonT(60), <1>0, <1>10, <3>1, <3>3 DEF Frame, RollbackMetadata
      <3>6. task[t].prev = "Resuming" => Claim(task[t]) = "Resuming"
        BY ZenonT(60), <1>10, <2>3, LaunchTable DEF RollbackMetadata, UndoLabels
      <3>7. Advances(t, StateOf(Sb(t)), store'[Sb(t)].state, task'[t])
        BY ZenonT(60), <2>1, <2>3, <3>1, <3>4, <3>6 DEF Advances, LaunchState
      <3>8. QED
        BY ZenonT(60), <1>10, <2>1, <3>1, <3>3, <3>5, <3>7, FramedPlain DEF RollbackMetadata
    <2>4. QED
      BY ZenonT(60), <2>1, <2>2, <2>3
  <1>11. QED
    BY ZenonT(60), <1>1, <1>2, <1>3, <1>4, <1>5, <1>6, <1>7, <1>8, <1>9, <1>10 DEF LaunchStep

-----------------------------------------------------------------------------
(* The steps of a pause are plain. *)

(* Every step of a pause is plain. *)
LEMMA PausePlain ==
  ASSUME Shared, Tasks, Inv, NEW t \in Task, PauseStep(t)
  PROVE  Plain(t)
  <1> USE DEF At, runtimeVars, pinVars, deleteVars, nodeVars
  <1>0. /\ Sb(t) \in Sandbox
        /\ task[t].pc \in PauseLabels \cup {"pauseJoined", "pauseUnpin", "pauseStop"}
    BY ZenonT(60), HasSandbox
    DEF PauseStep, PauseJoined, PinPaused, AllocateArtifacts, PauseDetach, Freeze,
       PersistPaused, Thaw, PauseReattach, PauseCondemn, PauseUnpin, PublishPaused, PauseStop,
       PauseLabels
  <1>1. /\ deletions' = deletions /\ progress' = progress /\ used' = used /\ sweep' = sweep
        /\ \A x \in Sandbox \ {Sb(t)} : disk'[x] = disk[x]
    BY ZenonT(60), <1>0
    DEF PauseStep, PauseJoined, PinPaused, AllocateArtifacts, PauseDetach, Freeze,
       PersistPaused, Thaw, PauseReattach, PauseCondemn, PauseUnpin, PublishPaused, PauseStop,
       Shared
  <1> DEFINE Stays  == store' = store
             Leaves == /\ \A x \in Sandbox \ {Sb(t)} : store'[x].state = store[x].state
                       /\ StateOf(Sb(t)) = "Absent" => store'[Sb(t)].state = "Absent"
             Done   == \E o \in {"ok", "err"} : Finish(t, o)
             Goes1  == \E l \in PauseLabels : Goto(t, l)
             Next1  == Goto(t, "pauseUnpin") \/ Goto(t, "pauseStop")
             Holds  == task[t].pc \in PauseLabels
  <1>2. ASSUME Stays, Done
        PROVE  Plain(t)
    BY ZenonT(60), <1>0, <1>1, <1>2, Ends, QuietPlain DEF Frame, StateOf
  <1>3. ASSUME Stays, Holds,
               Goes1 \/ Becomes(t, [task[t] EXCEPT !.pc = "freeze", !.hd = handles[Sb(t)],
                                                   !.rt = routes[Sb(t)]])
        PROVE  Plain(t)
    <2>1. /\ \A u \in Task \ {t} : task'[u] = task[u]
          /\ Keeps(t, task'[t]) /\ task'[t].pc \in PauseLabels
      <3>1. \A l \in PauseLabels : l \notin CreateLabels /\ l \notin ForkLabels
        BY DEF PauseLabels, CreateLabels, ForkLabels
      <3>2. CASE Goes1
        BY ZenonT(60), <3>1, <3>2, Goes
      <3>3. CASE Becomes(t, [task[t] EXCEPT !.pc = "freeze", !.hd = handles[Sb(t)],
                                            !.rt = routes[Sb(t)]])
        <4>1. "freeze" \in PauseLabels
          BY DEF PauseLabels
        <4>2. QED
          BY ZenonT(60), <3>1, <3>3, <4>1, DetachGoes
      <3>4. QED
        BY <1>3, <3>2, <3>3
    <2>2. Claim(task'[t]) = "Pausing" /\ Claim(task[t]) = "Pausing"
      BY ZenonT(60), <1>3, <2>1, ClaimTable
    <2>3. QED
      BY ZenonT(60), <1>0, <1>1, <1>3, <2>1, <2>2, QuietPlain DEF Frame, StateOf, PauseLabels
  <1>4. ASSUME Leaves, Holds, Done \/ Next1
        PROVE  Plain(t)
    <2>1. /\ \A u \in Task \ {t} : task'[u] = task[u]
          /\ Keeps(t, task'[t])
          /\ task'[t].pc \in {"pauseUnpin", "pauseStop", "done", "evictNext"}
      <3>1. CASE Next1
        BY <3>1, Goes DEF CreateLabels, ForkLabels
      <3>2. QED
        BY ZenonT(60), <1>4, <3>1, Ends
    <2>2. Claim(task'[t]) = "none" /\ Claim(task[t]) = "Pausing"
      BY ZenonT(60), <1>4, <2>1, ClaimTable DEF FreeLabels
    <2>3. QED
      BY ZenonT(60), <1>0, <1>1, <1>4, <2>1, <2>2, ReleasePlain DEF Frame
  <1>5. CompareAndSet(Sb(t), {"Pausing"}, "Running") => Leaves
    BY <1>0, CompareAndSetStates
  <1>6. RemoveRecord(Sb(t)) => Leaves
    BY <1>0, RemoveStates
  <1>7. ASSUME PublishPaused(t), StateOf(Sb(t)) # "Absent"
        PROVE  Leaves
    BY <1>0, <1>7 DEF PublishPaused, Shared
  <1> HIDE DEF Leaves, Done, Goes1, Next1, Holds, Stays
  <1>8. CASE PinPaused(t)
    <2>1. (Stays /\ Goes1) \/ (Leaves /\ Done)
      <3>1. CASE store' = store /\ Goto(t, "alloc")
        BY <3>1 DEF Stays, Goes1, PauseLabels
      <3>2. CASE CompareAndSet(Sb(t), {"Pausing"}, "Running") /\ Finish(t, "err")
        BY ZenonT(60), <1>5, <3>2 DEF Done
      <3>3. QED
        BY <1>8, <3>1, <3>2 DEF PinPaused
    <2>2. Holds
      BY ZenonT(60), <1>8 DEF PinPaused, Holds, PauseLabels
    <2>3. QED
      BY ZenonT(60), <1>3, <1>4, <2>1, <2>2
  <1>9. CASE AllocateArtifacts(t)
    <2>1. (Stays /\ Goes1) \/ (Leaves /\ Done)
      <3>1. CASE store' = store /\ Goto(t, "pauseDetach")
        BY <3>1 DEF Stays, Goes1, PauseLabels
      <3>2. CASE CompareAndSet(Sb(t), {"Pausing"}, "Running") /\ Finish(t, "err")
        BY <1>5, <3>2 DEF Done
      <3>3. QED
        BY <1>9, <3>1, <3>2 DEF AllocateArtifacts
    <2>2. Holds
      BY <1>9 DEF AllocateArtifacts, Holds, PauseLabels
    <2>3. QED
      BY <1>3, <1>4, <2>1, <2>2
  <1>10. CASE PauseDetach(t)
    <2>1. \/ Stays /\ Becomes(t, [task[t] EXCEPT !.pc = "freeze", !.hd = handles[Sb(t)],
                                                 !.rt = routes[Sb(t)]])
          \/ Leaves /\ Done
      BY <1>6, <1>10 DEF PauseDetach, Stays, Done
    <2>2. Holds
      BY <1>10 DEF PauseDetach, Holds, PauseLabels
    <2>3. QED
      BY <1>3, <1>4, <2>1, <2>2
  <1>11. CASE Freeze(t) \/ Thaw(t) \/ PersistPaused(t)
    <2>1. Stays /\ (Goes1 \/ Done)
      BY ZenonT(60), <1>11 DEF Freeze, Thaw, PersistPaused, Stays, Goes1, Done, PauseLabels
    <2>2. Holds
      BY <1>11 DEF Freeze, Thaw, PersistPaused, Holds, PauseLabels
    <2>3. QED
      BY ZenonT(60), <1>2, <1>3, <2>1, <2>2
  <1>12. CASE PauseReattach(t) \/ PauseCondemn(t)
    <2>1. Leaves
      BY ZenonT(60), <1>5, <1>6, <1>12 DEF PauseReattach, PauseCondemn
    <2>2. Next1 /\ Holds
      BY <1>12 DEF PauseReattach, PauseCondemn, Next1, Holds, PauseLabels
    <2>3. QED
      BY ZenonT(60), <1>4, <2>1, <2>2
  <1>13. CASE PublishPaused(t)
    <2>1. Holds
      BY <1>13 DEF PublishPaused, Holds, PauseLabels
    <2>2. CASE StateOf(Sb(t)) = "Absent"
      BY <1>2, <1>13, <2>2 DEF PublishPaused, Stays, Done
    <2>3. CASE StateOf(Sb(t)) # "Absent"
      BY ZenonT(60), <1>4, <1>7, <1>13, <2>1, <2>3 DEF PublishPaused, Next1
    <2>4. QED
      BY <2>2, <2>3
  <1>14. CASE PauseJoined(t) \/ PauseUnpin(t) \/ PauseStop(t)
    BY <1>2, <1>14 DEF PauseJoined, PauseUnpin, PauseStop, Stays, Done
  <1>15. QED
    BY ZenonT(60), <1>8, <1>9, <1>10, <1>11, <1>12, <1>13, <1>14 DEF PauseStep
=============================================================================
