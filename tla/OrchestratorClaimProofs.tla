---------------------- MODULE OrchestratorClaimProofs -----------------------
(***************************************************************************)
(* OneClaimant holds for every number of sandboxes and operations, by the  *)
(* inductive invariant ClaimInvariant.  The remaining steps take a known   *)
(* sandbox up (Starts), draw a fresh id (Draws), add the record of one     *)
(* (Adds), leave the sandboxes alone (Rests) or start the process over     *)
(* (Still).                                                                *)
(***************************************************************************)
EXTENDS LaunchClaims, DeleteClaims

-----------------------------------------------------------------------------
(* A task takes up a sandbox that is known, or at rest. *)

Starts(t, s) ==
    LET p1 == store'[s].state
        q  == task'[t]
    IN
    /\ s \in Sandbox /\ ~Fresh(s)
    /\ \A u \in Task \ {t} : task'[u] = task[u]
    /\ \A x \in Sandbox \ {s} : store'[x].state = store[x].state
    /\ \/ p1 = StateOf(s) /\ Claim(q) = "none"
       \/ StateOf(s) \in {"Running", "Paused"} /\ Claim(q) \in {"none", p1}
    /\ \A x \in Sandbox : deletions'[x] = deletions[x] \/ (x = s /\ deletions[s] = None)
    /\ q.sb = s /\ q.child \in {task[t].child, None}
    /\ q.rest \subseteq task[t].rest /\ ~q.locked
    /\ q.entry # None => deletions'[s] = q.entry
    /\ q.pc \notin {"purge", "deleteEnd", "capture"}
    /\ \A x \in Sandbox : ~Births(q, x)
    /\ progress' = progress /\ disk' = disk /\ used' = used
    /\ sweep'.todo \subseteq sweep.todo

(* A task that takes a known sandbox up keeps the invariant. *)
LEMMA StartsInvariant ==
  ASSUME Shared, Tasks, Tasks', Inv, NEW t \in Task, NEW s, Starts(t, s)
  PROVE  Inv'
  <1> DEFINE q == task'[t]
             p1 == store'[s].state
  <1>1. /\ s \in Sandbox /\ ~Fresh(s) /\ None \notin Sandbox /\ None \notin Task
        /\ \A u \in Task \ {t} : task'[u] = task[u]
        /\ \A x \in Sandbox \ {s} : store'[x].state = store[x].state
        /\ q.sb = s /\ q.child \in {task[t].child, None}
        /\ q.rest \subseteq task[t].rest /\ ~q.locked
        /\ q.pc \notin {"purge", "deleteEnd", "capture"}
        /\ \A x \in Sandbox : ~Births(q, x)
        /\ progress' = progress /\ disk' = disk /\ used' = used
        /\ sweep'.todo \subseteq sweep.todo
    BY ConstantsAssumption DEF Starts
  <1>2. /\ StateOf(s) = "Absent" => p1 = "Absent"
        /\ StateOf(s) = "Killing" => p1 = "Killing"
    BY DEF Starts
  <1>3. \A u \in Task : Sb(u) = s /\ Claim(task[u]) # "none" /\ p1 # "Absent" =>
          p1 = StateOf(s) /\ Claim(q) = "none"
    <2>1. \A u \in Task : Sb(u) = s /\ Claim(task[u]) # "none" /\ p1 # "Absent" =>
            StateOf(s) \notin {"Running", "Paused"}
      BY <1>2, KillingClaim DEF Inv, OneClaimant
    <2>2. QED
      BY <2>1 DEF Starts
  <1>4. OneClaimant'
    <2>1. SUFFICES ASSUME NEW u \in Task, Claim(task'[u]) # "none",
                          store'[task'[u].sb].state # "Absent"
                   PROVE  /\ store'[task'[u].sb].state = Claim(task'[u])
                          /\ \A w \in Task \ {u} :
                               task'[w].sb = task'[u].sb => Claim(task'[w]) = "none"
      BY DEF OneClaimant, StateOf, Sb
    <2>2. task'[u].sb \in Sandbox
      <3>1. task'[u].pc \notin {"idle", "done", "evictNext"} /\ Placed(task'[u])
        BY ZenonT(60), <2>1, KillingClaim DEF Tasks
      <3>2. QED
        BY <3>1 DEF Placed
    <2>3. CASE u = t
      <3>1. p1 = Claim(q)
        BY <2>1, <2>3 DEF Starts
      <3>2. ASSUME NEW w \in Task \ {u}, task'[w].sb = s, Claim(task'[w]) # "none"
            PROVE  FALSE
        <4>1. Sb(w) = s /\ Claim(task[w]) # "none" /\ p1 # "Absent"
          BY ZenonT(60), <1>1, <2>1, <2>3, <3>2 DEF Sb
        <4>2. QED
          BY <1>3, <2>1, <2>3, <4>1
      <3>3. QED
        BY ZenonT(60), <1>1, <2>3, <3>1, <3>2
    <2>4. CASE u # t
      <3>1. task'[u] = task[u] /\ Sb(u) = task'[u].sb /\ Claim(task[u]) # "none"
        BY ZenonT(60), <1>1, <2>1, <2>4 DEF Sb
      <3>2. store'[Sb(u)].state = StateOf(Sb(u)) /\ (Sb(u) = s => Claim(q) = "none")
        BY ZenonT(60), <1>1, <1>3, <2>1, <2>2, <3>1 DEF StateOf
      <3>3. /\ StateOf(Sb(u)) = Claim(task[u])
            /\ \A w \in Task \ {u} : Sb(w) = Sb(u) => Claim(task[w]) = "none"
        BY <2>1, <3>1, <3>2 DEF Inv, OneClaimant
      <3>4. QED
        BY ZenonT(60), <1>1, <3>1, <3>2, <3>3 DEF Sb
    <2>5. QED
      BY <2>3, <2>4
  <1>5. \A x \in Sandbox : deletions[x] # None => deletions'[x] = deletions[x]
    BY DEF Starts
  <1>6. Serialised'
    <2>1. \A u, w \in Task : task'[u].locked /\ task'[w].locked /\ task'[u].sb = task'[w].sb
                               /\ task'[u].entry = task'[w].entry => u = w
      BY <1>1 DEF Inv, Serialised, Sb
    <2>2. ASSUME NEW u \in Task, task'[u].entry # None, store'[task'[u].sb].state # "Absent"
          PROVE  deletions'[task'[u].sb] = task'[u].entry
      <3>1. CASE u = t
        BY <2>2, <3>1 DEF Starts
      <3>2. CASE u # t
        <4>1. task'[u] = task[u] /\ Sb(u) = task'[u].sb
          BY ZenonT(60), <1>1, <3>2 DEF Sb
        <4>2. Sb(u) \in Sandbox
          BY ZenonT(60), <2>2, <4>1, Fields DEF Placed, Sb
        <4>3. StateOf(Sb(u)) # "Absent"
          BY ZenonT(60), <1>1, <1>2, <2>2, <4>1, <4>2 DEF StateOf
        <4>4. deletions[Sb(u)] = task[u].entry
          BY ZenonT(60), <2>2, <4>1, <4>3 DEF Inv, Serialised
        <4>5. QED
          BY ZenonT(60), <1>5, <2>2, <4>1, <4>2, <4>4
      <3>3. QED
        BY ZenonT(60), <3>1, <3>2
    <2>3. QED
      BY ZenonT(60), <2>1, <2>2 DEF Serialised, StateOf, Sb
  <1>7. Committed'
    <2>1. ASSUME NEW x \in Sandbox, NEW e \in Task, store'[x].state # "Absent",
                 progress'[x][e] \in {"Stop", "Release"}
          PROVE  store'[x].state = "Killing" /\ deletions'[x] = e
      <3>1. StateOf(x) # "Absent"
        BY ZenonT(60), <1>1, <1>2, <2>1 DEF StateOf
      <3>2. StateOf(x) = "Killing" /\ deletions[x] = e
        BY ZenonT(60), <1>1, <2>1, <3>1 DEF Inv, Committed
      <3>3. QED
        BY ZenonT(60), <1>1, <1>2, <1>5, <3>2 DEF StateOf
    <2>2. ASSUME NEW u \in Task, task'[u].pc = "capture"
          PROVE  progress'[task'[u].sb][task'[u].entry] = "Capture"
      BY ZenonT(60), <1>1, <2>2 DEF Inv, Committed, At, Progress
    <2>3. ASSUME NEW u \in Task, task'[u].pc \in {"purge", "deleteEnd"}
          PROVE  store'[task'[u].sb].state = "Absent"
      <3>1. task'[u] = task[u] /\ StateOf(Sb(u)) = "Absent" /\ Sb(u) = task'[u].sb
        BY <1>1, <2>3 DEF Inv, Committed, Sb
      <3>2. Sb(u) \in Sandbox
        BY ZenonT(60), <2>3, <3>1, HasSandbox
      <3>3. QED
        BY ZenonT(60), <1>1, <1>2, <3>1, <3>2 DEF StateOf
    <2>4. QED
      BY ZenonT(60), <2>1, <2>2, <2>3 DEF Committed, StateOf, Progress, At, Sb
  <1>8. Untouched'
    <2>1. \A u \in Task, x \in Sandbox : Births(task'[u], x) => u # t /\ Births(task[u], x)
      BY <1>1
    <2>2. \A u, w \in Task, x \in Sandbox :
            Births(task'[u], x) => x \in used' /\ (Births(task'[w], x) => u = w)
      BY ZenonT(60), <1>1, <2>1 DEF Inv, Untouched
    <2>3. ASSUME NEW x \in Sandbox, x \notin used' \/ \E u \in Task : Births(task'[u], x)
          PROVE  /\ store'[x].state = "Absent"
                 /\ x \notin sweep'.todo
                 /\ \A e \in Task : progress'[x][e] = "Capture"
                 /\ \A u \in Task : /\ task'[u].sb = x \/ task'[u].child = x => Births(task'[u], x)
                                    /\ x \notin task'[u].rest
      <3>1. Fresh(x) /\ x # s /\ x # None
        BY ZenonT(60), <1>1, <2>1, <2>3 DEF Fresh
      <3>2. /\ StateOf(x) = "Absent" /\ x \notin sweep.todo
            /\ \A e \in Task : progress[x][e] = "Capture"
            /\ \A u \in Task : /\ Sb(u) = x \/ task[u].child = x => Births(task[u], x)
                               /\ x \notin task[u].rest
        BY <3>1 DEF Inv, Untouched
      <3>3. ~Births(task[t], x)
        <4>1. SUFFICES ASSUME Births(task[t], x)
                       PROVE  FALSE
          OBVIOUS
        <4>2. x \in used
          BY <4>1 DEF Inv, Untouched
        <4>3. PICK u \in Task : u # t /\ Births(task[u], x)
          BY ZenonT(60), <1>1, <2>1, <2>3, <4>2
        <4>4. QED
          BY <4>1, <4>3 DEF Inv, Untouched
      <3>4. \A u \in Task : /\ task'[u].sb = x \/ task'[u].child = x => Births(task'[u], x)
                            /\ x \notin task'[u].rest
        BY ZenonT(60), <1>1, <3>1, <3>2, <3>3 DEF Sb
      <3>5. QED
        BY ZenonT(60), <1>1, <3>1, <3>2, <3>4 DEF StateOf
    <2>4. \A x \in Sandbox \ used' : disk'[x] = NoDisk
      BY <1>1 DEF Inv, Untouched
    <2>5. QED
      BY <2>2, <2>3, <2>4 DEF Untouched, Fresh, StateOf, Sb
  <1>9. QED
    BY ZenonT(60), <1>4, <1>6, <1>7, <1>8 DEF Inv

(* The sandbox a caller asks for is known. *)
LEMMA BeginsKnown ==
  ASSUME Inv, NEW t \in Task, NEW o, NEW s \in Sandbox, Begins(t, o, s)
  PROVE  ~Fresh(s)
  <1>1. SUFFICES ASSUME NEW u \in Task, Births(task[u], s)
                 PROVE  FALSE
    BY DEF Begins, Fresh
  <1>2. StateOf(s) = "Absent"
    BY <1>1 DEF Inv, Untouched, Fresh
  <1>3. Active(u) /\ (task[u].child = s \/ (task[u].op = "create" /\ Sb(u) = s))
    BY <1>1 DEF Births, Active, Sb
  <1>4. QED
    BY <1>2, <1>3 DEF Begins, Unpublished

(* The call of a pause, by a caller or by the shutdown cleanup. *)
LEMMA PauseCallStarts ==
  ASSUME Shared, Tasks, Tasks', Inv, NEW t \in Task, NEW s \in Sandbox, ~Fresh(s),
         PauseCall(t, "pause", s),
         UNCHANGED <<deletions, progress, disk, used>>, sweep'.todo \subseteq sweep.todo
  PROVE  Inv'
  <1> DEFINE go   == Started("pause", s, "pausePin")
             join == [go EXCEPT !.pc = "wait", !.prev = "Pausing", !.next = "pauseJoined"]
             done == Ended("pause", s, "ok")
             fail == Ended("pause", s, "err")
             Good(q) == /\ q.sb = s /\ q.child = None /\ q.rest = {} /\ q.op = "pause"
                        /\ q.locked = FALSE /\ q.entry = None
  <1>1. Good(go) /\ go.pc = "pausePin"
    BY DEF Started, IdleTask
  <1>2. Good(join) /\ join.pc = "wait"
    BY DEF Started, IdleTask
  <1>3. Good(done) /\ done.pc = "done" /\ Good(fail) /\ fail.pc = "done"
    BY DEF Ended, IdleTask
  <1>4. \/ StateOf(s) = "Running" /\ Becomes(t, go)
        \/ StateOf(s) # "Running" /\ (Becomes(t, join) \/ Becomes(t, done) \/ Becomes(t, fail))
    BY DEF PauseCall
  <1> HIDE DEF go, join, done, fail
  <1>5. /\ \A u \in Task \ {t} : task'[u] = task[u]
        /\ \/ StateOf(s) = "Running" /\ task'[t] = go
           \/ StateOf(s) # "Running" /\ task'[t] \in {join, done, fail}
    BY ZenonT(60), <1>4, BecomesOne
  <1>6. /\ Good(task'[t]) /\ task'[t].pc \in {"pausePin", "wait", "done"}
        /\ StateOf(s) # "Running" => task'[t].pc \in {"wait", "done"}
        /\ StateOf(s) = "Running" => task'[t].pc = "pausePin"
    BY ZenonT(60), <1>1, <1>2, <1>3, <1>5
  <1>7. /\ \A x \in Sandbox \ {s} : store'[x].state = store[x].state
        /\ store'[s].state = IF StateOf(s) = "Running" THEN "Pausing" ELSE StateOf(s)
    BY ZenonT(60), CompareAndSetStates DEF PauseCall
  <1>8. /\ StateOf(s) # "Running" => Claim(task'[t]) = "none"
        /\ StateOf(s) = "Running" => Claim(task'[t]) = "Pausing"
    BY ZenonT(60), <1>6, ClaimTable DEF FreeLabels, PauseLabels
  <1>9. \A x \in Sandbox : ~Births(task'[t], x)
    BY ZenonT(60), <1>6 DEF Births
  <1>10. Starts(t, s)
    BY ZenonT(60), <1>5, <1>6, <1>7, <1>8, <1>9 DEF Starts
  <1>11. QED
    BY <1>10, StartsInvariant

(* The call of a delete. *)
LEMMA DeleteCallStarts ==
  ASSUME Shared, Tasks, Tasks', Inv, NEW t \in Task, NEW s \in Sandbox, ~Fresh(s),
         DeleteCall(t, "delete", s), used' = used, sweep'.todo \subseteq sweep.todo
  PROVE  Inv'
  <1> DEFINE q == [Started("delete", s, "deleteLock") EXCEPT !.entry = EntryFor(t, s)]
  <1>1. /\ q.sb = s /\ q.child = None /\ q.rest = {} /\ q.op = "delete"
        /\ q.locked = FALSE /\ q.entry = EntryFor(t, s) /\ q.pc = "deleteLock"
    BY DEF Started, IdleTask
  <1>2. Becomes(t, q) /\ UNCHANGED <<store, disk, progress>>
    BY DEF DeleteCall
  <1> HIDE DEF q
  <1>3. task'[t] = q /\ \A u \in Task \ {t} : task'[u] = task[u]
    BY <1>2, BecomesOne
  <1>4. Claim(q) = "none" /\ \A x \in Sandbox : ~Births(q, x)
    BY ZenonT(60), <1>1, ClaimTable DEF FreeLabels, Births
  <1>5. /\ deletions'[s] = EntryFor(t, s)
        /\ \A x \in Sandbox : deletions'[x] = deletions[x] \/ (x = s /\ deletions[s] = None)
    BY ZenonT(60) DEF DeleteCall, EntryFor, Shared
  <1>6. Starts(t, s)
    BY ZenonT(60), <1>1, <1>2, <1>3, <1>4, <1>5 DEF Starts, StateOf
  <1>7. QED
    BY <1>6, StartsInvariant

(* The eviction turns to the next sandbox. *)
LEMMA EvictNextStarts ==
  ASSUME Shared, Tasks, Tasks', Inv, NEW t \in Task, EvictNext(t)
  PROVE  Inv'
  <1> USE DEF At, runtimeVars, pinVars, deleteVars, nodeVars
  <1>1. PICK s \in task[t].rest :
          /\ deletions' = [deletions EXCEPT ![s] = EntryFor(t, s)]
          /\ Becomes(t, [task[t] EXCEPT !.pc = "evictLock", !.sb = s, !.entry = EntryFor(t, s),
                                        !.rest = @ \ {s}])
    BY ZenonT(60) DEF EvictNext
  <1> DEFINE q == [task[t] EXCEPT !.pc = "evictLock", !.sb = s, !.entry = EntryFor(t, s),
                                  !.rest = @ \ {s}]
  <1>2. s \in Sandbox /\ ~Fresh(s)
    BY <1>1, Fields DEF Inv, Untouched
  <1>3. /\ q.sb = s /\ q.child = task[t].child /\ q.rest = task[t].rest \ {s}
        /\ q.locked = task[t].locked /\ q.entry = EntryFor(t, s) /\ q.pc = "evictLock"
    BY ZenonT(60), Fields DEF TaskSet
  <1>4. task[t].locked = FALSE
    BY Fields DEF EvictNext, Placed, TaskSet
  <1>5. UNCHANGED <<store, disk, progress, used, sweep>>
    BY DEF EvictNext
  <1> HIDE DEF q
  <1>6. task'[t] = q /\ \A u \in Task \ {t} : task'[u] = task[u]
    BY ZenonT(60), <1>1, BecomesOne DEF q
  <1>7. Claim(q) = "none" /\ \A x \in Sandbox : ~Births(q, x)
    BY <1>3, ClaimTable DEF FreeLabels, Births
  <1>8. /\ deletions'[s] = EntryFor(t, s)
        /\ \A x \in Sandbox : deletions'[x] = deletions[x] \/ (x = s /\ deletions[s] = None)
    BY ZenonT(60), <1>1, <1>2 DEF EntryFor, Shared
  <1>9. Starts(t, s)
    BY ZenonT(60), <1>2, <1>3, <1>4, <1>5, <1>6, <1>7, <1>8 DEF Starts, StateOf
  <1>10. QED
    BY ZenonT(60), <1>9, StartsInvariant

-----------------------------------------------------------------------------
(* Steps that draw a fresh id, or add the record of one. *)

(* The operation that draws an id is the only one to mention it. *)
Draws(t, c) ==
    LET q == task'[t] IN
    /\ c \in Sandbox \ used /\ used' = used \cup {c}
    /\ \A u \in Task \ {t} : task'[u] = task[u]
    /\ UNCHANGED <<store, disk, deletions, progress, sweep>>
    /\ q.sb = c \/ (q.sb \in Sandbox /\ ~Fresh(q.sb))
    /\ q.child \in {c, None} /\ q.rest = {} /\ ~q.locked /\ q.entry = None
    /\ q.pc \notin {"purge", "deleteEnd", "capture"}
    /\ Claim(q) = "none"
    /\ \A x \in Sandbox : Births(q, x) <=> x = c

(* Drawing an id keeps the invariant. *)
LEMMA DrawsInvariant ==
  ASSUME Shared, Tasks, Tasks', Inv, NEW t \in Task, NEW c, Draws(t, c)
  PROVE  Inv'
  <1> DEFINE q == task'[t]
  <1>1. /\ c \in Sandbox /\ c \notin used /\ used' = used \cup {c} /\ None \notin Sandbox
        /\ \A u \in Task \ {t} : task'[u] = task[u]
        /\ UNCHANGED <<store, disk, deletions, progress, sweep>>
        /\ q.sb = c \/ (q.sb \in Sandbox /\ ~Fresh(q.sb))
        /\ q.child \in {c, None} /\ q.rest = {} /\ ~q.locked /\ q.entry = None
        /\ q.pc \notin {"purge", "deleteEnd", "capture"}
        /\ Claim(q) = "none"
        /\ \A x \in Sandbox : Births(q, x) <=> x = c
    BY ZenonT(60), ConstantsAssumption DEF Draws
  <1>2. OneClaimant'
    BY ZenonT(60), <1>1 DEF Inv, OneClaimant, StateOf, Sb
  <1>3. Serialised'
    BY ZenonT(60), <1>1 DEF Inv, Serialised, StateOf, Sb
  <1>4. Committed'
    <2>1. \A x \in Sandbox, e \in Task :
            store'[x].state # "Absent" /\ progress'[x][e] \in {"Stop", "Release"} =>
              store'[x].state = "Killing" /\ deletions'[x] = e
      BY ZenonT(60), <1>1 DEF Inv, Committed, StateOf
    <2>2. \A u \in Task : task'[u].pc \in {"purge", "deleteEnd", "capture"} => task'[u] = task[u]
      BY ZenonT(60), <1>1
    <2>3. \A u \in Task : task'[u].pc = "capture" =>
            progress'[task'[u].sb][task'[u].entry] = "Capture"
      BY ZenonT(60), <1>1, <2>2 DEF Inv, Committed, Progress, At, Sb
    <2>4. \A u \in Task : task'[u].pc \in {"purge", "deleteEnd"} =>
            store'[task'[u].sb].state = "Absent"
      BY ZenonT(60), <1>1, <2>2 DEF Inv, Committed, StateOf, Sb
    <2>5. QED
      BY ZenonT(60), <2>1, <2>3, <2>4 DEF Committed, StateOf, Progress, At, Sb
  <1>5. Untouched'
    <2>1. \A u \in Task, x \in Sandbox :
            Births(task'[u], x) => (u = t /\ x = c) \/ (u # t /\ Births(task[u], x))
      BY ZenonT(60), <1>1
    <2>2. \A u \in Task : ~Births(task[u], c) /\ Sb(u) # c /\ task[u].child # c
      BY ZenonT(60), <1>1 DEF Inv, Untouched, Fresh
    <2>3. \A u, w \in Task, x \in Sandbox :
            Births(task'[u], x) => x \in used' /\ (Births(task'[w], x) => u = w)
      BY ZenonT(60), <1>1, <2>1, <2>2 DEF Inv, Untouched
    <2>4. ASSUME NEW x \in Sandbox, x \notin used' \/ \E u \in Task : Births(task'[u], x)
          PROVE  /\ store'[x].state = "Absent"
                 /\ x \notin sweep'.todo
                 /\ \A e \in Task : progress'[x][e] = "Capture"
                 /\ \A u \in Task : /\ task'[u].sb = x \/ task'[u].child = x => Births(task'[u], x)
                                    /\ x \notin task'[u].rest
      <3>1. Fresh(x)
        BY ZenonT(60), <1>1, <2>1, <2>4 DEF Fresh
      <3>2. /\ StateOf(x) = "Absent" /\ x \notin sweep.todo
            /\ \A e \in Task : progress[x][e] = "Capture"
            /\ \A u \in Task : /\ Sb(u) = x \/ task[u].child = x => Births(task[u], x)
                               /\ x \notin task[u].rest
        BY <3>1 DEF Inv, Untouched
      <3>3. \A u \in Task : /\ task'[u].sb = x \/ task'[u].child = x => Births(task'[u], x)
                            /\ x \notin task'[u].rest
        BY ZenonT(60), <1>1, <3>1, <3>2 DEF Sb
      <3>4. QED
        BY ZenonT(60), <1>1, <3>2, <3>3 DEF StateOf
    <2>5. \A x \in Sandbox \ used' : disk'[x] = NoDisk
      BY ZenonT(60), <1>1 DEF Inv, Untouched
    <2>6. QED
      BY <2>3, <2>4, <2>5 DEF Untouched, Fresh, StateOf, Sb
  <1>6. QED
    BY <1>2, <1>3, <1>4, <1>5 DEF Inv

(* The operation that drew an id adds its record. *)
Adds(t, c) ==
    LET r  == task[t]
        q  == task'[t]
        p1 == store'[c].state
    IN
    /\ c \in Sandbox /\ Births(r, c)
    /\ \A u \in Task \ {t} : task'[u] = task[u]
    /\ \A x \in Sandbox \ {c} : store'[x].state = store[x].state
    /\ UNCHANGED <<disk, deletions, progress, used, sweep>>
    /\ q.sb = r.sb /\ q.child = r.child /\ q.rest = r.rest /\ ~q.locked /\ q.entry = None
    /\ q.pc \notin {"purge", "deleteEnd", "capture"}
    /\ Claim(q) = "none" \/ (q.sb = c /\ Claim(q) = p1)
    /\ \A x \in Sandbox : ~Births(q, x)

(* Adding the record of the id drawn keeps the invariant. *)
LEMMA AddsInvariant ==
  ASSUME Shared, Tasks, Tasks', Inv, NEW t \in Task, NEW c, Adds(t, c)
  PROVE  Inv'
  <1> DEFINE q == task'[t]
  <1>1. /\ c \in Sandbox /\ Births(task[t], c) /\ None \notin Sandbox
        /\ \A u \in Task \ {t} : task'[u] = task[u]
        /\ \A x \in Sandbox \ {c} : store'[x].state = store[x].state
        /\ UNCHANGED <<disk, deletions, progress, used, sweep>>
        /\ q.sb = task[t].sb /\ q.child = task[t].child /\ q.rest = task[t].rest
        /\ ~q.locked /\ q.entry = None
        /\ q.pc \notin {"purge", "deleteEnd", "capture"}
        /\ Claim(q) = "none" \/ (q.sb = c /\ Claim(q) = store'[c].state)
        /\ \A x \in Sandbox : ~Births(q, x)
    BY ZenonT(60), ConstantsAssumption DEF Adds
  <1>2. /\ c \in used /\ \A u \in Task \ {t} : ~Births(task[u], c)
        /\ \A u \in Task \ {t} : Sb(u) # c
        /\ \A e \in Task : progress[c][e] = "Capture"
    BY ZenonT(60), <1>1 DEF Inv, Untouched, Fresh
  <1>3. \A u \in Task \ {t} : task'[u].sb = Sb(u) /\ Sb(u) # c
    BY ZenonT(60), <1>1, <1>2 DEF Sb
  <1>4. OneClaimant'
    <2>1. SUFFICES ASSUME NEW u \in Task, Claim(task'[u]) # "none",
                          store'[task'[u].sb].state # "Absent"
                   PROVE  /\ store'[task'[u].sb].state = Claim(task'[u])
                          /\ \A w \in Task \ {u} :
                               task'[w].sb = task'[u].sb => Claim(task'[w]) = "none"
      BY DEF OneClaimant, StateOf, Sb
    <2>2. CASE u = t
      <3>1. task'[u].sb = c /\ Claim(task'[u]) = store'[c].state
        BY ZenonT(60), <1>1, <2>1, <2>2
      <3>2. \A w \in Task \ {u} : task'[w].sb # c
        BY ZenonT(60), <1>3, <2>2
      <3>3. QED
        BY ZenonT(60), <3>1, <3>2
    <2>3. CASE u # t
      <3>1. task'[u] = task[u] /\ task'[u].sb = Sb(u) /\ Sb(u) # c
        BY ZenonT(60), <1>1, <1>3, <2>3
      <3>2. Sb(u) \in Sandbox
        BY ZenonT(60), <2>1, <3>1, ClaimantHasSandbox
      <3>3. store'[Sb(u)].state = StateOf(Sb(u))
        BY ZenonT(60), <1>1, <3>1, <3>2 DEF StateOf
      <3>4. /\ StateOf(Sb(u)) = Claim(task[u])
            /\ \A w \in Task \ {u} : Sb(w) = Sb(u) => Claim(task[w]) = "none"
        BY ZenonT(60), <2>1, <3>1, <3>3 DEF Inv, OneClaimant
      <3>5. QED
        BY ZenonT(60), <1>1, <3>1, <3>3, <3>4 DEF Sb
    <2>4. QED
      BY <2>2, <2>3
  <1>5. Serialised'
    <2>1. \A u, w \in Task : task'[u].locked /\ task'[w].locked /\ task'[u].sb = task'[w].sb
                               /\ task'[u].entry = task'[w].entry => u = w
      BY ZenonT(60), <1>1 DEF Inv, Serialised, Sb
    <2>2. ASSUME NEW u \in Task, task'[u].entry # None, store'[task'[u].sb].state # "Absent"
          PROVE  deletions'[task'[u].sb] = task'[u].entry
      <3>1. u # t /\ task'[u] = task[u] /\ task'[u].sb = Sb(u) /\ Sb(u) # c
        BY ZenonT(60), <1>1, <1>3, <2>2
      <3>2. Sb(u) \in Sandbox
        BY ZenonT(60), <2>2, <3>1, Fields DEF Placed, Sb
      <3>3. StateOf(Sb(u)) # "Absent"
        BY ZenonT(60), <1>1, <2>2, <3>1, <3>2 DEF StateOf
      <3>4. QED
        BY ZenonT(60), <1>1, <2>2, <3>1, <3>3 DEF Inv, Serialised
    <2>3. QED
      BY <2>1, <2>2 DEF Serialised, StateOf, Sb
  <1>6. Committed'
    <2>1. ASSUME NEW x \in Sandbox, NEW e \in Task, store'[x].state # "Absent",
                 progress'[x][e] \in {"Stop", "Release"}
          PROVE  store'[x].state = "Killing" /\ deletions'[x] = e
      <3>1. x # c
        BY ZenonT(60), <1>1, <1>2, <2>1
      <3>2. QED
        BY ZenonT(60), <1>1, <2>1, <3>1 DEF Inv, Committed, StateOf
    <2>2. ASSUME NEW u \in Task, task'[u].pc = "capture"
          PROVE  progress'[task'[u].sb][task'[u].entry] = "Capture"
      <3>1. u # t
        BY ZenonT(60), <1>1, <2>2
      <3>2. task'[u] = task[u]
        BY ZenonT(60), <1>1, <3>1
      <3>a. At(u, "capture")
        BY ZenonT(60), <2>2, <3>2 DEF At
      <3>b. \A w \in Task : At(w, "capture") => Progress(w) = "Capture"
        BY ZenonT(60) DEF Inv, Committed
      <3>c. Progress(u) = "Capture"
        BY ZenonT(60), <2>2, <3>a, <3>b
      <3>3. progress[Sb(u)][task[u].entry] = "Capture"
        BY <3>c DEF Progress, Sb
      <3>4. QED
        BY ZenonT(60), <1>1, <3>2, <3>3 DEF Sb
    <2>3. ASSUME NEW u \in Task, task'[u].pc \in {"purge", "deleteEnd"}
          PROVE  store'[task'[u].sb].state = "Absent"
      <3>1. task'[u] = task[u] /\ StateOf(Sb(u)) = "Absent" /\ Sb(u) = task'[u].sb /\ Sb(u) # c
        BY ZenonT(60), <1>1, <1>3, <2>3 DEF Inv, Committed
      <3>2. Sb(u) \in Sandbox
        BY ZenonT(60), <2>3, <3>1, HasSandbox
      <3>3. QED
        BY ZenonT(60), <1>1, <3>1, <3>2 DEF StateOf
    <2>4. QED
      BY <2>1, <2>2, <2>3 DEF Committed, StateOf, Progress, At, Sb
  <1>7. Untouched'
    <2>1. \A u \in Task, x \in Sandbox : Births(task'[u], x) => u # t /\ Births(task[u], x)
      BY ZenonT(60), <1>1
    <2>2. \A u, w \in Task, x \in Sandbox :
            Births(task'[u], x) => x \in used' /\ (Births(task'[w], x) => u = w)
      BY ZenonT(60), <1>1, <2>1 DEF Inv, Untouched
    <2>3. ASSUME NEW x \in Sandbox, x \notin used' \/ \E u \in Task : Births(task'[u], x)
          PROVE  /\ store'[x].state = "Absent"
                 /\ x \notin sweep'.todo
                 /\ \A e \in Task : progress'[x][e] = "Capture"
                 /\ \A u \in Task : /\ task'[u].sb = x \/ task'[u].child = x => Births(task'[u], x)
                                    /\ x \notin task'[u].rest
      <3>1. Fresh(x) /\ x # c
        BY ZenonT(60), <1>1, <1>2, <2>1, <2>3 DEF Fresh
      <3>2. /\ StateOf(x) = "Absent" /\ x \notin sweep.todo
            /\ \A e \in Task : progress[x][e] = "Capture"
            /\ \A u \in Task : /\ Sb(u) = x \/ task[u].child = x => Births(task[u], x)
                               /\ x \notin task[u].rest
        BY ZenonT(60), <3>1 DEF Inv, Untouched
      <3>3. ~Births(task[t], x)
        <4>1. SUFFICES ASSUME Births(task[t], x)
                       PROVE  FALSE
          OBVIOUS
        <4>2. x \in used
          BY <4>1 DEF Inv, Untouched
        <4>3. PICK u \in Task : u # t /\ Births(task[u], x)
          BY ZenonT(60), <1>1, <2>1, <2>3, <4>2
        <4>4. QED
          BY <4>1, <4>3 DEF Inv, Untouched
      <3>4. \A u \in Task : /\ task'[u].sb = x \/ task'[u].child = x => Births(task'[u], x)
                            /\ x \notin task'[u].rest
        BY ZenonT(60), <1>1, <3>2, <3>3 DEF Sb
      <3>5. QED
        BY ZenonT(60), <1>1, <3>1, <3>2, <3>4 DEF StateOf
    <2>4. \A x \in Sandbox \ used' : disk'[x] = NoDisk
      BY <1>1 DEF Inv, Untouched
    <2>5. QED
      BY <2>2, <2>3, <2>4 DEF Untouched, Fresh, StateOf, Sb
  <1>8. QED
    BY <1>4, <1>5, <1>6, <1>7 DEF Inv

(* create's own record. *)
LEMMA AddRecordInvariant ==
  ASSUME Shared, Tasks, Tasks', Inv, NEW t \in Task, AddRecord(t)
  PROVE  Inv'
  <1> USE DEF At, runtimeVars, pinVars, deleteVars, nodeVars
  <1>1. Sb(t) \in Sandbox /\ task[t].op = "create"
    BY HasSandbox, Fields DEF AddRecord, Placed
  <1>2. Births(task[t], Sb(t))
    BY ZenonT(60), <1>1 DEF AddRecord, Births, Sb
  <1>3. StateOf(Sb(t)) = "Absent"
    BY <1>1, <1>2 DEF Inv, Untouched, Fresh
  <1>4. /\ store' = [store EXCEPT ![Sb(t)] = [NoRecord EXCEPT !.state = "Creating",
                                                              !.mode = nodeMode]]
        /\ Goto(t, "ready")
    BY <1>3 DEF AddRecord
  <1> DEFINE q == [task[t] EXCEPT !.pc = "ready"]
  <1>5. /\ q.sb = task[t].sb /\ q.child = task[t].child /\ q.rest = task[t].rest
        /\ q.op = "create" /\ q.entry = task[t].entry /\ q.locked = task[t].locked
        /\ q.pc = "ready"
    BY ZenonT(60), <1>1, Fields DEF TaskSet
  <1>6. task[t].entry = None /\ ~task[t].locked
    BY ZenonT(60), <1>1, Fields DEF Placed
  <1>7. task'[t] = q /\ \A u \in Task \ {t} : task'[u] = task[u]
    BY ZenonT(60), <1>4, BecomesOne DEF Goto
  <1> HIDE DEF q
  <1>8. Claim(q) = "Creating" /\ \A x \in Sandbox : ~Births(q, x)
    BY <1>5, LaunchTable DEF Births
  <1>9. /\ \A x \in Sandbox \ {Sb(t)} : store'[x].state = store[x].state
        /\ store'[Sb(t)].state = "Creating"
    BY <1>1, <1>4 DEF Shared, NoRecord
  <1>10. UNCHANGED <<disk, deletions, progress, used, sweep>>
    BY ZenonT(60) DEF AddRecord
  <1>11. Adds(t, Sb(t))
    BY ZenonT(60), <1>1, <1>2, <1>5, <1>6, <1>7, <1>8, <1>9, <1>10 DEF Adds, Sb
  <1>12. QED
    BY ZenonT(60), <1>11, AddsInvariant

(* The record of a fork's child, or its failure. *)
LEMMA ForkAddInvariant ==
  ASSUME Shared, Tasks, Tasks', Inv, NEW t \in Task, ForkAdd(t)
  PROVE  Inv'
  <1> USE DEF At, runtimeVars, pinVars, deleteVars, nodeVars
  <1> DEFINE c == task[t].child
  <1>0. Sb(t) \in Sandbox /\ task[t].op = "fork" /\ c \in Sandbox
    BY HasSandbox, Fields DEF ForkAdd, Placed
  <1>1. CASE Finish(t, "ok") /\ store' = store
    <2>1. Plain(t)
      BY ZenonT(60), <1>0, <1>1, Ends, QuietPlain DEF Frame, StateOf, ForkAdd
    <2>2. QED
      BY ZenonT(60), <2>1, PlainInvariant
  <1>2. CASE /\ store' = [store EXCEPT ![c] = [NoRecord EXCEPT !.state = "Running",
                                                              !.mode = nodeMode]]
             /\ Goto(t, "forkInsert")
    <2> DEFINE q == [task[t] EXCEPT !.pc = "forkInsert"]
    <2>1. /\ q.sb = task[t].sb /\ q.child = task[t].child /\ q.rest = task[t].rest
          /\ q.op = "fork" /\ q.entry = task[t].entry /\ q.locked = task[t].locked
          /\ q.pc = "forkInsert"
      BY ZenonT(60), <1>0, Fields DEF TaskSet
    <2>2. task[t].entry = None /\ ~task[t].locked
      BY <1>0, Fields DEF Placed
    <2>3. task'[t] = q /\ \A u \in Task \ {t} : task'[u] = task[u]
      BY ZenonT(60), <1>2, BecomesOne DEF Goto
    <2> HIDE DEF q
    <2>4. Claim(q) = "none" /\ \A x \in Sandbox : ~Births(q, x)
      BY <2>1, ClaimTable DEF Births, FreeLabels
    <2>5. /\ \A x \in Sandbox \ {c} : store'[x].state = store[x].state
          /\ store'[c].state = "Running"
      BY <1>0, <1>2 DEF Shared, NoRecord
    <2>6. UNCHANGED <<disk, deletions, progress, used, sweep>>
      BY DEF ForkAdd
    <2>7. Births(task[t], c)
      BY ZenonT(60), <1>0 DEF ForkAdd, Births
    <2>8. Adds(t, c)
      BY ZenonT(60), <1>0, <2>1, <2>2, <2>3, <2>4, <2>5, <2>6, <2>7 DEF Adds
    <2>9. QED
      BY <2>8, AddsInvariant
  <1>3. QED
    BY ZenonT(60), <1>1, <1>2 DEF ForkAdd

-----------------------------------------------------------------------------
(* Steps at rest: no state, entry or durable record changes, and at most   *)
(* one task, with nothing to lose, changes.                                *)

Rests(t) ==
    LET r == task[t]
        q == task'[t]
    IN
    /\ \A u \in Task \ {t} : task'[u] = task[u]
    /\ \A x \in Sandbox : store'[x].state = store[x].state
    /\ UNCHANGED <<disk, deletions, progress, used>>
    /\ \/ q = r
       \/ /\ q.sb \in {r.sb, None} /\ q.child \in {r.child, None}
          /\ ~q.locked /\ q.entry = None /\ q.pc \notin {"purge", "deleteEnd", "capture"}
          /\ Claim(q) = "none" /\ \A x \in Sandbox : ~Births(q, x)
    /\ \A x \in q.rest : x \in r.rest \/ StateOf(x) # "Absent"
    /\ \A x \in sweep'.todo : x \in sweep.todo \/ StateOf(x) # "Absent"

(* A step at rest keeps the invariant. *)
LEMMA RestsInvariant ==
  ASSUME Shared, Tasks, Tasks', Inv, NEW t \in Task, Rests(t)
  PROVE  Inv'
  <1> DEFINE q == task'[t]
  <1>1. /\ None \notin Sandbox
        /\ \A u \in Task \ {t} : task'[u] = task[u]
        /\ \A x \in Sandbox : store'[x].state = store[x].state
        /\ UNCHANGED <<disk, deletions, progress, used>>
        /\ \/ q = task[t]
           \/ /\ q.sb \in {task[t].sb, None} /\ q.child \in {task[t].child, None}
              /\ ~q.locked /\ q.entry = None /\ q.pc \notin {"purge", "deleteEnd", "capture"}
              /\ Claim(q) = "none" /\ \A x \in Sandbox : ~Births(q, x)
        /\ \A x \in q.rest : x \in task[t].rest \/ StateOf(x) # "Absent"
        /\ \A x \in sweep'.todo : x \in sweep.todo \/ StateOf(x) # "Absent"
    BY ZenonT(60), ConstantsAssumption DEF Rests
  <1>2. \A u \in Task : Claim(task'[u]) # "none" => task'[u] = task[u] /\ Sb(u) \in Sandbox
    <2>1. \A u \in Task : Claim(task'[u]) # "none" => task'[u] = task[u]
      BY ZenonT(60), <1>1
    <2>2. QED
      BY ZenonT(60), <2>1, ClaimantHasSandbox
  <1>3. OneClaimant'
    <2>1. SUFFICES ASSUME NEW u \in Task, Claim(task'[u]) # "none",
                          store'[task'[u].sb].state # "Absent"
                   PROVE  /\ store'[task'[u].sb].state = Claim(task'[u])
                          /\ \A w \in Task \ {u} :
                               task'[w].sb = task'[u].sb => Claim(task'[w]) = "none"
      BY ZenonT(60) DEF OneClaimant, StateOf, Sb
    <2>2. task'[u] = task[u] /\ Sb(u) \in Sandbox /\ task'[u].sb = Sb(u)
      BY ZenonT(60), <1>2, <2>1 DEF Sb
    <2>3. store'[Sb(u)].state = StateOf(Sb(u))
      BY ZenonT(60), <1>1, <2>2 DEF StateOf
    <2>4. /\ StateOf(Sb(u)) = Claim(task[u])
          /\ \A w \in Task \ {u} : Sb(w) = Sb(u) => Claim(task[w]) = "none"
      BY ZenonT(60), <2>1, <2>2, <2>3 DEF Inv, OneClaimant
    <2>5. QED
      BY ZenonT(60), <1>2, <2>2, <2>3, <2>4 DEF Sb
  <1>4. \A u \in Task : task'[u].entry # None => task'[u] = task[u] /\ Sb(u) \in Sandbox
    <2>1. \A u \in Task : task'[u].entry # None => task'[u] = task[u]
      BY ZenonT(60), <1>1
    <2>2. \A u \in Task : task[u].entry # None => Sb(u) \in Sandbox
      BY ZenonT(60), Fields DEF Placed, Sb
    <2>3. QED
      BY ZenonT(60), <2>1, <2>2
  <1>5. Serialised'
    <2>1. \A u \in Task : task'[u].locked => task'[u] = task[u]
      BY ZenonT(60), <1>1
    <2>2. \A u, w \in Task : task'[u].locked /\ task'[w].locked /\ task'[u].sb = task'[w].sb
                               /\ task'[u].entry = task'[w].entry => u = w
      BY ZenonT(60), <2>1 DEF Inv, Serialised, Sb
    <2>3. ASSUME NEW u \in Task, task'[u].entry # None, store'[task'[u].sb].state # "Absent"
          PROVE  deletions'[task'[u].sb] = task'[u].entry
      <3>1. task'[u] = task[u] /\ Sb(u) \in Sandbox /\ task'[u].sb = Sb(u)
        BY ZenonT(60), <1>4, <2>3 DEF Sb
      <3>2. StateOf(Sb(u)) # "Absent"
        BY ZenonT(60), <1>1, <2>3, <3>1 DEF StateOf
      <3>3. deletions[Sb(u)] = task[u].entry
        BY ZenonT(60), <2>3, <3>1, <3>2 DEF Inv, Serialised
      <3>4. QED
        BY ZenonT(60), <1>1, <3>1, <3>3
    <2>4. QED
      BY ZenonT(60), <2>2, <2>3 DEF Serialised, StateOf, Sb
  <1>6. Committed'
    <2>1. \A u \in Task : task'[u].pc \in {"purge", "deleteEnd", "capture"} =>
            task'[u] = task[u] /\ Sb(u) \in Sandbox
      <3>1. \A u \in Task : task'[u].pc \in {"purge", "deleteEnd", "capture"} => task'[u] = task[u]
        BY ZenonT(60), <1>1
      <3>2. QED
        BY ZenonT(60), <3>1, HasSandbox
    <2>2. QED
      BY <1>1, <2>1 DEF Inv, Committed, StateOf, Sb, Progress, At
  <1>7. Untouched'
    <2>1. \A u \in Task, x \in Sandbox : Births(task'[u], x) => task'[u] = task[u]
      BY ZenonT(60), <1>1
    <2>2. \A u, w \in Task, x \in Sandbox :
            Births(task'[u], x) => x \in used' /\ (Births(task'[w], x) => u = w)
      BY ZenonT(60), <1>1, <2>1 DEF Inv, Untouched
    <2>3. ASSUME NEW x \in Sandbox, x \notin used' \/ \E u \in Task : Births(task'[u], x)
          PROVE  /\ store'[x].state = "Absent"
                 /\ x \notin sweep'.todo
                 /\ \A e \in Task : progress'[x][e] = "Capture"
                 /\ \A u \in Task : /\ task'[u].sb = x \/ task'[u].child = x => Births(task'[u], x)
                                    /\ x \notin task'[u].rest
      <3>1. Fresh(x)
        BY ZenonT(60), <1>1, <2>1, <2>3 DEF Fresh
      <3>2. /\ StateOf(x) = "Absent" /\ x \notin sweep.todo
            /\ \A e \in Task : progress[x][e] = "Capture"
            /\ \A u \in Task : /\ Sb(u) = x \/ task[u].child = x => Births(task[u], x)
                               /\ x \notin task[u].rest
        BY <3>1 DEF Inv, Untouched
      <3>3. Births(task[t], x) => task'[t] = task[t]
        <4>1. SUFFICES ASSUME Births(task[t], x)
                       PROVE  task'[t] = task[t]
          OBVIOUS
        <4>2. x \in used
          BY ZenonT(60), <4>1 DEF Inv, Untouched
        <4>3. PICK u \in Task : Births(task'[u], x)
          BY ZenonT(60), <1>1, <2>3, <4>2
        <4>4. task'[u] = task[u] /\ u = t
          BY ZenonT(60), <2>1, <4>1, <4>3 DEF Inv, Untouched
        <4>5. QED
          BY <4>4
      <3>4. \A u \in Task : /\ task'[u].sb = x \/ task'[u].child = x => Births(task'[u], x)
                            /\ x \notin task'[u].rest
        BY ZenonT(60), <1>1, <3>2, <3>3 DEF Sb
      <3>5. QED
        BY ZenonT(60), <1>1, <3>2, <3>4 DEF StateOf
    <2>4. \A x \in Sandbox \ used' : disk'[x] = NoDisk
      BY ZenonT(60), <1>1 DEF Inv, Untouched
    <2>5. QED
      BY ZenonT(60), <2>2, <2>3, <2>4 DEF Untouched, Fresh, StateOf, Sb
  <1>8. QED
    BY ZenonT(60), <1>3, <1>5, <1>6, <1>7 DEF Inv

(* What the clock and the shutdown cleanup do by themselves. *)
LEMMA SweepRests ==
  ASSUME Shared, Tasks, Tasks', Inv,
         \/ SweepList \/ SweepReturn \/ SweepNextPass \/ Shutdown
         \/ \E s \in Sandbox : SweepWait(s) \/ Expire(s)
  PROVE  Inv'
  <1> USE DEF At, runtimeVars, pinVars, deleteVars, nodeVars, sweepFrame
  <1>1. Sweeper \in Task /\ sweep \in SweepSet
    BY ConstantsAssumption DEF Shared
  <1>2. ASSUME task' = task, store' = store, UNCHANGED <<disk, deletions, progress, used>>,
               \A x \in sweep'.todo : x \in sweep.todo \/ StateOf(x) # "Absent"
        PROVE  Inv'
    <2>1. Rests(Sweeper)
      BY <1>2 DEF Rests
    <2>2. QED
      BY ZenonT(60), <1>1, <2>1, RestsInvariant
  <1>3. CASE SweepList
    <2> DEFINE found == {s \in Sandbox : StateOf(s) \notin {"Absent", "Paused"}}
    <2>1. \A x \in sweep'.todo : x \in sweep.todo \/ StateOf(x) # "Absent"
      BY <1>1, <1>3 DEF SweepList, SweepSet
    <2>2. QED
      BY <1>2, <1>3, <2>1 DEF SweepList
  <1>4. CASE SweepNextPass \/ Shutdown
    <2>1. sweep'.todo = sweep.todo
      BY ZenonT(60), <1>1, <1>4 DEF SweepNextPass, Shutdown, SweepSet
    <2>2. QED
      BY <1>2, <1>4, <2>1 DEF SweepNextPass, Shutdown
  <1>5. ASSUME NEW s \in Sandbox, SweepWait(s)
        PROVE  Inv'
    <2>1. sweep'.todo \subseteq sweep.todo
      BY ZenonT(60), <1>1, <1>5 DEF SweepWait, SweepSet
    <2>2. QED
      BY ZenonT(60), <1>2, <1>5, <2>1 DEF SweepWait
  <1>6. ASSUME NEW s \in Sandbox, Expire(s)
        PROVE  Inv'
    <2>1. \A x \in Sandbox : store'[x].state = store[x].state
      BY <1>6, DueStates DEF Expire
    <2>2. Rests(Sweeper)
      BY ZenonT(60), <1>6, <2>1 DEF Rests, Expire
    <2>3. QED
      BY <1>1, <2>2, RestsInvariant
  <1>7. CASE SweepReturn
    <2>1. sweep'.todo \subseteq sweep.todo
      BY <1>1, <1>7 DEF SweepReturn, SweepSet
    <2>2. task'[Sweeper] = IdleTask /\ \A u \in Task \ {Sweeper} : task'[u] = task[u]
      BY ZenonT(60), <1>1, <1>7, BecomesOne DEF SweepReturn
    <2>3. /\ IdleTask.sb = None /\ IdleTask.child = None /\ IdleTask.rest = {}
          /\ ~IdleTask.locked /\ IdleTask.entry = None /\ IdleTask.pc = "idle"
      BY ZenonT(60) DEF IdleTask
    <2>4. Claim(IdleTask) = "none" /\ \A x \in Sandbox : ~Births(IdleTask, x)
      BY ZenonT(60), <2>3, ClaimTable DEF FreeLabels, Births
    <2>5. UNCHANGED <<store, disk, deletions, progress, used>>
      BY ZenonT(60), <1>7 DEF SweepReturn
    <2>6. Rests(Sweeper)
      BY ZenonT(60), <2>1, <2>2, <2>3, <2>4, <2>5 DEF Rests
    <2>7. QED
      BY <1>1, <2>6, RestsInvariant
  <1>8. QED
    BY ZenonT(60), <1>3, <1>4, <1>5, <1>6, <1>7

(* The shutdown cleanup's calls take up sandboxes it has listed. *)
LEMMA SweepInvariant ==
  ASSUME Shared, Tasks, Tasks', Inv, SweepStep
  PROVE  Inv'
  <1> USE DEF runtimeVars, pinVars, deleteVars, sweepFrame
  <1>1. Sweeper \in Task /\ sweep \in SweepSet
    BY ConstantsAssumption DEF Shared
  <1>2. ASSUME NEW s \in Sandbox, SweepPause(s)
        PROVE  Inv'
    <2>1. ~Fresh(s) /\ sweep'.todo \subseteq sweep.todo
      BY <1>1, <1>2 DEF SweepPause, SweepSet, Inv, Untouched
    <2>2. QED
      BY ZenonT(60), <1>1, <1>2, <2>1, PauseCallStarts DEF SweepPause
  <1>3. ASSUME NEW s \in Sandbox, SweepDelete(s)
        PROVE  Inv'
    <2>1. ~Fresh(s) /\ sweep'.todo \subseteq sweep.todo
      BY <1>1, <1>3 DEF SweepDelete, SweepSet, Inv, Untouched
    <2>2. QED
      BY ZenonT(60), <1>1, <1>3, <2>1, DeleteCallStarts DEF SweepDelete
  <1>4. QED
    BY ZenonT(60), <1>2, <1>3, SweepRests DEF SweepStep

(* Requests. *)
LEMMA RequestInvariant ==
  ASSUME Shared, Tasks, Tasks', Inv, NEW t \in Task, Request(t)
  PROVE  Inv'
  <1> USE DEF At, runtimeVars, pinVars, deleteVars, nodeVars
  <1>1. CASE Evict(t)
    <2> DEFINE q == [task[t] EXCEPT !.pc = "evictNext", !.op = "evict", !.rest = Overdue]
    <2>1. /\ q.pc = "evictNext" /\ q.sb = task[t].sb /\ q.child = task[t].child
          /\ q.rest = Overdue /\ q.locked = task[t].locked /\ q.entry = task[t].entry
      BY Fields DEF TaskSet
    <2>2. task[t].entry = None /\ ~task[t].locked
      BY <1>1, Fields DEF Evict, Placed
    <2>3. Becomes(t, q) /\ UNCHANGED <<store, disk, deletions, progress, used, sweep>>
      BY <1>1 DEF Evict
    <2> HIDE DEF q
    <2>4. task'[t] = q /\ \A u \in Task \ {t} : task'[u] = task[u]
      BY ZenonT(60), <2>3, BecomesOne
    <2>5. Claim(q) = "none" /\ \A x \in Sandbox : ~Births(q, x)
      BY <2>1, ClaimTable DEF FreeLabels, Births
    <2>6. \A x \in Overdue : StateOf(x) # "Absent"
      BY ZenonT(60) DEF Overdue
    <2>7. Rests(t)
      BY ZenonT(60), <2>1, <2>2, <2>3, <2>4, <2>5, <2>6 DEF Rests
    <2>8. QED
      BY <2>7, RestsInvariant
  <1>2. ASSUME NEW s \in Sandbox, Create(t, s)
        PROVE  Inv'
    <2> DEFINE q == Started("create", s, "build")
    <2>1. /\ q.pc = "build" /\ q.op = "create" /\ q.sb = s /\ q.child = None /\ q.rest = {}
          /\ q.locked = FALSE /\ q.entry = None
      BY DEF Started, IdleTask
    <2>2. Becomes(t, q)
      BY <1>2 DEF Create
    <2> HIDE DEF q
    <2>3. task'[t] = q /\ \A u \in Task \ {t} : task'[u] = task[u]
      BY ZenonT(60), <2>2, BecomesOne
    <2>4. Claim(q) = "none" /\ \A x \in Sandbox : Births(q, x) <=> x = s
      BY ZenonT(60), <2>1, LaunchTable DEF CreateLabels, Births
    <2>5. Draws(t, s)
      BY ZenonT(60), <1>2, <2>1, <2>3, <2>4 DEF Draws, Create
    <2>6. QED
      BY <2>5, DrawsInvariant
  <1>3. ASSUME NEW s \in Sandbox, NEW c \in Sandbox, Fork(t, s, c)
        PROVE  Inv'
    <2> DEFINE q == [Started("fork", s, "forkHandle") EXCEPT !.child = c]
    <2>1. /\ q.pc = "forkHandle" /\ q.op = "fork" /\ q.sb = s /\ q.child = c /\ q.rest = {}
          /\ q.locked = FALSE /\ q.entry = None
      BY DEF Started, IdleTask
    <2>2. Becomes(t, q)
      BY <1>3 DEF Fork
    <2> HIDE DEF q
    <2>3. task'[t] = q /\ \A u \in Task \ {t} : task'[u] = task[u]
      BY ZenonT(60), <2>2, BecomesOne
    <2>4. Claim(q) = "none" /\ \A x \in Sandbox : Births(q, x) <=> x = c
      BY <2>1, ClaimTable DEF FreeLabels, Births
    <2>5. ~Fresh(s)
      BY <1>3, BeginsKnown DEF Fork
    <2>6. Draws(t, c)
      BY ZenonT(60), <1>3, <2>1, <2>3, <2>4, <2>5 DEF Draws, Fork
    <2>7. QED
      BY <2>6, DrawsInvariant
  <1>4. ASSUME NEW s \in Sandbox, Pause(t, s)
        PROVE  Inv'
    <2>1. ~Fresh(s)
      BY <1>4, BeginsKnown DEF Pause
    <2>2. QED
      BY <1>4, <2>1, PauseCallStarts DEF Pause
  <1>5. ASSUME NEW s \in Sandbox, Delete(t, s)
        PROVE  Inv'
    <2>1. ~Fresh(s)
      BY <1>5, BeginsKnown DEF Delete
    <2>2. QED
      BY ZenonT(60), <1>5, <2>1, DeleteCallStarts DEF Delete
  <1>6. ASSUME NEW s \in Sandbox, Resume(t, s) \/ Snapshot(t, s) \/ KeepAlive(t, s)
        PROVE  Inv'
    <2>1. ~Fresh(s)
      BY ZenonT(60), <1>6, BeginsKnown DEF Resume, Snapshot, KeepAlive
    <2>2. /\ \A u \in Task \ {t} : task'[u] = task[u]
          /\ Claim(task'[t]) = "none"
          /\ task'[t].sb = s /\ task'[t].child = None /\ task'[t].rest = {}
          /\ task'[t].locked = FALSE /\ task'[t].entry = None
          /\ task'[t].op \in {"resume", "snapshot", "keepAlive"}
          /\ task'[t].pc \in {"resumeClaim", "wait", "touch", "done", "snapClaim"}
      <3>1. CASE Resume(t, s)
        BY ZenonT(60), <3>1, DispatchKeeps DEF Resume
      <3>2. CASE Snapshot(t, s)
        <4> DEFINE q == Started("snapshot", s, "snapClaim")
        <4>1. /\ q.pc = "snapClaim" /\ q.op = "snapshot" /\ q.sb = s /\ q.child = None
              /\ q.rest = {} /\ q.locked = FALSE /\ q.entry = None
          BY DEF Started, IdleTask
        <4>2. Becomes(t, q)
          BY ZenonT(60), <3>2 DEF Snapshot
        <4> HIDE DEF q
        <4>3. task'[t] = q /\ \A u \in Task \ {t} : task'[u] = task[u]
          BY <4>2, BecomesOne
        <4>4. QED
          BY <4>1, <4>3, ClaimTable DEF FreeLabels
      <3>3. CASE KeepAlive(t, s)
        <4> DEFINE go   == Started("keepAlive", s, "touch")
                   wait == [go EXCEPT !.pc = "wait", !.prev = StateOf(s), !.next = "keepReread"]
                   fail == Ended("keepAlive", s, "err")
                   Good(q) == /\ q.sb = s /\ q.child = None /\ q.rest = {} /\ q.op = "keepAlive"
                              /\ q.locked = FALSE /\ q.entry = None
        <4>1. Good(go) /\ go.pc = "touch"
          BY DEF Started, IdleTask
        <4>2. Good(wait) /\ wait.pc = "wait"
          BY DEF Started, IdleTask
        <4>3. Good(fail) /\ fail.pc = "done"
          BY DEF Ended, IdleTask
        <4>4. Becomes(t, go) \/ Becomes(t, wait) \/ Becomes(t, fail)
          BY <3>3 DEF KeepAlive
        <4> HIDE DEF go, wait, fail
        <4>5. task'[t] \in {go, wait, fail} /\ \A u \in Task \ {t} : task'[u] = task[u]
          BY ZenonT(60), <4>4, BecomesOne
        <4>6. QED
          BY ZenonT(60), <4>1, <4>2, <4>3, <4>5, ClaimTable DEF FreeLabels
      <3>4. QED
        BY ZenonT(60), <1>6, <3>1, <3>2, <3>3
    <2>3. \A x \in Sandbox : ~Births(task'[t], x)
      BY <2>2 DEF Births
    <2>4. UNCHANGED <<store, disk, deletions, progress, used, sweep>>
      BY ZenonT(60), <1>6 DEF Resume, Snapshot, KeepAlive
    <2>5. Starts(t, s)
      BY <2>1, <2>2, <2>3, <2>4 DEF Starts, StateOf
    <2>6. QED
      BY <2>5, StartsInvariant
  <1>7. QED
    BY ZenonT(60), <1>1, <1>2, <1>3, <1>4, <1>5, <1>6 DEF Request

-----------------------------------------------------------------------------
(* The process starts with nobody at work. *)

(* No task holds anything, and nothing is known of an id not yet drawn. *)
Still ==
    /\ \A u \in Task :
         /\ task[u].pc \in {"idle", "done"} /\ ~task[u].locked /\ task[u].entry = None
         /\ \A x \in Sandbox \ used : Sb(u) # x /\ task[u].child # x /\ x \notin task[u].rest
    /\ \A x \in Sandbox, e \in Task : progress[x][e] = "Capture"
    /\ \A x \in Sandbox \ used : StateOf(x) = "Absent" /\ disk[x] = NoDisk /\ x \notin sweep.todo

(* A node where nobody is at work satisfies the invariant. *)
LEMMA StillInvariant == Still => Inv
  <1>1. SUFFICES ASSUME Still PROVE Inv
    OBVIOUS
  <1>2. \A u \in Task : Claim(task[u]) = "none"
    BY ZenonT(60), <1>1, ClaimTable DEF Still, FreeLabels
  <1>3. \A u \in Task, x \in Sandbox : ~Births(task[u], x)
    BY <1>1 DEF Still, Births
  <1>4. OneClaimant
    BY <1>2 DEF OneClaimant
  <1>5. Serialised
    BY ZenonT(60), <1>1 DEF Serialised, Still
  <1>6. Committed
    BY ZenonT(60), <1>1 DEF Committed, Still, At
  <1>7. Untouched
    BY <1>1, <1>3 DEF Untouched, Still, Fresh
  <1>8. QED
    BY <1>4, <1>5, <1>6, <1>7 DEF Inv

(* A record is loaded only for a sandbox that has one on disk. *)
LEMMA LoadedNothing == ASSUME NEW m PROVE Loaded(NoDisk, m).state = "Absent"
  BY ZenonT(60) DEF Loaded, Loadable, NoDisk, NoRecord

(* Nobody is at work in a node that has just started. *)
LEMMA InitStill == Init => Still
  <1>1. SUFFICES ASSUME Init PROVE Still
    BY ZenonT(60)
  <1>2. /\ IdleTask.sb = None /\ IdleTask.child = None /\ IdleTask.rest = {}
        /\ ~IdleTask.locked /\ IdleTask.entry = None /\ IdleTask.pc = "idle"
    BY DEF IdleTask
  <1>3. None \notin Sandbox
    BY ZenonT(60), ConstantsAssumption
  <1>4. \A u \in Task : task[u] = IdleTask
    BY <1>1 DEF Init
  <1>5. \A u \in Task :
         /\ task[u].pc \in {"idle", "done"} /\ ~task[u].locked /\ task[u].entry = None
         /\ \A x \in Sandbox \ used : Sb(u) # x /\ task[u].child # x /\ x \notin task[u].rest
    BY ZenonT(60), <1>2, <1>3, <1>4 DEF Sb
  <1>6. \A x \in Sandbox, e \in Task : progress[x][e] = "Capture"
    BY <1>1 DEF Init
  <1>7. \A x \in Sandbox \ used : disk[x] = NoDisk
    BY <1>1 DEF Init
  <1>8. \A x \in Sandbox : store[x] = Loaded(disk[x], nodeMode)
    BY <1>1 DEF Init
  <1>9. sweep.todo = {}
    BY ZenonT(60), <1>1 DEF Init, NoSweep
  <1>10. \A x \in Sandbox \ used : StateOf(x) = "Absent"
    BY ZenonT(60), <1>7, <1>8, LoadedNothing DEF StateOf
  <1>11. QED
    BY ZenonT(60), <1>5, <1>6, <1>7, <1>9, <1>10 DEF Still

(* Nor in one that starts again after a crash. *)
LEMMA RestartStill ==
  ASSUME Shared, Tasks, Inv, NEW m \in Mode, Restart(m)
  PROVE  Still'
  <1>0. None \notin Sandbox
    BY ZenonT(60), ConstantsAssumption
  <1>1. ASSUME NEW u \in Task
        PROVE  /\ task'[u].pc \in {"idle", "done"} /\ ~task'[u].locked /\ task'[u].entry = None
               /\ \A x \in Sandbox \ used :
                    task'[u].sb # x /\ task'[u].child # x /\ x \notin task'[u].rest
    <2>1. \A x \in Sandbox \ used : Sb(u) # x /\ task[u].child # x /\ x \notin task[u].rest
      BY ZenonT(60) DEF Inv, Untouched, Fresh
    <2> DEFINE lost == Ended(task[u].op, task[u].sb, "lost")
    <2>2. /\ lost.pc = "done" /\ lost.sb = task[u].sb /\ lost.child = None /\ lost.rest = {}
          /\ lost.locked = FALSE /\ lost.entry = None
      BY ZenonT(60) DEF Ended, IdleTask
    <2>3. /\ IdleTask.sb = None /\ IdleTask.child = None /\ IdleTask.rest = {}
          /\ IdleTask.locked = FALSE /\ IdleTask.entry = None /\ IdleTask.pc = "idle"
      BY ZenonT(60) DEF IdleTask
    <2>3a. task'[u] = IF u # Sweeper /\ Active(u) THEN lost
                      ELSE IF u = Sweeper THEN IdleTask ELSE task[u]
      BY ZenonT(60) DEF Restart
    <2> HIDE DEF lost
    <2>4. \/ task'[u] = lost \/ task'[u] = IdleTask
          \/ task'[u] = task[u] /\ task[u].pc \in {"idle", "done"}
      BY ZenonT(60), <2>3a DEF Active
    <2>5. task[u].pc \in {"idle", "done"} => task[u].entry = None /\ ~task[u].locked
      BY ZenonT(60), Fields DEF Placed
    <2>6. CASE task'[u] = lost
      BY ZenonT(60), <1>0, <2>1, <2>2, <2>6 DEF Sb
    <2>7. CASE task'[u] = IdleTask
      BY ZenonT(60), <1>0, <2>3, <2>7
    <2>8. CASE task'[u] = task[u] /\ task[u].pc \in {"idle", "done"}
      BY ZenonT(60), <2>1, <2>5, <2>8 DEF Sb
    <2>9. QED
      BY ZenonT(60), <2>4, <2>6, <2>7, <2>8
  <1>2. \A x \in Sandbox, e \in Task : progress'[x][e] = "Capture"
    BY ZenonT(60) DEF Restart
  <1>3. \A x \in Sandbox \ used : disk[x] = NoDisk
    BY DEF Inv, Untouched
  <1>4. \A x \in Sandbox : /\ store'[x] = Loaded(disk[x], m)
                           /\ disk'[x] = IF Loadable(disk[x]) THEN disk[x] ELSE NoDisk
    BY DEF Restart
  <1>5. \A x \in Sandbox \ used : store'[x].state = "Absent" /\ disk'[x] = NoDisk
    BY ZenonT(60), <1>3, <1>4, LoadedNothing
  <1>6. sweep'.todo = {} /\ used' = used
    BY DEF Restart, NoSweep
  <1>7. QED
    BY ZenonT(60), <1>1, <1>2, <1>5, <1>6 DEF Still, StateOf, Sb

-----------------------------------------------------------------------------
(* The invariant holds throughout. *)

(* Every step of an accepted operation keeps the invariant. *)
LEMMA StepInvariant ==
  ASSUME Shared, Tasks, Tasks', Inv, NEW t \in Task, Step(t)
  PROVE  Inv'
  <1>1. CASE AddRecord(t)
    BY <1>1, AddRecordInvariant
  <1>2. CASE ForkAdd(t)
    BY ZenonT(60), <1>2, ForkAddInvariant
  <1>3. CASE EvictNext(t)
    BY <1>3, EvictNextStarts
  <1>4. CASE ~AddRecord(t) /\ ~ForkAdd(t) /\ ~EvictNext(t)
    <2>1. Plain(t)
      BY ZenonT(60), <1>4, WakePlain, LaunchPlain, PausePlain, DeletePlain, CapturePlain DEF Step
    <2>2. QED
      BY <2>1, PlainInvariant
  <1>5. QED
    BY <1>1, <1>2, <1>3, <1>4

(* Every step of the node keeps the invariant. *)
LEMMA NextInvariant ==
  ASSUME Shared, Tasks, Inv, [Next]_vars
  PROVE  Inv'
  <1>1. Tasks'
    BY NextType
  <1>2. ASSUME NEW t \in Task, Request(t) \/ Step(t)
        PROVE  Inv'
    BY <1>1, <1>2, RequestInvariant, StepInvariant
  <1>3. CASE SweepStep
    BY <1>1, <1>3, SweepInvariant
  <1>4. CASE Environment
    <2>1. ASSUME NEW m \in Mode, Restart(m)
          PROVE  Inv'
      <3>1. Still'
        BY <2>1, RestartStill
      <3>2. Still' => Inv'
        BY StillInvariant, PTL
      <3>3. QED
        BY <3>1, <3>2
    <2>2. QED
      BY <1>1, <1>4, <2>1, SweepRests DEF Environment
  <1>5. CASE UNCHANGED vars
    <2>1. Rests(Sweeper)
      BY <1>5 DEF Rests, vars
    <2>2. QED
      BY ZenonT(60), <1>1, <2>1, RestsInvariant, ConstantsAssumption
  <1>6. QED
    BY <1>2, <1>3, <1>4, <1>5 DEF Next

(* ClaimInvariant, the inductive strengthening of OneClaimant, holds in    *)
(* every reachable state, for any number of sandboxes, operations and      *)
(* failures.                                                               *)
THEOREM ClaimsHeld == Spec => []ClaimInvariant
  <1> DEFINE All == Shared /\ Tasks /\ Inv
  <1>1. Init => All
    BY InitType, InitStill, StillInvariant
  <1>2. All /\ [Next]_vars => All'
    BY NextType, NextInvariant
  <1>3. All => ClaimInvariant
    BY DEF ClaimInvariant, Tasks, Inv
  <1>4. QED
    BY <1>1, <1>2, <1>3, PTL DEF Spec

(* The transitional states are locks: an operation that works on a sandbox *)
(* under one finds the record in that state or removed, and no other       *)
(* operation works on the sandbox meanwhile.                               *)
THEOREM ClaimsExclude == Spec => []OneClaimant
  <1>1. ClaimInvariant => OneClaimant
    BY DEF ClaimInvariant
  <1>2. QED
    BY <1>1, ClaimsHeld, PTL
=============================================================================
