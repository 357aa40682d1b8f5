---------------------------- MODULE ClaimShapes -----------------------------
(***************************************************************************)
(* Most steps of the node have one shape: an operation goes on with its    *)
(* sandbox.  This module proves once that a step of that shape, Plain,     *)
(* keeps the inductive invariant behind OneClaimant, and collects the      *)
(* lemmas by which a step is shown to have it.                             *)
(***************************************************************************)
EXTENDS OrchestratorTypeProofs

Inv == OneClaimant /\ Serialised /\ Committed /\ Untouched

(* How an operation's own record may change while it goes on: it forgets   *)
(* things and is given nothing new but the mutex of its entry.             *)
Keeps(t, q) ==
    LET r == task[t] IN
    /\ q.sb = r.sb \/ (q.sb = None /\ Claim(q) = "none")
    /\ q.child \in {r.child, None}
    /\ q.rest \subseteq r.rest
    /\ q.locked => r.locked \/ ~Locked(r.sb, r.entry)
    /\ q.entry # None => q.entry = r.entry /\ q.sb = r.sb
    /\ \A x \in Sandbox : Births(q, x) => Births(r, x)

(* The state p1 and the record q that the step of an operation leaves, for *)
(* the state p it found: it keeps or drops its claim and leaves the state  *)
(* alone; it takes or moves a sandbox at rest; it gives its claim up; it   *)
(* removes the record; or it takes up a delete that was left half way.     *)
Advances(t, p, p1, q) ==
    LET c == Claim(task[t]) IN
    \/ p1 = p /\ Claim(q) \in {c, "none"}
    \/ p \in {"Running", "Paused"} /\ Claim(q) \in {"none", p1}
    \/ c # "none" /\ Claim(q) = "none" /\ (c = "Killing" => Progress(t) = "Capture")
    \/ p1 = "Absent"
    \/ /\ p1 = p /\ Claim(q) = "Killing"
       /\ task[t].entry \in Task /\ ~Locked(Sb(t), task[t].entry)
       /\ Progress(t) \in {"Stop", "Release"}

(* Only the holder of an entry's mutex moves its progress, and past the    *)
(* capture only while it has the sandbox in Killing.                       *)
Progresses(t, p1, q) ==
    \A x \in Sandbox, e \in Task : progress'[x][e] # progress[x][e] =>
        /\ x = Sb(t) /\ e = task[t].entry /\ task[t].locked /\ q.pc # "capture"
        /\ p1 # "Absent" => p1 = "Killing" /\ StateOf(x) = "Killing"

Plain(t) ==
    LET s  == Sb(t)
        p1 == store'[Sb(t)].state
        q  == task'[t]
    IN
    /\ s \in Sandbox
    /\ \A u \in Task \ {t} : task'[u] = task[u]
    /\ \A x \in Sandbox \ {s} : store'[x].state = store[x].state /\ disk'[x] = disk[x]
    /\ StateOf(s) = "Absent" => p1 = "Absent"
    /\ \A x \in Sandbox : deletions'[x] = deletions[x] \/ store'[x].state = "Absent"
    /\ Progresses(t, p1, q)
    /\ q.pc \in {"purge", "deleteEnd"} => p1 = "Absent"
    /\ q.pc = "capture" => Progress(t) = "Capture"
    /\ Keeps(t, q)
    /\ Advances(t, StateOf(s), p1, q)
    /\ used' = used /\ sweep' = sweep

-----------------------------------------------------------------------------
(* What a record's label says about its claim. *)

(* Only the operations on a delete's way past its claim hold Killing. *)
LEMMA KillingClaim ==
  ASSUME NEW r
  PROVE  /\ Claim(r) = "Killing" <=> r.pc \in KillLabels
         /\ Claim(r) \notin {"Absent", "Running", "Paused"}
         /\ Claim(r) # "none" => r.pc \notin {"idle", "done", "evictNext", "deleteLock"}
  BY DEF Claim, KillLabels, LaunchLabels, UndoLabels, PauseLabels

(* A task that has a claim works on a sandbox. *)
LEMMA ClaimantHasSandbox ==
  ASSUME Tasks, NEW u \in Task, Claim(task[u]) # "none"
  PROVE  Sb(u) \in Sandbox
  BY KillingClaim, HasSandbox

(* The birth of an id is recorded in one of two places. *)
LEMMA BirthsMention ==
  ASSUME NEW r, NEW s, Births(r, s)
  PROVE  /\ r.op \in {"create", "fork"}
         /\ r.sb = s \/ r.child = s
  BY DEF Births

-----------------------------------------------------------------------------
(* A step of the plain shape keeps each part of the invariant. *)

(* OneClaimant *)
LEMMA PlainClaim ==
  ASSUME Shared, Tasks, Tasks', Inv, NEW t \in Task, Plain(t)
  PROVE  OneClaimant'
  <1> DEFINE s  == Sb(t)
             p  == StateOf(Sb(t))
             p1 == store'[Sb(t)].state
             q  == task'[t]
  <1>1. s \in Sandbox /\ None \notin Sandbox
    BY ConstantsAssumption DEF Plain
  <1>2. \A u \in Task \ {t} : task'[u] = task[u]
    BY DEF Plain
  <1>3. SUFFICES ASSUME NEW u \in Task, Claim(task'[u]) # "none",
                        store'[task'[u].sb].state # "Absent"
                 PROVE  /\ store'[task'[u].sb].state = Claim(task'[u])
                        /\ \A w \in Task \ {u} :
                             task'[w].sb = task'[u].sb => Claim(task'[w]) = "none"
    BY DEF OneClaimant, StateOf, Sb
  <1>4. task'[u].sb \in Sandbox
    <2>1. task'[u].pc \notin {"idle", "done", "evictNext"} /\ Placed(task'[u])
      BY <1>3, KillingClaim DEF Tasks
    <2>2. QED
      BY <2>1 DEF Placed
  <1>5. q.sb = s \/ (q.sb = None /\ Claim(q) = "none")
    BY DEF Plain, Keeps, Sb
  <1>6. CASE task'[u].sb # s
    <2>1. u # t /\ task'[u] = task[u]
      BY ZenonT(60), <1>1, <1>2, <1>4, <1>5, <1>6
    <2>2. store'[Sb(u)].state = StateOf(Sb(u)) /\ Sb(u) = task'[u].sb
      BY ZenonT(60), <1>4, <1>6, <2>1 DEF Plain, StateOf, Sb
    <2>3. /\ StateOf(Sb(u)) = Claim(task[u])
          /\ \A w \in Task \ {u} : Sb(w) = Sb(u) => Claim(task[w]) = "none"
      BY ZenonT(60), <1>3, <2>1, <2>2 DEF Inv, OneClaimant
    <2>4. QED
      BY <1>1, <1>2, <1>4, <1>5, <1>6, <2>1, <2>2, <2>3 DEF Sb
  <1>7. CASE task'[u].sb = s
    <2>1. p1 # "Absent" /\ p # "Absent"
      BY <1>3, <1>7 DEF Plain
    <2>2. \A w \in Task : Sb(w) = s /\ Claim(task[w]) # "none" =>
            p = Claim(task[w]) /\ \A v \in Task \ {w} : Sb(v) = s => Claim(task[v]) = "none"
      BY <2>1 DEF Inv, OneClaimant
    <2>3. \A w \in Task : w # t /\ task'[w].sb = s => Sb(w) = s /\ Claim(task'[w]) = Claim(task[w])
      BY <1>2 DEF Sb
    <2>4. CASE p1 = p /\ Claim(q) \in {Claim(task[t]), "none"}
      BY <1>3, <1>7, <2>2, <2>3, <2>4
    <2>5. CASE p \in {"Running", "Paused"} /\ Claim(q) \in {"none", p1}
      <3>1. \A w \in Task : Sb(w) = s => Claim(task[w]) = "none"
        BY <2>2, <2>5, KillingClaim
      <3>2. QED
        BY <1>3, <1>7, <2>3, <2>5, <3>1
    <2>6. CASE Claim(task[t]) # "none" /\ Claim(q) = "none"
      BY <1>3, <1>7, <2>2, <2>3, <2>6
    <2>7. CASE /\ p1 = p /\ Claim(q) = "Killing"
               /\ task[t].entry \in Task /\ ~Locked(Sb(t), task[t].entry)
               /\ Progress(t) \in {"Stop", "Release"}
      <3>1. p = "Killing" /\ deletions[s] = task[t].entry
        BY <1>1, <2>1, <2>7 DEF Inv, Committed, Progress, Sb
      <3>2. ASSUME NEW w \in Task, Sb(w) = s, Claim(task[w]) # "none"
            PROVE  FALSE
        <4>1. task[w].pc \in KillLabels
          BY ZenonT(60), <2>2, <3>1, <3>2, KillingClaim
        <4>2. task[w].locked /\ task[w].entry # None
          BY <4>1, Fields DEF Placed, MutexLabels
        <4>3. task[w].entry = deletions[s]
          BY <2>1, <3>2, <4>2 DEF Inv, Serialised
        <4>4. QED
          BY <2>7, <3>1, <3>2, <4>2, <4>3 DEF Locked, Sb
      <3>3. QED
        BY ZenonT(60), <1>3, <1>7, <2>3, <2>7, <3>1, <3>2
    <2>8. QED
      BY <2>1, <2>4, <2>5, <2>6, <2>7 DEF Plain, Advances
  <1>8. QED
    BY <1>6, <1>7

(* Serialised *)
LEMMA PlainSerialised ==
  ASSUME Shared, Tasks, Tasks', Inv, NEW t \in Task, Plain(t)
  PROVE  Serialised'
  <1>1. \A u \in Task \ {t} : task'[u] = task[u]
    BY DEF Plain
  <1>2. /\ task'[t].locked => task[t].locked \/ ~Locked(task[t].sb, task[t].entry)
        /\ task'[t].entry # None => task'[t].entry = task[t].entry /\ task'[t].sb = task[t].sb
    BY ZenonT(60) DEF Plain, Keeps
  <1>3. \A u \in Task : task'[u].locked => task'[u].entry # None
    BY DEF Tasks, Placed
  <1>4. ASSUME NEW u \in Task, NEW w \in Task, task'[u].locked, task'[w].locked,
               task'[u].sb = task'[w].sb, task'[u].entry = task'[w].entry
        PROVE  u = w
    <2>1. \A v \in Task : task'[v].locked =>
            task'[v].entry = task[v].entry /\ task'[v].sb = task[v].sb
      BY <1>1, <1>2, <1>3
    <2>2. \A v \in Task \ {t} : task'[v].locked => task[v].locked
      BY <1>1
    <2>3. task[u].sb = task[w].sb /\ task[u].entry = task[w].entry
      BY <1>4, <2>1
    <2>4. CASE task[u].locked /\ task[w].locked
      BY <2>3, <2>4 DEF Inv, Serialised, Sb
    <2>5. CASE ~task[u].locked
      <3>1. u = t /\ ~Locked(task[t].sb, task[t].entry)
        BY ZenonT(60), <1>2, <1>4, <2>2, <2>5
      <3>2. QED
        BY <1>4, <2>2, <2>3, <3>1 DEF Locked
    <2>6. CASE ~task[w].locked
      <3>1. w = t /\ ~Locked(task[t].sb, task[t].entry)
        BY <1>2, <1>4, <2>2, <2>6
      <3>2. QED
        BY ZenonT(60), <1>4, <2>2, <2>3, <3>1 DEF Locked
    <2>7. QED
      BY <2>4, <2>5, <2>6
  <1>5. ASSUME NEW u \in Task, task'[u].entry # None, store'[task'[u].sb].state # "Absent"
        PROVE  deletions'[task'[u].sb] = task'[u].entry
    <2>1. task'[u].entry = task[u].entry /\ task'[u].sb = task[u].sb
      BY ZenonT(60), <1>1, <1>2, <1>5
    <2>2. Sb(u) \in Sandbox
      BY ZenonT(60), <1>5, <2>1, Fields DEF Placed, Sb
    <2>3. StateOf(Sb(u)) # "Absent" /\ deletions'[Sb(u)] = deletions[Sb(u)]
      BY <1>5, <2>1, <2>2 DEF Plain, StateOf, Sb
    <2>4. QED
      BY <1>5, <2>1, <2>3 DEF Inv, Serialised, Sb
  <1>6. QED
    BY <1>4, <1>5 DEF Serialised, StateOf, Sb

(* Committed *)
LEMMA PlainCommitted ==
  ASSUME Shared, Tasks, Tasks', Inv, NEW t \in Task, Plain(t)
  PROVE  Committed'
  <1> DEFINE s  == Sb(t)
             p1 == store'[Sb(t)].state
             q  == task'[t]
  <1>1. s \in Sandbox /\ \A u \in Task \ {t} : task'[u] = task[u]
    BY DEF Plain
  <1>2. \A x \in Sandbox : store'[x].state # "Absent" =>
          StateOf(x) # "Absent" /\ deletions'[x] = deletions[x]
    BY DEF Plain, StateOf
  <1>3. ASSUME NEW x \in Sandbox, NEW e \in Task, progress'[x][e] # progress[x][e]
        PROVE  /\ x = s /\ e = task[t].entry /\ task[t].locked /\ q.pc # "capture"
               /\ p1 # "Absent" => p1 = "Killing" /\ StateOf(x) = "Killing"
    BY <1>3 DEF Plain, Progresses
  <1>4. ASSUME NEW x \in Sandbox, NEW e \in Task, store'[x].state # "Absent",
               progress'[x][e] \in {"Stop", "Release"}
        PROVE  store'[x].state = "Killing" /\ deletions'[x] = e
    <2>1. CASE progress'[x][e] # progress[x][e]
      <3>1. x = s /\ e = task[t].entry /\ store'[x].state = "Killing"
        BY <1>3, <1>4, <2>1
      <3>2. e # None
        BY ConstantsAssumption
      <3>3. deletions[x] = e
        BY <1>2, <1>4, <3>1, <3>2 DEF Inv, Serialised, Sb
      <3>4. QED
        BY <1>2, <1>4, <3>1, <3>3
    <2>2. CASE progress'[x][e] = progress[x][e]
      <3>1. StateOf(x) = "Killing" /\ deletions[x] = e /\ deletions'[x] = e
        BY ZenonT(60), <1>2, <1>4, <2>2 DEF Inv, Committed
      <3>2. CASE x # s
        BY ZenonT(60), <3>1, <3>2 DEF Plain, StateOf
      <3>3. CASE x = s
        <4>1. Claim(task[t]) # "none" => Claim(task[t]) = "Killing"
          BY <3>1, <3>3 DEF Inv, OneClaimant
        <4>2. Claim(task[t]) = "Killing" => Progress(t) = progress[x][e]
          <5>1. SUFFICES ASSUME Claim(task[t]) = "Killing"
                         PROVE  task[t].entry = e
            BY ZenonT(60), <3>3 DEF Progress, Sb
          <5>2. task[t].entry # None
            BY ZenonT(60), <5>1, KillingClaim, Fields DEF Placed, MutexLabels
          <5>3. QED
            BY ZenonT(60), <3>1, <3>3, <5>2 DEF Inv, Serialised
        <4>3. Progress(t) = "Capture" => Claim(task[t]) # "Killing"
          BY <1>4, <2>2, <4>2
        <4>4. QED
          BY ZenonT(60), <1>4, <3>1, <3>3, <4>1, <4>3 DEF Plain, Advances, StateOf
      <3>4. QED
        BY <3>2, <3>3
    <2>3. QED
      BY <2>1, <2>2
  <1>5. ASSUME NEW u \in Task, task'[u].pc = "capture"
        PROVE  progress'[task'[u].sb][task'[u].entry] = "Capture"
    <2>1. /\ task'[u].sb \in Sandbox /\ task'[u].locked /\ task'[u].entry # None
          /\ task'[u].entry \in Task
      <3>1. Placed(task'[u]) /\ task'[u] \in TaskSet
        BY DEF Tasks
      <3>2. QED
        BY <1>5, <3>1 DEF Placed, MutexLabels, KillLabels, TaskSet, Option
    <2>2. task'[u].sb = task[u].sb /\ task'[u].entry = task[u].entry
      BY <1>1, <2>1 DEF Plain, Keeps
    <2>3. progress[Sb(u)][task[u].entry] = "Capture"
      <3>1. CASE u = t
        BY ZenonT(60), <1>5, <3>1 DEF Plain, Progress, Sb
      <3>2. CASE u # t
        BY <1>1, <1>5, <3>2 DEF Inv, Committed, At, Progress, Sb
      <3>3. QED
        BY ZenonT(60), <3>1, <3>2
    <2>4. progress'[task'[u].sb][task'[u].entry] = progress[Sb(u)][task[u].entry]
      <3>1. SUFFICES ASSUME progress'[task'[u].sb][task'[u].entry]
                              # progress[task'[u].sb][task'[u].entry]
                     PROVE  FALSE
        BY <2>2 DEF Sb
      <3>2. /\ task'[u].sb = s /\ task'[u].entry = task[t].entry
            /\ task[t].locked /\ q.pc # "capture"
        BY <1>3, <2>1, <3>1
      <3>3. u # t /\ task[u].locked
        BY <1>1, <1>5, <2>1, <3>2
      <3>4. QED
        BY ZenonT(60), <2>2, <3>2, <3>3 DEF Inv, Serialised, Sb
    <2>5. QED
      BY ZenonT(60), <2>3, <2>4
  <1>6. ASSUME NEW u \in Task, task'[u].pc \in {"purge", "deleteEnd"}
        PROVE  store'[task'[u].sb].state = "Absent"
    <2>1. task'[u].sb \in Sandbox /\ task'[u].locked /\ task'[u].entry # None
      <3>1. Placed(task'[u])
        BY ZenonT(60) DEF Tasks
      <3>2. QED
        BY <1>6, <3>1 DEF Placed, MutexLabels
    <2>2. CASE u = t
      BY ZenonT(60), <1>6, <2>1, <2>2 DEF Plain, Keeps, Sb
    <2>3. CASE u # t
      <3>1. StateOf(Sb(u)) = "Absent" /\ Sb(u) = task'[u].sb
        BY <1>1, <1>6, <2>3 DEF Inv, Committed, Sb
      <3>2. QED
        BY <1>2, <2>1, <3>1
    <2>4. QED
      BY ZenonT(60), <2>2, <2>3
  <1>7. QED
    BY ZenonT(60), <1>4, <1>5, <1>6 DEF Committed, StateOf, Progress, At, Sb

(* Untouched *)
LEMMA PlainUntouched ==
  ASSUME Shared, Tasks, Tasks', Inv, NEW t \in Task, Plain(t)
  PROVE  Untouched'
  <1> DEFINE s  == Sb(t)
             q  == task'[t]
  <1>1. s \in Sandbox /\ (\A u \in Task \ {t} : task'[u] = task[u]) /\ used' = used
        /\ sweep' = sweep
    BY ZenonT(60) DEF Plain
  <1>2. \A u \in Task, x \in Sandbox : Births(task'[u], x) => Births(task[u], x)
    BY ZenonT(60), <1>1 DEF Plain, Keeps
  <1>3. \A u \in Task, x \in Sandbox :
          /\ task'[u].sb = x => Sb(u) = x
          /\ task'[u].child = x => task[u].child = x
          /\ x \in task'[u].rest => x \in task[u].rest
    <2>1. Keeps(t, q) /\ None \notin Sandbox
      BY ZenonT(60), ConstantsAssumption DEF Plain
    <2>2. \A x \in Sandbox : /\ q.sb = x => task[t].sb = x
                             /\ q.child = x => task[t].child = x
                             /\ x \in q.rest => x \in task[t].rest
      BY ZenonT(60), <2>1 DEF Keeps
    <2>3. QED
      BY ZenonT(60), <1>1, <2>2 DEF Sb
  <1>4. \A u, w \in Task, x \in Sandbox :
          Births(task'[u], x) => x \in used' /\ (Births(task'[w], x) => u = w)
    BY <1>1, <1>2 DEF Inv, Untouched
  <1>5. ASSUME NEW x \in Sandbox, x \notin used' \/ \E u \in Task : Births(task'[u], x)
        PROVE  /\ store'[x].state = "Absent"
               /\ x \notin sweep'.todo
               /\ \A e \in Task : progress'[x][e] = "Capture"
               /\ \A u \in Task : /\ task'[u].sb = x \/ task'[u].child = x => Births(task'[u], x)
                                  /\ x \notin task'[u].rest
    <2>1. Fresh(x)
      BY ZenonT(60), <1>1, <1>2, <1>5 DEF Fresh
    <2>2. /\ StateOf(x) = "Absent" /\ x \notin sweep.todo
          /\ \A e \in Task : progress[x][e] = "Capture"
          /\ \A u \in Task : /\ Sb(u) = x \/ task[u].child = x => Births(task[u], x)
                             /\ x \notin task[u].rest
      BY ZenonT(60), <2>1 DEF Inv, Untouched
    <2>3. store'[x].state = "Absent"
      BY ZenonT(60), <2>2 DEF Plain, StateOf
    <2>4. ASSUME NEW e \in Task
          PROVE  progress'[x][e] = "Capture"
      <3>1. SUFFICES ASSUME progress'[x][e] # progress[x][e]
                     PROVE  FALSE
        BY <2>2
      <3>2. x = s /\ task[t].locked
        BY <3>1 DEF Plain, Progresses
      <3>3. task[t].op \in {"create", "fork"}
        BY <2>2, <3>2, BirthsMention
      <3>4. QED
        BY <3>2, <3>3, Fields DEF Placed
    <2>5. ASSUME NEW u \in Task
          PROVE  /\ task'[u].sb = x \/ task'[u].child = x => Births(task'[u], x)
                 /\ x \notin task'[u].rest
      <3>1. x \notin task'[u].rest
        BY <1>3, <2>2
      <3>2. ASSUME task'[u].sb = x \/ task'[u].child = x
            PROVE  Births(task'[u], x)
        <4>1. Births(task[u], x)
          BY ZenonT(60), <1>3, <2>2, <3>2
        <4>2. x \in used
          BY <4>1 DEF Inv, Untouched
        <4>3. PICK w \in Task : Births(task'[w], x)
          BY ZenonT(60), <1>1, <1>5, <4>2
        <4>4. w = u
          BY ZenonT(60), <1>2, <4>1, <4>3 DEF Inv, Untouched
        <4>5. QED
          BY <4>3, <4>4
      <3>3. QED
        BY <3>1, <3>2
    <2>6. QED
      BY <1>1, <2>2, <2>3, <2>4, <2>5
  <1>6. ASSUME NEW x \in Sandbox \ used'
        PROVE  disk'[x] = NoDisk
    <2>1. x # s
      <3>1. SUFFICES ASSUME x = s
                     PROVE  FALSE
        OBVIOUS
      <3>2. Births(task[t], x)
        BY <1>1, <3>1 DEF Inv, Untouched, Fresh
      <3>3. QED
        BY <1>1, <3>2 DEF Inv, Untouched
    <2>2. QED
      BY <1>1, <2>1 DEF Plain, Inv, Untouched
  <1>7. QED
    BY <1>4, <1>5, <1>6 DEF Untouched, Fresh, StateOf, Sb

(* So a plain step keeps the invariant. *)
LEMMA PlainInvariant ==
  ASSUME Shared, Tasks, Tasks', Inv, NEW t \in Task, Plain(t)
  PROVE  Inv'
  BY ZenonT(60), PlainClaim, PlainSerialised, PlainCommitted, PlainUntouched DEF Inv

-----------------------------------------------------------------------------
(* Showing that a step has the plain shape. *)

(* What a step of an operation leaves alone. *)
Frame(t) ==
    /\ Sb(t) \in Sandbox
    /\ \A u \in Task \ {t} : task'[u] = task[u]
    /\ \A x \in Sandbox \ {Sb(t)} : store'[x].state = store[x].state /\ disk'[x] = disk[x]
    /\ used' = used /\ sweep' = sweep

(* The operation goes on with the same locals, and has not drawn an id. *)
CreateLabels == {"build", "pin", "start", "insert", "unpinStart", "add"}
ForkLabels   == {"forkHandle", "forkClaim", "fork", "forkRestore", "forkAdd"}

Same(r, q) ==
    /\ q.sb = r.sb /\ q.child = r.child /\ q.rest = r.rest /\ q.op = r.op
    /\ q.entry = r.entry /\ q.locked = r.locked
    /\ q.op = "create" /\ q.pc \in CreateLabels => r.pc \in CreateLabels
    /\ q.op = "fork" /\ q.pc \in ForkLabels => r.pc \in ForkLabels

(* The labels at which an operation holds nothing. *)
FreeLabels == {"idle", "done", "wait", "resumeReread", "touch", "resumeClaim", "resumeJoined",
               "add", "target", "route", "forget", "unpinPaused", "unmark", "unmarkPut",
               "pauseJoined", "pauseUnpin", "pauseStop", "deleteLock", "deleteClaim",
               "deleteWoken", "purge", "deleteEnd", "evictNext", "evictLock", "evictClaim",
               "snapClaim", "forkHandle", "forkClaim", "forkAdd", "forkInsert", "forkRoute",
               "keepReread"}

(* Claim by label. *)
LEMMA ClaimTable ==
  ASSUME NEW r
  PROVE  /\ r.pc \in FreeLabels => Claim(r) = "none"
         /\ r.pc \in PauseLabels => Claim(r) = "Pausing"
         /\ r.pc \in KillLabels => Claim(r) = "Killing"
         /\ r.pc \in {"snapHandle", "snap"} => Claim(r) = "Snapshotting"
         /\ r.pc \in {"fork", "forkRestore"} => Claim(r) = "Forking"
  BY DEF Claim, KillLabels, LaunchLabels, UndoLabels, PauseLabels, FreeLabels

(* The claim of a launch. *)
LEMMA LaunchTable ==
  ASSUME NEW r
  PROVE  /\ r.op = "resume" /\ r.pc \in {"mark", "markPut", "build"} \cup LaunchLabels =>
              Claim(r) = "Resuming"
         /\ r.op = "create" /\ r.pc \in {"ready", "publish"} => Claim(r) = "Creating"
         /\ r.op = "create" /\ r.pc \in CreateLabels => Claim(r) = "none"
         /\ r.op \in {"create", "resume"} /\ r.pc \in UndoLabels =>
              Claim(r) = IF r.prev = (IF r.op = "create" THEN "Creating" ELSE "Resuming")
                         THEN r.prev ELSE "none"
  BY DEF Claim, KillLabels, LaunchLabels, UndoLabels, PauseLabels, CreateLabels

(* A record that keeps its locals is one an operation may go on with. *)
LEMMA SameKeeps ==
  ASSUME Tasks, NEW t \in Task, NEW q, Same(task[t], q)
  PROVE  Keeps(t, q)
  BY DEF Same, Keeps, Births, CreateLabels, ForkLabels

(* The other tasks are left alone. *)
LEMMA BecomesOne ==
  ASSUME Tasks, NEW t \in Task, NEW q, Becomes(t, q)
  PROVE  task'[t] = q /\ \A u \in Task \ {t} : task'[u] = task[u]
  BY DEF Tasks, Becomes

(* Returning. *)
LEMMA Ends ==
  ASSUME Tasks, NEW t \in Task, NEW o, Finish(t, o)
  PROVE  /\ \A u \in Task \ {t} : task'[u] = task[u]
         /\ Keeps(t, task'[t])
         /\ Claim(task'[t]) = "none"
         /\ task'[t].pc \in {"done", "evictNext"}
  <1> DEFINE again == [IdleTask EXCEPT !.pc = "evictNext", !.op = task[t].op,
                                       !.rest = task[t].rest]
             ended == Ended(task[t].op, task[t].sb, o)
  <1>1. /\ again.pc = "evictNext" /\ again.sb = None /\ again.child = None
        /\ again.rest = task[t].rest /\ again.locked = FALSE /\ again.entry = None
    BY DEF IdleTask
  <1>2. /\ ended.pc = "done" /\ ended.sb = task[t].sb /\ ended.child = None
        /\ ended.rest = {} /\ ended.locked = FALSE /\ ended.entry = None
    BY DEF IdleTask, Ended
  <1>3. Claim(again) = "none" /\ Claim(ended) = "none"
    BY ZenonT(60), <1>1, <1>2, ClaimTable DEF FreeLabels
  <1>4. \A x \in Sandbox : ~Births(again, x) /\ ~Births(ended, x)
    BY <1>1, <1>2 DEF Births
  <1>5. task'[t] \in {again, ended} /\ \A u \in Task \ {t} : task'[u] = task[u]
    BY ZenonT(60), BecomesOne DEF Finish
  <1>6. Keeps(t, again) /\ Keeps(t, ended)
    <2> HIDE DEF again, ended
    <2>1. QED
      BY ZenonT(60), <1>1, <1>2, <1>3, <1>4 DEF Keeps
  <1>7. QED
    BY ZenonT(60), <1>1, <1>2, <1>3, <1>5, <1>6

(* Going on at another label. *)
LEMMA Goes ==
  ASSUME Tasks, NEW t \in Task, NEW l, Goto(t, l),
         task[t].op = "create" /\ l \in CreateLabels => task[t].pc \in CreateLabels,
         task[t].op = "fork" /\ l \in ForkLabels => task[t].pc \in ForkLabels
  PROVE  /\ \A u \in Task \ {t} : task'[u] = task[u]
         /\ Keeps(t, task'[t])
         /\ task'[t].pc = l /\ task'[t].op = task[t].op /\ task'[t].prev = task[t].prev
  <1> DEFINE q == [task[t] EXCEPT !.pc = l]
  <1>1. /\ q.sb = task[t].sb /\ q.child = task[t].child /\ q.rest = task[t].rest
        /\ q.op = task[t].op /\ q.entry = task[t].entry /\ q.locked = task[t].locked
        /\ q.pc = l /\ q.prev = task[t].prev
    BY Fields DEF TaskSet
  <1>2. task'[t] = q /\ \A u \in Task \ {t} : task'[u] = task[u]
    BY BecomesOne DEF Goto
  <1> HIDE DEF q
  <1>3. Keeps(t, q)
    BY <1>1, SameKeeps DEF Same
  <1>4. QED
    BY <1>1, <1>2, <1>3

(* What the store's operations do to the states. *)
LEMMA CompareAndSetStates ==
  ASSUME Shared, NEW s \in Sandbox, NEW expected, NEW new, CompareAndSet(s, expected, new)
  PROVE  /\ \A x \in Sandbox \ {s} : store'[x].state = store[x].state
         /\ store'[s].state = IF StateOf(s) \in expected THEN new ELSE StateOf(s)
  BY DEF Shared, CompareAndSet, StateOf, RecordSet

(* Removing a record. *)
LEMMA RemoveStates ==
  ASSUME Shared, NEW s \in Sandbox, RemoveRecord(s)
  PROVE  /\ \A x \in Sandbox \ {s} : store'[x].state = store[x].state
         /\ store'[s].state = "Absent"
  BY ZenonT(60) DEF Shared, RemoveRecord, NoRecord

(* A step that leaves the deletions map alone is plain if its frame, its   *)
(* record and its effect on the state are.                                 *)
LEMMA FramedPlain ==
  ASSUME NEW t \in Task, Frame(t), Keeps(t, task'[t]),
         deletions' = deletions, progress' = progress,
         task'[t].pc \notin {"purge", "deleteEnd", "capture"},
         StateOf(Sb(t)) = "Absent" => store'[Sb(t)].state = "Absent",
         Advances(t, StateOf(Sb(t)), store'[Sb(t)].state, task'[t])
  PROVE  Plain(t)
  BY ZenonT(60) DEF Frame, Plain, Progresses

(* A step that leaves the states alone and at most drops a claim. *)
LEMMA QuietPlain ==
  ASSUME NEW t \in Task, Frame(t), Keeps(t, task'[t]),
         deletions' = deletions, progress' = progress,
         task'[t].pc \notin {"purge", "deleteEnd", "capture"},
         store'[Sb(t)].state = StateOf(Sb(t)),
         Claim(task'[t]) \in {Claim(task[t]), "none"}
  PROVE  Plain(t)
  BY ZenonT(60), FramedPlain DEF Advances

(* A step by which an operation gives its claim, or its sandbox, up. *)
LEMMA ReleasePlain ==
  ASSUME Shared, Inv, NEW t \in Task, Frame(t), Keeps(t, task'[t]),
         deletions' = deletions, progress' = progress,
         task'[t].pc \notin {"purge", "deleteEnd", "capture"},
         StateOf(Sb(t)) = "Absent" => store'[Sb(t)].state = "Absent",
         Claim(task[t]) \notin {"none", "Killing"}, Claim(task'[t]) = "none"
  PROVE  Plain(t)
  BY FramedPlain DEF Advances

(* Moving a deadline leaves the states alone. *)
LEMMA DueStates ==
  ASSUME Shared, NEW s \in Sandbox, NEW due
  PROVE  \A x \in Sandbox : [store EXCEPT ![s].due = due][x].state = store[x].state
  BY DEF Shared, RecordSet

(* Sleeping. *)
LEMMA WaitGoes ==
  ASSUME Tasks, NEW t \in Task, NEW p, NEW n, WaitWhile(t, p, n)
  PROVE  /\ \A u \in Task \ {t} : task'[u] = task[u]
         /\ Keeps(t, task'[t])
         /\ task'[t].pc = "wait"
  <1> DEFINE q == [task[t] EXCEPT !.pc = "wait", !.prev = p, !.next = n]
  <1>1. /\ q.sb = task[t].sb /\ q.child = task[t].child /\ q.rest = task[t].rest
        /\ q.op = task[t].op /\ q.entry = task[t].entry /\ q.locked = task[t].locked
        /\ q.pc = "wait"
    BY Fields DEF TaskSet
  <1>2. task'[t] = q /\ \A u \in Task \ {t} : task'[u] = task[u]
    BY ZenonT(60), BecomesOne DEF WaitWhile
  <1> HIDE DEF q
  <1>3. Keeps(t, q)
    BY <1>1, SameKeeps DEF Same, CreateLabels, ForkLabels
  <1>4. QED
    BY <1>1, <1>2, <1>3

(* Going on with a durable record read. *)
LEMMA ReadGoes ==
  ASSUME Tasks, NEW t \in Task, NEW l, NEW d, l \notin CreateLabels, l \notin ForkLabels,
         Becomes(t, [task[t] EXCEPT !.pc = l, !.rec = d])
  PROVE  /\ \A u \in Task \ {t} : task'[u] = task[u]
         /\ Keeps(t, task'[t])
         /\ task'[t].pc = l /\ task'[t].op = task[t].op
  <1> DEFINE q == [task[t] EXCEPT !.pc = l, !.rec = d]
  <1>1. /\ q.sb = task[t].sb /\ q.child = task[t].child /\ q.rest = task[t].rest
        /\ q.op = task[t].op /\ q.entry = task[t].entry /\ q.locked = task[t].locked
        /\ q.pc = l
    BY Fields DEF TaskSet
  <1>2. task'[t] = q /\ \A u \in Task \ {t} : task'[u] = task[u]
    BY BecomesOne
  <1> HIDE DEF q
  <1>3. Keeps(t, q)
    BY <1>1, SameKeeps DEF Same
  <1>4. QED
    BY ZenonT(60), <1>1, <1>2, <1>3

(* Going on with a VM handle. *)
LEMMA HandleGoes ==
  ASSUME Tasks, NEW t \in Task, NEW l, NEW h,
         Becomes(t, [task[t] EXCEPT !.pc = l, !.hd = h]),
         task[t].op = "create" /\ l \in CreateLabels => task[t].pc \in CreateLabels,
         task[t].op = "fork" /\ l \in ForkLabels => task[t].pc \in ForkLabels
  PROVE  /\ \A u \in Task \ {t} : task'[u] = task[u]
         /\ Keeps(t, task'[t])
         /\ task'[t].pc = l /\ task'[t].op = task[t].op
  <1> DEFINE q == [task[t] EXCEPT !.pc = l, !.hd = h]
  <1>1. /\ q.sb = task[t].sb /\ q.child = task[t].child /\ q.rest = task[t].rest
        /\ q.op = task[t].op /\ q.entry = task[t].entry /\ q.locked = task[t].locked
        /\ q.pc = l
    BY Fields DEF TaskSet
  <1>2. task'[t] = q /\ \A u \in Task \ {t} : task'[u] = task[u]
    BY BecomesOne
  <1> HIDE DEF q
  <1>3. Keeps(t, q)
    BY <1>1, SameKeeps DEF Same
  <1>4. QED
    BY <1>1, <1>2, <1>3

(* Going on with the handle and the route that were detached. *)
LEMMA DetachGoes ==
  ASSUME Tasks, NEW t \in Task, NEW l, NEW h, NEW d, l \notin CreateLabels, l \notin ForkLabels,
         \/ Becomes(t, [task[t] EXCEPT !.pc = l, !.hd = h, !.rt = d])
         \/ Becomes(t, [task[t] EXCEPT !.hd = h, !.rt = d, !.pc = l])
  PROVE  /\ \A u \in Task \ {t} : task'[u] = task[u]
         /\ Keeps(t, task'[t])
         /\ task'[t].pc = l /\ task'[t].op = task[t].op
         /\ task'[t].sb = task[t].sb /\ task'[t].entry = task[t].entry
  <1> DEFINE q1 == [task[t] EXCEPT !.pc = l, !.hd = h, !.rt = d]
             q2 == [task[t] EXCEPT !.hd = h, !.rt = d, !.pc = l]
             Good(q) == /\ q.sb = task[t].sb /\ q.child = task[t].child /\ q.rest = task[t].rest
                        /\ q.op = task[t].op /\ q.entry = task[t].entry
                        /\ q.locked = task[t].locked /\ q.pc = l
  <1>1. Good(q1)
    BY Fields DEF TaskSet
  <1>2. Good(q2)
    BY Fields DEF TaskSet
  <1>3. task'[t] \in {q1, q2} /\ \A u \in Task \ {t} : task'[u] = task[u]
    BY BecomesOne
  <1>4. PICK q \in {q1, q2} : Good(q) /\ task'[t] = q
    BY <1>1, <1>2, <1>3
  <1>5. Keeps(t, q)
    BY <1>4, SameKeeps DEF Same
  <1>6. QED
    BY <1>3, <1>4, <1>5
=============================================================================
