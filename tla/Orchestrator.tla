----------------------------- MODULE Orchestrator -----------------------------
(***************************************************************************)
(* The orchestrator of one node: every lifecycle operation, the auto-evict *)
(* pass and the shutdown cleanup, interleaved, over the state they share   *)
(* (src/orchestrator/service.rs).                                          *)
(***************************************************************************)
EXTENDS LaunchOps, CaptureOps, ShutdownOps

ASSUME ConstantsAssumption ==
    /\ Sweeper \in Task
    /\ Builder \subseteq Sandbox /\ Mounted \subseteq Sandbox
    /\ DeleteOnTimeout \subseteq Sandbox
    /\ MaxPasses \in Nat \ {0}
    /\ None \notin Task \cup Sandbox \cup Mode \cup {Boot}
    /\ Boot \notin Task
    /\ Task \cap Sandbox = {}

(* A node that has just started on whatever paused sandboxes it found. *)
Init ==
    /\ nodeMode \in Mode
    /\ \E known \in SUBSET Sandbox, m \in Mode :
          disk = [s \in Sandbox |-> IF s \in known
                                    THEN [life |-> "paused", gen |-> Boot, mode |-> m]
                                    ELSE NoDisk]
    /\ store = [s \in Sandbox |-> Loaded(disk[s], nodeMode)]
    /\ handles = [s \in Sandbox |-> None]
    /\ routes = [s \in Sandbox |-> None]
    /\ vm = [v \in VM |-> "none"]
    /\ startPins = {}
    /\ pausePins = {s \in Sandbox : store[s].paused # None}
    /\ deletions = [s \in Sandbox |-> None]
    /\ progress = [s \in Sandbox |-> [t \in Task |-> "Capture"]]
    /\ shutting = FALSE
    /\ used = {s \in Sandbox : disk[s] # NoDisk}
    /\ task = [t \in Task |-> IdleTask]
    /\ sweep = NoSweep

(* What callers, the clock and the operator do. *)
Request(t) ==
    \/ Evict(t)
    \/ \E s \in Sandbox :
          \/ Create(t, s) \/ Resume(t, s) \/ Pause(t, s) \/ Delete(t, s)
          \/ Snapshot(t, s) \/ KeepAlive(t, s)
          \/ \E c \in Sandbox : Fork(t, s, c)

Environment ==
    \/ \E s \in Sandbox : Expire(s)
    \/ Shutdown
    \/ \E m \in Mode : Restart(m)

(* What the runtime does on behalf of an accepted operation. *)
Step(t) ==
    \/ Wake(t) \/ WaitTimesOut(t)
    \/ LaunchStep(t) \/ PauseStep(t) \/ DeleteStep(t) \/ CaptureStep(t)

Next ==
    \/ \E t \in Task : Request(t) \/ Step(t)
    \/ SweepStep
    \/ Environment

Spec == Init /\ [][Next]_vars

(* The runtime polls every spawned operation, and the shutdown cleanup,    *)
(* that can go on; nobody is obliged to make a request.                    *)
Fairness == (\A t \in Task : WF_vars(Step(t))) /\ WF_vars(SweepStep)

FairSpec == Spec /\ Fairness

-----------------------------------------------------------------------------
(* Which transitional state an operation holds at each point of its code.  *)

LaunchLabels  == {"pin", "start", "insert", "unpinStart", "ready", "publish"}
PauseLabels   == {"pausePin", "alloc", "pauseDetach", "freeze", "persist", "thaw",
                  "reattach", "condemn", "publishPaused"}
UndoLabels    == {"launchDetach", "launchStop", "rollback"}
KillLabels    == {"deleteDetach", "capture", "deleteStop", "release"}

Claim(r) ==
    CASE r.op = "resume" /\ r.pc \in {"mark", "markPut", "build"} \cup LaunchLabels -> "Resuming"
      [] r.op = "resume" /\ r.pc \in UndoLabels /\ r.prev = "Resuming" -> "Resuming"
      [] r.op = "create" /\ r.pc \in {"ready", "publish"} -> "Creating"
      [] r.op = "create" /\ r.pc \in UndoLabels /\ r.prev = "Creating" -> "Creating"
      [] r.pc \in PauseLabels -> "Pausing"
      [] r.pc \in KillLabels -> "Killing"
      [] r.pc \in {"snapHandle", "snap"} -> "Snapshotting"
      [] r.pc \in {"fork", "forkRestore"} -> "Forking"
      [] OTHER -> "none"

-----------------------------------------------------------------------------
(* Properties. *)

VMState   == {"none", "up", "frozen", "down"}
Outcome   == {"none", "ok", "err", "lost"}
Phase     == State \cup {"Absent"}
DiskSet   == [life : {"none", "paused", "resuming"}, gen : Option(Gen),
              mode : Option(Mode)]
RecordSet == [state : Phase, paused : Option(Gen),
              mode : Option(Mode), due : BOOLEAN]
OpName    == {"none", "create", "resume", "pause", "delete", "evict", "snapshot", "fork",
              "keepAlive"}
Label     == LaunchLabels \cup PauseLabels \cup UndoLabels \cup KillLabels \cup
             {"idle", "done", "wait", "resumeReread", "touch", "resumeClaim", "resumeJoined",
              "mark", "markPut", "build", "add", "target", "route", "forget", "unpinPaused",
              "unmark", "unmarkPut", "pauseJoined", "pauseUnpin", "pauseStop", "deleteLock",
              "deleteClaim", "deleteWoken", "purge", "deleteEnd", "evictNext", "evictLock",
              "evictClaim", "snapClaim", "snapHandle", "snap", "forkHandle", "forkClaim",
              "fork", "forkRestore", "forkAdd", "forkInsert", "forkRoute", "keepReread"}
TaskSet   == [pc : Label, op : OpName, sb : Option(Sandbox),
              child : Option(Sandbox), hd : Option(VM), rt : Option(VM),
              gen : Option(Gen), rec : DiskSet, prev : Phase,
              next : Label, entry : Option(Task), locked : BOOLEAN,
              cap : BOOLEAN, rest : SUBSET Sandbox, res : Outcome]
SweepSet  == [pc : {"off", "list", "each", "call", "end"}, pass : 0..MaxPasses,
              todo : SUBSET Sandbox, seen : [Sandbox -> Phase],
              failed : SUBSET Sandbox, at : Option(Sandbox), res : Outcome]

(* Every variable keeps its type; a durable record in particular carries   *)
(* only the lifecycles the persister writes and load_all knows.            *)
TypeOK ==
    /\ store \in [Sandbox -> RecordSet]
    /\ handles \in [Sandbox -> Option(VM)]
    /\ routes \in [Sandbox -> Option(VM)]
    /\ vm \in [VM -> VMState]
    /\ startPins \subseteq Sandbox /\ pausePins \subseteq Sandbox
    /\ disk \in [Sandbox -> DiskSet]
    /\ deletions \in [Sandbox -> Option(Task)]
    /\ progress \in [Sandbox -> [Task -> {"Capture", "Stop", "Release", "Done"}]]
    /\ shutting \in BOOLEAN
    /\ used \subseteq Sandbox
    /\ nodeMode \in Mode
    /\ task \in [Task -> TaskSet]
    /\ sweep \in SweepSet

(* The store's compare-and-set is the only lock between operations: while  *)
(* one works under a transitional state, the record shows that state or    *)
(* has been removed, and no other operation works on the same sandbox.     *)
OneClaimant ==
    \A t \in Task : Claim(task[t]) # "none" /\ StateOf(Sb(t)) # "Absent" =>
        /\ StateOf(Sb(t)) = Claim(task[t])
        /\ \A u \in Task \ {t} : Sb(u) = Sb(t) => Claim(task[u]) = "none"

(* A sandbox is in a transitional state only while an operation that will  *)
(* move it on is working under that state, so nobody waits in vain; the    *)
(* exception is a sandbox in Killing whose delete failed and whose next    *)
(* delete will take up where that one stopped.                             *)
Settled ==
    \A s \in Sandbox : StateOf(s) \in Transitional =>
        \/ \E t \in Task : Sb(t) = s /\ Claim(task[t]) = StateOf(s)
        \/ /\ StateOf(s) = "Killing" /\ deletions[s] # None
           /\ progress[s][deletions[s]] \in {"Stop", "Release"}

(* A paused sandbox at rest can be restored after a restart: its durable   *)
(* record exists and holds the capture the store would resume from.        *)
PausedIsDurable ==
    \A s \in Sandbox : Quiescent(s) /\ StateOf(s) = "Paused" /\ store[s].paused # None =>
        disk[s].life = "paused" /\ disk[s].gen = store[s].paused

(* A paused sandbox at rest keeps its image layers from being collected:   *)
(* pause_sandbox protects them in the Paused namespace and a launch        *)
(* releases them only once the sandbox runs.                               *)
PausedIsPinned ==
    \A s \in Sandbox : Quiescent(s) /\ StateOf(s) = "Paused" /\ store[s].paused # None =>
        s \in pausePins

(* A running sandbox at rest has a running VM and a proxy route to it,     *)
(* whatever operations detached and reattached it on the way.              *)
RunningIsRouted ==
    \A s \in Sandbox : Quiescent(s) /\ StateOf(s) = "Running" =>
        handles[s] # None /\ vm[handles[s]] = "up" /\ routes[s] = handles[s]

(* A proxy route leads only to the attached VM: a launch publishes its     *)
(* route only while its handle is the current one, and handle and route    *)
(* are detached together.                                                  *)
RouteFollowsHandle ==
    \A s \in Sandbox : routes[s] # None => routes[s] = handles[s]

(* shutdown reports success only when it has preserved every sandbox: once *)
(* the operations it overtook have returned, each one still known is       *)
(* paused.                                                                 *)
ShutdownPreserves ==
    sweep.pc = "end" /\ sweep.res = "ok" =>
        \A s \in Sandbox : Quiescent(s) => StateOf(s) \in {"Absent", "Paused"}

(* A resume never comes to the point where it has marked the durable       *)
(* record and finds that it has no paused state to launch from.            *)
ResumeHasState ==
    \A t \in Task : At(t, "markPut") => task[t].gen # None

(* A fork that reads or makes the sandbox has not returned, or a snapshot  *)
(* of it that may still fail.                                              *)
CaptureUnderWay(s) ==
    \E t \in Task :
        /\ Active(t)
        /\ \/ task[t].op = "fork" /\ s \in {task[t].sb, task[t].child}
           \/ task[t].op = "snapshot" /\ task[t].sb = s /\ "snapshot" \in Faults

(* While no call of a pause or a resume fails and the process does not     *)
(* end, only a delete takes a sandbox that has been running away: no       *)
(* pause, resume, eviction, keep-alive or shutdown does, nor what a fork   *)
(* or a snapshot that has returned left behind.  Excepted are a template   *)
(* builder, which is nobody's to keep, and a sandbox that a fork under way *)
(* reads or makes, or a snapshot that may fail.                            *)
NothingDropped ==
    [][\A s \in Sandbox \ Builder :
          StateOf(s) \notin {"Absent", "Creating", "Killing"} /\ ~CaptureUnderWay(s)
              => StateOf(s)' # "Absent"]_vars

(* The same of every sandbox.  It does not hold: a forked child is Running *)
(* before its handle is inserted, and a pause that finds no handle removes *)
(* the record; a fork that looked up its source's handle before a pause    *)
(* and a resume finds another VM's record and removes it when it fails.    *)
OnlyDeletesRemove ==
    [][\A s \in Sandbox \ Builder :
          StateOf(s) \notin {"Absent", "Creating", "Killing"} => StateOf(s)' # "Absent"]_vars

(* Every accepted operation returns, although no wait_for_transition ever  *)
(* times out: deletes, pauses and the operations they wait for do not wait *)
(* for each other.                                                         *)
OperationsEnd == \A t \in Task : Active(t) ~> ~Active(t)

(* shutdown returns: its passes over the sandboxes come to an end.         *)
ShutdownEnds == shutting ~> sweep.pc = "end"

(* What a resume launches is the paused state the metadata store holds     *)
(* while it has the sandbox claimed.                                       *)
ResumesCurrent ==
    \A t \in Task : At(t, "build") /\ task[t].op = "resume" =>
        task[t].gen = store[Sb(t)].paused

(* A sandbox whose delete_sandbox returned success is gone, and so is its  *)
(* durable record: a restart does not bring it back.                       *)
DeletedIsGone ==
    \A t \in Task : task[t].op = "delete" /\ task[t].res = "ok" /\ Quiescent(Sb(t)) =>
        StateOf(Sb(t)) = "Absent" /\ disk[Sb(t)] = NoDisk

(* Sandbox a VM was started for. *)
HostOf(v) == IF v \in Sandbox THEN v ELSE task[v].sb

(* No two VMs of one sandbox execute at the same time: a pause publishes   *)
(* Paused before it stops the VM, but after it has frozen it.              *)
OneVMExecutes ==
    \A v, w \in VM : vm[v] = "up" /\ vm[w] = "up" /\ Referenced(v) /\ Referenced(w)
                       /\ HostOf(v) = HostOf(w) => v = w

-----------------------------------------------------------------------------
(* The orchestrator implements SandboxLifecycle. *)

Holder(s) ==
    LET holds == {t \in Task : Claim(task[t]) # "none" /\ Sb(t) = s}
    IN  IF StateOf(s) = "Absent" \/ holds = {} THEN None ELSE CHOOSE t \in holds : TRUE

Lifecycle == INSTANCE SandboxLifecycle
             WITH phase <- [s \in Sandbox |-> StateOf(s)],
                  holder <- [s \in Sandbox |-> Holder(s)]

(* Every step but a restart moves at most one sandbox along its lifecycle; *)
(* a sandbox is claimed only at rest, and of the operations only the one   *)
(* that holds it settles it.                                               *)
ImplementsLifecycle == Lifecycle!Spec
=============================================================================
