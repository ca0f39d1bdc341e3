----------------------------- MODULE Instances -----------------------------
(***************************************************************************)
(* The processes that yprocmon launches: POST /api/run (src/src/yhttp.h)   *)
(* creates one with yhook.dll in it and files it in state.instances under  *)
(* its pid; a thread per process, _detour_program (src/src/yprocmon.cc),   *)
(* resumes it, waits for its end and updates that entry.                   *)
(*                                                                         *)
(* An entry owns the std::thread of its waiter, so the map is also where   *)
(* threads live and die: assigning over, or detaching, a thread in the     *)
(* wrong state ends the program.  All of it happens under state_mutex, in  *)
(* critical sections that do not block, hence in one action each.          *)
(***************************************************************************)
EXTENDS Naturals, FiniteSets

CONSTANTS
  Requests,  \* the run requests; each creates at most one process
  Pids,      \* the process ids the system gives out
  NoPid      \* "no process"

ASSUME PidsAssumption == NoPid \notin Pids

VARIABLES
  run,        \* progress of the handler of each request
  pid,        \* PROCESS_INFORMATION.dwProcessId of its process
  proc,       \* state of that process
  closed,     \* its handles were closed; the program never does that
  waiter,     \* progress of _detour_program for it
  instances,  \* state.instances, as the entries it holds
  crashed     \* std::terminate was called

vars == <<run, pid, proc, closed, waiter, instances, crashed>>

(* instance_entry: owner is the request it was made for; thread whether    *)
(* its member waiting can be joined.                                       *)
Entry == [pid : Pids, owner : Requests, status : {"spawned", "exited"},
          thread : {"joinable", "detached"}]

TypeOK ==
  /\ run \in [Requests -> {"idle", "launched", "done", "failed"}]
  /\ pid \in [Requests -> Pids \cup {NoPid}]
  /\ proc \in [Requests -> {"none", "suspended", "running", "exited"}]
  /\ closed \in [Requests -> BOOLEAN]
  /\ waiter \in [Requests -> {"none", "started", "waiting", "woken", "done"}]
  /\ instances \subseteq Entry
  /\ \A e, f \in instances : e.pid = f.pid => e = f
  /\ crashed \in BOOLEAN

Init ==
  /\ run       = [r \in Requests |-> "idle"]
  /\ pid       = [r \in Requests |-> NoPid]
  /\ proc      = [r \in Requests |-> "none"]
  /\ closed    = [r \in Requests |-> FALSE]
  /\ waiter    = [r \in Requests |-> "none"]
  /\ instances = {}
  /\ crashed   = FALSE

(* The system does not reuse a pid while the process lives or anybody has  *)
(* a handle of it.                                                         *)
InUse == {pid[r] : r \in {q \in Requests : proc[q] # "exited" \/ ~closed[q]}}

EntryOf(p) == {e \in instances : e.pid = p}

(* detour_program: the process is created suspended and its waiter         *)
(* started; the entry is still a local of the handler.                     *)
Launch(r) ==
  /\ run[r] = "idle"
  /\ \E p \in Pids \ InUse : pid' = [pid EXCEPT ![r] = p]
  /\ run'    = [run    EXCEPT ![r] = "launched"]
  /\ proc'   = [proc   EXCEPT ![r] = "suspended"]
  /\ waiter' = [waiter EXCEPT ![r] = "started"]
  /\ UNCHANGED <<closed, instances, crashed>>

(* No name was given, or DetourCreateProcessWithDlls fails: status 500.    *)
LaunchFails(r) ==
  /\ run[r] = "idle" /\ run' = [run EXCEPT ![r] = "failed"]
  /\ UNCHANGED <<pid, proc, closed, waiter, instances, crashed>>

Inserted(r) == [pid |-> pid[r], owner |-> r, status |-> "spawned", thread |-> "joinable"]

(* state.instances[pid] = std::move(e), after which the request is         *)
(* answered.  Moving onto a thread that can be joined calls terminate.     *)
Insert(r) ==
  /\ run[r] = "launched"
  /\ run' = [run EXCEPT ![r] = "done"]
  /\ instances' = (instances \ EntryOf(pid[r])) \cup {Inserted(r)}
  /\ crashed' = \E e \in EntryOf(pid[r]) : e.thread = "joinable"
  /\ UNCHANGED <<pid, proc, closed, waiter>>

-----------------------------------------------------------------------------
(* _detour_program.                                                        *)

Resume(r) ==
  /\ waiter[r] = "started"
  /\ waiter' = [waiter EXCEPT ![r] = "waiting"]
  /\ proc'   = [proc   EXCEPT ![r] = "running"]
  /\ UNCHANGED <<run, pid, closed, instances, crashed>>

(* The process ends.                                                       *)
Exit(r) ==
  /\ proc[r] = "running" /\ proc' = [proc EXCEPT ![r] = "exited"]
  /\ UNCHANGED <<run, pid, closed, waiter, instances, crashed>>

(* Mutants: the process handle is closed before the entry is updated; the  *)
(* thread does not wait.                                                   *)
WaitAndClose(r) ==
  /\ waiter[r] = "waiting" /\ proc[r] = "exited"
  /\ waiter' = [waiter EXCEPT ![r] = "woken"]
  /\ closed' = [closed EXCEPT ![r] = TRUE]
  /\ UNCHANGED <<run, pid, proc, instances, crashed>>

WaitForNothing(r) ==
  /\ waiter[r] = "waiting"
  /\ waiter' = [waiter EXCEPT ![r] = "woken"]
  /\ UNCHANGED <<run, pid, proc, closed, instances, crashed>>

(* WaitForSingleObject and GetExitCodeProcess.                             *)
Wait(r) ==
  /\ waiter[r] = "waiting" /\ proc[r] = "exited"
  /\ waiter' = [waiter EXCEPT ![r] = "woken"]
  /\ UNCHANGED <<run, pid, proc, closed, instances, crashed>>

Marked(e) == [e EXCEPT !.status = "exited", !.thread = "detached"]

(* Mutant: the count is compared the wrong way round.                      *)
UpdateNothing(r) ==
  /\ waiter[r] = "woken"
  /\ waiter' = [waiter EXCEPT ![r] = "done"]
  /\ UNCHANGED <<run, pid, proc, closed, instances, crashed>>

(* The entry of this pid, if there is one, is marked, and its thread,      *)
(* which is this one, detached; a thread that cannot be joined would throw.*)
(* With none yet, nothing is left to do it later.                          *)
Update(r) ==
  /\ waiter[r] = "woken"
  /\ waiter' = [waiter EXCEPT ![r] = "done"]
  /\ LET old == EntryOf(pid[r]) IN
     /\ instances' = (instances \ old) \cup {Marked(e) : e \in old}
     /\ crashed' = \E e \in old : e.thread = "detached"
  /\ UNCHANGED <<run, pid, proc, closed>>

Waiter(r) == Resume(r) \/ Wait(r) \/ Update(r)

Next ==
  /\ ~crashed
  /\ \E r \in Requests : Launch(r) \/ LaunchFails(r) \/ Insert(r) \/ Exit(r) \/ Waiter(r)

(* Handlers and waiters go on; a process may run for ever.                 *)
Fairness ==
  \A r \in Requests : WF_vars(~crashed /\ Insert(r)) /\ WF_vars(~crashed /\ Waiter(r))

Spec == Init /\ [][Next]_vars /\ Fairness
-----------------------------------------------------------------------------
(* Properties.                                                             *)

(* No entry is assigned over a live one and none is detached twice         *)
(* (yhttp.h:141, yprocmon.cc:76), because no pid comes back: the handles   *)
(* of a process are never closed, and every waiter keeps its own copy.     *)
NeverTerminates == ~crashed

(* An entry shows "exited" only if the process it was made for has ended,  *)
(* however late its waiter looks it up by pid.                             *)
RightVerdict ==
  \A e \in instances : e.status = "exited" => proc[e.owner] = "exited"

(* A request that was answered has its entry, and no other request's,      *)
(* under its pid: what /api/run returned can be found in /api/instances.   *)
Found ==
  \A r \in Requests :
    run[r] = "done" => \E e \in instances : e.pid = pid[r] /\ e.owner = r

(* A process that ends after its entry was filed, or whose waiter has not  *)
(* looked for the entry before, is shown as exited in the end.  (A waiter  *)
(* that looks earlier leaves it "spawned" for ever, yprocmon.cc:72.)       *)
Settles ==
  \A r \in Requests :
    run[r] = "done" /\ proc[r] = "exited" /\ waiter[r] # "done"
      ~> \E e \in instances : e.owner = r /\ e.status = "exited"
=============================================================================
