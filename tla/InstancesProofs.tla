-------------------------- MODULE InstancesProofs --------------------------
(* Proofs about Instances, for any number of requests and pids.            *)
EXTENDS Instances, TLAPS

-----------------------------------------------------------------------------
(* The inductive invariant.  What makes the lookups by pid safe is that    *)
(* the system cannot reuse a pid, since no handle is ever closed, ...      *)
NeverClosed == \A r \in Requests : ~closed[r]

(* ... so that no two launches share one; ...                              *)
DistinctPids ==
  \A q, r \in Requests : pid[q] = pid[r] /\ pid[q] # NoPid => q = r

(* ... only launched requests have a process and a waiter, which resumes   *)
(* the process once and is past its wait only if that has ended; ...       *)
Launched(r) == run[r] \in {"launched", "done"}

Launches ==
  \A r \in Requests :
    /\ Launched(r) <=> pid[r] \in Pids
    /\ waiter[r] # "none" => Launched(r)
    /\ waiter[r] = "started" => proc[r] = "suspended"
    /\ waiter[r] \in {"woken", "done"} => proc[r] = "exited"

(* ... and an entry is filed under its owner's pid, once the owner is      *)
(* done, and given up by its thread only at the end of that thread.        *)
Filed(e) ==
  /\ run[e.owner] = "done" /\ pid[e.owner] = e.pid
  /\ e.status = "exited" => proc[e.owner] = "exited"
  /\ e.thread = "detached" => waiter[e.owner] = "done"

Entries == \A e \in instances : Filed(e)

IInv ==
  /\ TypeOK
  /\ NeverClosed /\ DistinctPids /\ Launches /\ Entries
  /\ Found /\ NeverTerminates

-----------------------------------------------------------------------------
(* Lemmas about the operators.                                             *)

(* Marking an entry keeps what it is filed under.                          *)
LEMMA MarkedType ==
  ASSUME NEW e \in Entry
  PROVE  /\ Marked(e) \in Entry
         /\ Marked(e).pid = e.pid /\ Marked(e).owner = e.owner
         /\ Marked(e).status = "exited" /\ Marked(e).thread = "detached"
BY DEF Marked, Entry

(* An entry filed under the pid of a request is that request's own.        *)
LEMMA OwnEntry ==
  ASSUME IInv, NEW r \in Requests, NEW e \in EntryOf(pid[r])
  PROVE  e \in instances /\ e \in Entry /\ e.owner = r /\ e.pid = pid[r]
<1>1. e \in instances /\ e.pid = pid[r]
  BY DEF EntryOf
<1>2. e \in Entry /\ e.owner \in Requests /\ e.pid \in Pids
  BY <1>1 DEF IInv, TypeOK, Entry
<1>3. pid[e.owner] = pid[r] /\ pid[r] # NoPid
  BY <1>1, <1>2, PidsAssumption DEF IInv, Entries, Filed
<1> QED BY <1>1, <1>2, <1>3 DEF IInv, DistinctPids

(* A pid that is free is the pid of no launch.                             *)
LEMMA FreePid ==
  ASSUME IInv, NEW p \in Pids \ InUse, NEW q \in Requests
  PROVE  pid[q] # p
BY DEF IInv, NeverClosed, InUse

(* A request that is about to file its entry finds none in the way.        *)
LEMMA InsertIsFresh ==
  ASSUME IInv, NEW r \in Requests, run[r] = "launched"
  PROVE  EntryOf(pid[r]) = {}
<1> SUFFICES ASSUME NEW e \in EntryOf(pid[r]) PROVE FALSE
  OBVIOUS
<1>1. e \in instances /\ e.owner = r
  BY OwnEntry
<1> QED BY <1>1 DEF IInv, Entries, Filed

(* A waiter finds the thread of its entry still attached.                  *)
LEMMA UpdateIsFirst ==
  ASSUME IInv, NEW r \in Requests, waiter[r] = "woken", NEW e \in EntryOf(pid[r])
  PROVE  e.thread = "joinable"
<1>1. e \in instances /\ e \in Entry /\ e.owner = r
  BY OwnEntry
<1> QED BY <1>1 DEF IInv, Entries, Filed, Entry

-----------------------------------------------------------------------------
(* Insert and Update are the two steps that touch the map.                 *)

LEMMA InsertKeeps ==
  ASSUME IInv, NEW r \in Requests, Insert(r)
  PROVE  IInv'
<1> USE DEF Insert
<1>1. EntryOf(pid[r]) = {}
  BY InsertIsFresh
<1>2. instances' = instances \cup {Inserted(r)}
  BY <1>1
<1>3. pid[r] \in Pids
  BY DEF IInv, Launches, Launched
<1>4. /\ Inserted(r) \in Entry
      /\ Inserted(r).pid = pid[r] /\ Inserted(r).owner = r
      /\ Inserted(r).status = "spawned" /\ Inserted(r).thread = "joinable"
  BY <1>3 DEF Inserted, Entry
<1>5. ~crashed'
  BY <1>1
<1>6. \A e \in instances : e.pid # pid[r]
  BY <1>1 DEF EntryOf
<1>7. run' = [run EXCEPT ![r] = "done"] /\ run'[r] = "done"
  BY DEF IInv, TypeOK
<1>8. TypeOK'
  <2>1. \A e, f \in instances' : e.pid = f.pid => e = f
    BY <1>2, <1>4, <1>6 DEF IInv, TypeOK
  <2>2. instances' \subseteq Entry
    BY <1>2, <1>4 DEF IInv, TypeOK
  <2> QED BY <2>1, <2>2, <1>5, <1>7 DEF IInv, TypeOK
<1>9. (NeverClosed /\ DistinctPids)'
  BY DEF IInv, NeverClosed, DistinctPids
<1>10. Launches'
  BY <1>7 DEF IInv, TypeOK, Launches, Launched
<1>11. Entries'
  <2> SUFFICES ASSUME NEW e \in instances' PROVE Filed(e)'
    BY DEF Entries
  <2>1. CASE e \in instances
    BY <2>1, <1>7 DEF IInv, TypeOK, Entry, Entries, Filed
  <2>2. CASE e = Inserted(r)
    <3>1. e.owner = r /\ e.pid = pid[r] /\ e.status = "spawned" /\ e.thread = "joinable"
      BY <2>2, <1>4
    <3> QED BY <3>1, <1>7 DEF Filed
  <2> QED BY <2>1, <2>2, <1>2
<1>12. Found'
  BY <1>2, <1>4, <1>7 DEF IInv, TypeOK, Found
<1> QED BY <1>5, <1>8, <1>9, <1>10, <1>11, <1>12 DEF IInv, NeverTerminates

LEMMA UpdateKeeps ==
  ASSUME IInv, NEW r \in Requests, Update(r)
  PROVE  IInv'
<1> DEFINE old == EntryOf(pid[r])
<1>1. /\ waiter[r] = "woken" /\ waiter' = [waiter EXCEPT ![r] = "done"]
      /\ instances' = (instances \ old) \cup {Marked(e) : e \in old}
      /\ crashed' = \E e \in old : e.thread = "detached"
      /\ UNCHANGED <<run, pid, proc, closed>>
  BY DEF Update
<1>2. \A e \in old : e.thread = "joinable"
  BY <1>1, UpdateIsFirst
<1>3. crashed' = FALSE
  BY <1>1, <1>2
<1>4. \A e \in old : e \in instances /\ e \in Entry /\ e.owner = r /\ e.pid = pid[r]
  BY OwnEntry
<1>5. \A e \in old : /\ Marked(e) \in Entry
                    /\ Marked(e).pid = pid[r] /\ Marked(e).owner = r
                    /\ Marked(e).status = "exited" /\ Marked(e).thread = "detached"
  BY <1>4, MarkedType
<1>6. \A e \in instances \ old : e.pid # pid[r]
  BY DEF EntryOf
<1>7. \A e, f \in old : e = f
  BY <1>4 DEF IInv, TypeOK
<1>8. waiter'[r] = "done" /\ \A q \in Requests \ {r} : waiter'[q] = waiter[q]
  BY <1>1 DEF IInv, TypeOK
<1> HIDE DEF old
<1>9. TypeOK'
  <2>1. \A e, f \in instances' : e.pid = f.pid => e = f
    BY <1>1, <1>5, <1>6, <1>7 DEF IInv, TypeOK
  <2>2. instances' \subseteq Entry
    BY <1>1, <1>5 DEF IInv, TypeOK
  <2> QED BY <2>1, <2>2, <1>1, <1>3 DEF IInv, TypeOK
<1>10. (NeverClosed /\ DistinctPids)'
  BY <1>1 DEF IInv, NeverClosed, DistinctPids
<1>11. proc[r] = "exited" /\ Launched(r)
  BY <1>1 DEF IInv, Launches
<1>12. Launches'
  BY <1>1, <1>8, <1>11 DEF IInv, Launches, Launched
<1>13. Entries'
  <2>1. ASSUME NEW e \in instances PROVE Filed(e)'
    BY <1>1, <1>8 DEF IInv, TypeOK, Entry, Entries, Filed
  <2>2. ASSUME NEW e \in old PROVE Filed(Marked(e))'
    <3> DEFINE f == Marked(e)
    <3>1. f.owner = r /\ f.pid = pid[r]
      BY <1>5
    <3>2. run[r] = "done"
      BY <1>4 DEF IInv, Entries, Filed
    <3> HIDE DEF f
    <3>3. Filed(f)'
      BY <3>1, <3>2, <1>1, <1>8, <1>11 DEF Filed
    <3> QED BY <3>3 DEF f, Marked
  <2> QED BY <2>1, <2>2, <1>1 DEF Entries
<1>14. Found'
  <2> SUFFICES ASSUME NEW q \in Requests, run[q] = "done"
               PROVE  \E e \in instances' : e.pid = pid[q] /\ e.owner = q
    BY <1>1 DEF Found
  <2>1. PICK e \in instances : e.pid = pid[q] /\ e.owner = q
    BY DEF IInv, Found
  <2>2. CASE e \in old
    BY <2>1, <2>2, <1>1, <1>4, <1>5
  <2>3. CASE e \notin old
    BY <2>1, <2>3, <1>1
  <2> QED BY <2>2, <2>3
<1> QED BY <1>3, <1>9, <1>10, <1>12, <1>13, <1>14 DEF IInv, NeverTerminates

-----------------------------------------------------------------------------
(* The other steps leave the map alone.                                    *)

LEMMA LaunchKeeps ==
  ASSUME IInv, NEW r \in Requests, Launch(r)
  PROVE  IInv'
<1>1. PICK p \in Pids \ InUse : pid' = [pid EXCEPT ![r] = p]
  BY DEF Launch
<1>2. \A q \in Requests : pid[q] # p
  BY FreePid
<1>3. pid'[r] = p /\ \A q \in Requests \ {r} : pid'[q] = pid[q]
  BY <1>1 DEF IInv, TypeOK
<1>4. TypeOK'
  BY <1>1 DEF Launch, IInv, TypeOK
<1>5. NeverClosed'
  BY DEF Launch, IInv, NeverClosed
<1>6. DistinctPids'
  BY <1>2, <1>3 DEF IInv, DistinctPids
<1>7. Launches'
  BY <1>3 DEF Launch, IInv, TypeOK, Launches, Launched
<1>8. Entries'
  BY <1>3 DEF Launch, IInv, TypeOK, Entry, Entries, Filed
<1>9. Found'
  BY <1>3 DEF Launch, IInv, TypeOK, Found
<1> QED BY <1>4, <1>5, <1>6, <1>7, <1>8, <1>9 DEF Launch, IInv, NeverTerminates

LEMMA OthersKeep ==
  ASSUME IInv, NEW r \in Requests,
         LaunchFails(r) \/ Resume(r) \/ Exit(r) \/ Wait(r)
  PROVE  IInv'
<1> USE DEF LaunchFails, Resume, Exit, Wait
<1>1. TypeOK'
  BY DEF IInv, TypeOK
<1>2. NeverClosed' /\ DistinctPids' /\ NeverTerminates'
  BY DEF IInv, NeverClosed, DistinctPids, NeverTerminates
<1>3. Launches'
  BY DEF IInv, TypeOK, Launches, Launched
<1>4. Entries'
  BY DEF IInv, TypeOK, Entry, Entries, Filed, Launches, Launched
<1>5. Found'
  BY DEF IInv, TypeOK, Found
<1> QED BY <1>1, <1>2, <1>3, <1>4, <1>5 DEF IInv

-----------------------------------------------------------------------------
LEMMA InitIInv == Init => IInv
BY PidsAssumption
DEF Init, IInv, TypeOK, NeverClosed, DistinctPids, Launches, Launched, Entries,
    Found, NeverTerminates

LEMMA NextIInv == IInv /\ [Next]_vars => IInv'
<1> SUFFICES ASSUME IInv, [Next]_vars PROVE IInv'
  OBVIOUS
<1>1. ASSUME NEW r \in Requests, Launch(r) PROVE IInv'
  BY <1>1, LaunchKeeps
<1>2. ASSUME NEW r \in Requests, Insert(r) PROVE IInv'
  BY <1>2, InsertKeeps
<1>3. ASSUME NEW r \in Requests, Update(r) PROVE IInv'
  BY <1>3, UpdateKeeps
<1>4. ASSUME NEW r \in Requests, LaunchFails(r) \/ Resume(r) \/ Exit(r) \/ Wait(r)
      PROVE  IInv'
  BY <1>4, OthersKeep
<1>5. CASE UNCHANGED vars
  BY <1>5
  DEF vars, IInv, TypeOK, NeverClosed, DistinctPids, Launches, Launched, Entries,
      Filed, Found, NeverTerminates
<1> QED BY <1>1, <1>2, <1>3, <1>4, <1>5 DEF Next, Waiter

THEOREM Invariant == Spec => []IInv
BY InitIInv, NextIInv, PTL DEF Spec

(* Every variable of the launcher keeps its type; in particular the map    *)
(* holds at most one entry for a pid (yprocmon.h:150).                     *)
THEOREM TypeCorrect == Spec => []TypeOK
<1>1. IInv => TypeOK
  BY DEF IInv
<1> QED BY <1>1, Invariant, PTL

(* The moves and detaches of std::thread objects in /api/run and in the    *)
(* waiters (yhttp.h:141, yprocmon.cc:76) never end the program.            *)
THEOREM NeverTerminatesHolds == Spec => []NeverTerminates
<1>1. IInv => NeverTerminates
  BY DEF IInv
<1> QED BY <1>1, Invariant, PTL

(* However many launches run at once and however late a waiter updates the *)
(* map, only the entry of a process that has ended shows "exited".         *)
THEOREM RightVerdictHolds == Spec => []RightVerdict
<1>1. IInv => RightVerdict
  BY DEF IInv, Entries, Filed, RightVerdict
<1> QED BY <1>1, Invariant, PTL

(* The entry a launch was answered with stays in the map under its pid.    *)
THEOREM FoundHolds == Spec => []Found
<1>1. IInv => Found
  BY DEF IInv
<1> QED BY <1>1, Invariant, PTL
=============================================================================
