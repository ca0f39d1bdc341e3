------------------------------- MODULE Hooks -------------------------------
(***************************************************************************)
(* yhook.dll inside one monitored process: the detours of yhookmap.h,      *)
(* which report a call and then make it, the reports of yhook.cc, and the  *)
(* attach and detach sequence of DllMain.                                  *)
(*                                                                         *)
(* A report makes API calls that are hooked themselves: its strings copy   *)
(* and free memory, and WriteFile sends it.  One global flag, entered,     *)
(* keeps those calls from being reported in turn.  All hooked functions    *)
(* have the same body, so a call is a frame on its thread's stack: its     *)
(* purpose and the place it has reached.  Each access to entered is a step.*)
(***************************************************************************)
EXTENDS Naturals, Sequences, FiniteSets

CONSTANTS
  Threads,   \* the threads of the process
  Main,      \* the one that runs DllMain
  MaxCalls,  \* bound on the hooked calls the program makes in each thread
  MaxReports \* bound on the reports of one thread that nest

ASSUME ThreadsAssumption == Main \in Threads
ASSUME BoundsAssumption  == MaxCalls \in Nat /\ MaxReports \in Nat \ {0}

(* app: a call of the program; runtime: a memcpy, HeapFree, ... of a       *)
(* report; WriteFile: that of write_pipe; CreateFile: that of              *)
(* yhook_ipc_start; spawn: send_spawn_message, which is not a hook and     *)
(* has no guard.                                                           *)
Frame == [fn : {"app", "runtime", "WriteFile", "CreateFile", "spawn"},
          at : {"test", "set", "compose", "write", "clear", "original"}]

VARIABLES
  dll,       \* progress of DllMain
  hooked,    \* the detours are in place
  pipe,      \* the pipe handle: NULL, open, INVALID_HANDLE_VALUE or closed
  entered,   \* the flag shared by all hooked functions
  stack,     \* frames of each thread, innermost last
  calls,     \* hooked calls the program made in each thread
  reported,  \* messages about those calls the pipe was given
  threw,     \* history: a conversion of arguments has thrown
  overlapped \* history: a thread called while another one reported

vars == <<dll, hooked, pipe, entered, stack, calls, reported, threw, overlapped>>

TypeOK ==
  /\ dll \in {"loaded", "hooked", "linked", "spawned", "attached", "unhooked"}
  /\ hooked \in BOOLEAN
  /\ pipe \in {"null", "open", "invalid", "closed"}
  /\ entered \in BOOLEAN
  /\ stack \in [Threads -> Seq(Frame)]
  /\ calls \in [Threads -> 0 .. MaxCalls]
  /\ reported \in [Threads -> 0 .. MaxCalls]
  /\ threw \in BOOLEAN /\ overlapped \in BOOLEAN

Init ==
  /\ dll = "loaded" /\ hooked = FALSE /\ pipe = "null"
  /\ entered = FALSE
  /\ stack    = [t \in Threads |-> <<>>]
  /\ calls    = [t \in Threads |-> 0]
  /\ reported = [t \in Threads |-> 0]
  /\ threw = FALSE /\ overlapped = FALSE

Top(t)      == stack[t][Len(stack[t])]
Below(t)    == SubSeq(stack[t], 1, Len(stack[t]) - 1)
At(t, at)   == stack[t] # <<>> /\ Top(t).at = at
Goto(t, at) == Below(t) \o <<[fn |-> Top(t).fn, at |-> at]>>

(* The frames of t that are inside a guarded report.                       *)
Reporting(t) ==
  {i \in DOMAIN stack[t] : /\ stack[t][i].fn # "spawn"
                           /\ stack[t][i].at \in {"compose", "write", "clear"}}

(* Where a call of a hooked function starts.                               *)
Entrance == IF hooked THEN "test" ELSE "original"

(* A thread is inside a hooked function while another one reports.         *)
Overlap ==
  \E t, u \in Threads : t # u /\ stack[t] # <<>> /\ Reporting(u) # {}

Remember == overlapped' = (overlapped \/ Overlap')

Enter(t, fn, at) == stack' = [stack EXCEPT ![t] = <<[fn |-> fn, at |-> at]>>]

-----------------------------------------------------------------------------
(* DllMain.  The process was started suspended and its first thread runs   *)
(* DLL_PROCESS_ATTACH before any code of the program.                      *)

(* The transaction of Hook commits, or fails and attaches nothing; DllMain *)
(* goes on either way.                                                     *)
Hook ==
  /\ dll = "loaded" /\ dll' = "hooked"
  /\ hooked' \in BOOLEAN
  /\ UNCHANGED <<pipe, entered, stack, calls, reported, threw>>

(* The hooks are in place before the pipe is there: pipe is NULL, which    *)
(* write_pipe does not tell from a handle, and its WriteFile fails.        *)
StartIpc ==
  /\ dll = "hooked" /\ dll' = "linked"
  /\ Enter(Main, "CreateFile", Entrance)
  /\ UNCHANGED <<hooked, pipe, entered, calls, reported, threw>>

SendSpawnMessage ==
  /\ dll = "linked" /\ stack[Main] = <<>> /\ dll' = "spawned"
  /\ Enter(Main, "spawn", "compose")
  /\ UNCHANGED <<hooked, pipe, entered, calls, reported, threw>>

Attached ==
  /\ dll = "spawned" /\ stack[Main] = <<>> /\ dll' = "attached"
  /\ UNCHANGED <<hooked, pipe, entered, stack, calls, reported, threw>>

(* ExitProcess ends the other threads wherever they are; then the last     *)
(* one runs DLL_PROCESS_DETACH: UnHook, which may fail too, ...            *)
Detach ==
  /\ dll = "attached" /\ stack[Main] = <<>> /\ dll' = "unhooked"
  /\ hooked' \in {FALSE, hooked}
  /\ stack' = [t \in Threads |-> <<>>]
  /\ UNCHANGED <<pipe, entered, calls, reported, threw>>

(* ... and yhook_ipc_close.                                                *)
CloseIpc ==
  /\ dll = "unhooked" /\ pipe # "closed" /\ pipe' = "closed"
  /\ UNCHANGED <<dll, hooked, entered, stack, calls, reported, threw>>

-----------------------------------------------------------------------------
(* A hooked function.                                                      *)

(* The program calls one.                                                  *)
Call(t) ==
  /\ dll = "attached" /\ stack[t] = <<>> /\ calls[t] < MaxCalls
  /\ Enter(t, "app", Entrance)
  /\ calls' = [calls EXCEPT ![t] = @ + 1]
  /\ UNCHANGED <<dll, hooked, pipe, entered, reported, threw>>

(* if (!entered).  Past MaxReports the model cuts recursion off: the call  *)
(* is made as if the flag had been set.                                    *)
Test(t) ==
  /\ At(t, "test")
  /\ stack' = [stack EXCEPT ![t] =
                 Goto(t, IF entered \/ Cardinality(Reporting(t)) = MaxReports
                         THEN "original" ELSE "set")]
  /\ UNCHANGED <<dll, hooked, pipe, entered, calls, reported, threw>>

(* Mutant: the flag is not set.                                            *)
SetNothing(t) ==
  /\ At(t, "set")
  /\ stack' = [stack EXCEPT ![t] = Goto(t, "compose")]
  /\ UNCHANGED <<dll, hooked, pipe, entered, calls, reported, threw>>

(* entered = true                                                          *)
SetEntered(t) ==
  /\ At(t, "set")
  /\ entered' = TRUE
  /\ stack' = [stack EXCEPT ![t] = Goto(t, "compose")]
  /\ UNCHANGED <<dll, hooked, pipe, calls, reported, threw>>

(* The arguments are converted and the message composed, which may run     *)
(* hooked functions: one of them stands for all.                           *)
Compose(t) ==
  /\ At(t, "compose")
  /\ \/ stack' = [stack EXCEPT ![t] = Goto(t, "write")]
     \/ stack' = [stack EXCEPT ![t] =
                    Goto(t, "write") \o <<[fn |-> "runtime", at |-> Entrance]>>]
  /\ UNCHANGED <<dll, hooked, pipe, entered, calls, reported, threw>>

(* A conversion throws, as tostring does of a null string, which several   *)
(* hooked functions accept; if the program catches it the call is over.    *)
ComposeThrows(t) ==
  /\ At(t, "compose") /\ Top(t).fn = "app"
  /\ stack' = [stack EXCEPT ![t] = Below(t)]
  /\ threw' = TRUE
  /\ UNCHANGED <<dll, hooked, pipe, entered, calls, reported>>

(* What a report does once its message is written: send_spawn_message      *)
(* returns, a hook resets the flag.                                        *)
AfterWrite(t) == IF Top(t).fn = "spawn" THEN "original" ELSE "clear"

(* write_pipe calls WriteFile, unless it knows that there is no pipe.      *)
WritePipe(t) ==
  /\ At(t, "write")
  /\ LET sending == IF pipe = "invalid" THEN <<>>
                    ELSE <<[fn |-> "WriteFile", at |-> Entrance]>> IN
     stack' = [stack EXCEPT ![t] = Goto(t, AfterWrite(t)) \o sending]
  /\ UNCHANGED <<dll, hooked, pipe, entered, calls, reported, threw>>

(* Mutant: the flag is not reset.                                          *)
ClearNothing(t) ==
  /\ At(t, "clear")
  /\ stack' = [stack EXCEPT ![t] = Goto(t, "original")]
  /\ UNCHANGED <<dll, hooked, pipe, entered, calls, reported, threw>>

(* entered = false                                                         *)
ClearEntered(t) ==
  /\ At(t, "clear")
  /\ entered' = FALSE
  /\ stack' = [stack EXCEPT ![t] = Goto(t, "original")]
  /\ UNCHANGED <<dll, hooked, pipe, calls, reported, threw>>

(* The original function runs and the hook returns.  CreateFile opens the  *)
(* pipe or finds no instance free; WriteFile sends the message of the      *)
(* frame below.                                                            *)
Original(t) ==
  /\ At(t, "original")
  /\ stack' = [stack EXCEPT ![t] = Below(t)]
  /\ pipe' \in IF Top(t).fn = "CreateFile" THEN {"open", "invalid"} ELSE {pipe}
  /\ reported' =
       IF /\ Top(t).fn = "WriteFile" /\ pipe = "open"
          /\ Below(t)[Len(stack[t]) - 1].fn = "app"
       THEN [reported EXCEPT ![t] = @ + 1] ELSE reported
  /\ UNCHANGED <<dll, hooked, entered, calls, threw>>

Step(t) ==
  /\ \/ Test(t) \/ SetEntered(t) \/ Compose(t) \/ WritePipe(t)
     \/ ClearEntered(t) \/ Original(t)
  /\ Remember

DllMain == Hook \/ StartIpc \/ SendSpawnMessage \/ Attached \/ Detach \/ CloseIpc

Next ==
  \/ DllMain /\ Remember
  \/ \E t \in Threads : \/ (Call(t) \/ ComposeThrows(t)) /\ Remember
                       \/ Step(t)

Spec == Init /\ [][Next]_vars
-----------------------------------------------------------------------------
(* Properties.                                                             *)

(* "prevent_recursion": True (yhookmap.py:83, 86, 93): a hooked call that  *)
(* a report makes is not reported in its turn.                             *)
PreventRecursion == \A t \in Threads : Cardinality(Reporting(t)) <= 1

(* What the one flag does achieve: recursion takes two threads that report *)
(* at the same time, and a program whose threads' calls never met one      *)
(* another's reports is safe from it whatever the order of its calls, the  *)
(* exceptions and the reports of DllMain.                                  *)
RecursionNeedsOverlap == ~overlapped => PreventRecursion

(* Until then every call a thread of the program made has been reported,   *)
(* once, by the time it returns: the guard hides the report's own calls    *)
(* only, until an exception leaves it up.  (Given the detours, the pipe.)  *)
EveryCallReported ==
  ~overlapped /\ ~threw /\ dll = "attached" /\ hooked /\ pipe = "open" =>
    \A t \in Threads : stack[t] = <<>> => reported[t] = calls[t]

(* The guard is up only while some thread is inside a report; otherwise    *)
(* all hooks of all threads would fall silent for good.  An exception that *)
(* leaves a report does that, and the exit of the process may.             *)
GuardHeld ==
  entered /\ ~threw /\ dll # "unhooked" => \E t \in Threads : Reporting(t) # {}

(* TypeOK bounds the reports by the calls: no call is reported twice.      *)
GuardInv == TypeOK /\ GuardHeld
=============================================================================
