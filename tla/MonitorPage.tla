---------------------------- MODULE MonitorPage ----------------------------
(***************************************************************************)
(* The lists of the front end (pages/Monitor.js with api.js): files and    *)
(* instances are fetched when the page is mounted, when the task manager   *)
(* opens or closes, after a launch and after an upload, by asynchronous    *)
(* functions that do not know of each other.  Nothing polls.               *)
(*                                                                         *)
(* A task is one call of such a function, followed from its first request, *)
(* an upload from the drop, to its last step; requests may be answered in  *)
(* any order, or fail, and then the rest of the function does not run.  Of *)
(* the server only what the requests read and write is kept.  The names    *)
(* differ from those of MessageView, so that one module can speak of both. *)
(***************************************************************************)
EXTENDS Naturals, FiniteSets

CONSTANTS
  Files,       \* names of programs
  Pids,        \* processes that may be launched
  Slots        \* places for tasks: a bound on those under way at one time

ASSUME SlotsAssumption == IsFiniteSet(Slots) /\ Cardinality(Slots) >= 2

VARIABLES
  disk,        \* server: programs in samples/
  procs,       \* server: state.instances
  mounted,     \* FALSE while another page is shown
  canvasOpen,  \* the task manager is open
  uploading,   \* the flag of this visit to the page
  files,       \* state.files
  instances,   \* state.instances
  task,        \* the tasks under way
  lost,        \* history: an upload of this visit has failed
  crossed      \* history: two drops of this visit were read at one time

serverVars == <<disk, procs>>
viewVars   == <<mounted, canvasOpen, uploading>>
listVars   == <<files, instances>>
pageHist   == <<lost, crossed>>
pageVars == <<serverVars, viewVars, listVars, task, pageHist>>

Status == {"none", "spawned", "exited"}
Lists  == [files : SUBSET Files, instances : [Pids -> Status]]

Nothing  == [files |-> {}, instances |-> [p \in Pids |-> "none"]]
OnServer == [files |-> disk,  instances |-> procs]
OnScreen == [files |-> files, instances |-> instances]

(* drop: react-dropzone reads the files; post: POSTs are under way;        *)
(* posted: all are answered; rejected: one was rejected, and nobody awaits *)
(* the others; ask and answered: its GET.  left: files not yet posted;     *)
(* stored: those put on disk for it that no answer to it has shown.  mine: *)
(* an upload of the visit that goes on, whose flag its closure can still   *)
(* change.  seen: what the page showed when the GET was made.              *)
Kinds == {"files", "instances", "run", "upload"}
Task == [kind   : Kinds \cup {"none"},
         stage  : {"free", "drop", "post", "rejected", "posted", "ask", "answered"},
         mine   : BOOLEAN,
         left   : SUBSET Files,
         stored : SUBSET Files,
         pid    : SUBSET Pids,
         seen   : Lists,
         answer : Lists]

FilesUpdate(kind)     == kind \in {"files", "upload"}
InstancesUpdate(kind) == kind \in {"instances", "run"}

(* Of lists, the one a task of this kind is about.                         *)
Part(kind, lists) ==
  [files     |-> IF FilesUpdate(kind) THEN lists.files ELSE Nothing.files,
   instances |-> IF InstancesUpdate(kind) THEN lists.instances ELSE Nothing.instances]

PageTypeOK ==
  /\ disk \subseteq Files
  /\ procs \in [Pids -> Status]
  /\ mounted \in BOOLEAN /\ canvasOpen \in BOOLEAN /\ uploading \in BOOLEAN
  /\ OnScreen \in Lists
  /\ task \in [Slots -> Task]
  /\ \A n \in Slots : /\ task[n].stage = "free" <=> task[n].kind = "none"
                      /\ task[n].stage \in {"drop", "post", "rejected"}
                           <=> task[n].left # {}
  /\ lost \in BOOLEAN /\ crossed \in BOOLEAN

NewTask(kind, stage, fs) ==
  [kind |-> kind, stage |-> stage, mine |-> kind = "upload", left |-> fs,
   stored |-> {}, pid |-> {}, seen |-> IF stage = "ask" THEN Part(kind, OnScreen) ELSE Nothing,
   answer |-> Nothing]

Free == NewTask("none", "free", {})

FreeSlots == {n \in Slots : task[n].stage = "free"}

Start(t) == \E n \in FreeSlots : task' = [task EXCEPT ![n] = t]

(* The effects of a mount: api.files() and updateInstances().              *)
StartBoth ==
  \E n, m \in FreeSlots :
    /\ n # m
    /\ task' = [task EXCEPT ![n] = NewTask("files", "ask", {}),
                            ![m] = NewTask("instances", "ask", {})]

PageInit ==
  /\ disk \in SUBSET Files
  /\ procs = Nothing.instances
  /\ mounted = TRUE /\ canvasOpen = FALSE /\ uploading = FALSE
  /\ files = {} /\ instances = Nothing.instances
  /\ \E n, m \in Slots :
       /\ n # m
       /\ task = [[s \in Slots |-> Free] EXCEPT ![n] = NewTask("files", "ask", {}),
                                               ![m] = NewTask("instances", "ask", {})]
  /\ lost = FALSE /\ crossed = FALSE

-----------------------------------------------------------------------------
(* What the user does.                                                     *)

(* The tasks of the visit go on; the setter of its flag is a no-op now.    *)
LeavePage ==
  /\ mounted
  /\ mounted' = FALSE /\ canvasOpen' = FALSE /\ uploading' = FALSE
  /\ task' = [n \in Slots |-> [task[n] EXCEPT !.mine = FALSE]]
  /\ lost' = FALSE /\ crossed' = FALSE
  /\ UNCHANGED <<serverVars, listVars>>

EnterPage ==
  /\ ~mounted
  /\ mounted' = TRUE
  /\ StartBoth
  /\ UNCHANGED <<serverVars, canvasOpen, uploading, listVars, pageHist>>

ToggleCanvas ==
  /\ mounted
  /\ canvasOpen' = ~canvasOpen
  /\ Start(NewTask("instances", "ask", {}))
  /\ UNCHANGED <<serverVars, mounted, uploading, listVars, pageHist>>

(* Drops of this visit whose files are still being read.                   *)
Reading == {n \in Slots : task[n].mine /\ task[n].stage = "drop"}

(* Mutant: files dropped during an upload are uploaded too.                *)
DropAlwaysAccepted == TRUE

(* FileList.js: onDropAccepted tests the props.uploading of the render     *)
(* that got the drop, ...                                                  *)
DropAccepted == ~uploading

DropFiles(fs) ==
  /\ mounted /\ canvasOpen /\ DropAccepted
  /\ Start(NewTask("upload", "drop", fs))
  /\ crossed' = (crossed \/ Reading # {})
  /\ UNCHANGED <<serverVars, viewVars, listVars, lost>>

(* ... but is called when the files are read, whatever has happened since: *)
(* onUpload begins, and sets the flag of the visit it belongs to.          *)
OnUpload(n) ==
  /\ task[n].stage = "drop"
  /\ task' = [task EXCEPT ![n].stage = "post"]
  /\ uploading' = (uploading \/ task[n].mine)
  /\ UNCHANGED <<serverVars, mounted, canvasOpen, listVars, pageHist>>

OnFileSelect(f) ==
  /\ mounted /\ canvasOpen /\ f \in files
  /\ Start(NewTask("run", "post", {f}))
  /\ UNCHANGED <<serverVars, viewVars, listVars, pageHist>>

-----------------------------------------------------------------------------
(* The server.                                                             *)

At(n, stage) == task[n].stage = stage

(* The last POST that is answered ends Promise.all.                        *)
Posted(n, f, fs, ps) ==
  task' = [task EXCEPT ![n].left   = @ \ {f},
                       ![n].stored = @ \cup fs,
                       ![n].pid    = ps,
                       ![n].stage  = IF task[n].left = {f} THEN "posted" ELSE "post"]

(* /api/upload is answered alike whether or not it could store the file.   *)
Upload(n, f) ==
  /\ At(n, "post") /\ task[n].kind = "upload" /\ f \in task[n].left
  /\ \E fs \in SUBSET {f} : disk' = disk \cup fs /\ Posted(n, f, fs, {})
  /\ UNCHANGED <<procs, viewVars, listVars, pageHist>>

(* state.instances[pid] = entry                                            *)
Insert(p) == procs' = [procs EXCEPT ![p] = "spawned"]

(* The entry is in state.instances before /api/run is answered.            *)
Run(n, p) ==
  /\ At(n, "post") /\ task[n].kind = "run" /\ procs[p] = "none"
  /\ \E f \in task[n].left : Posted(n, f, {}, {p})
  /\ Insert(p)
  /\ UNCHANGED <<disk, viewVars, listVars, pageHist>>

Exit(p) ==
  /\ procs[p] = "spawned"
  /\ procs' = [procs EXCEPT ![p] = "exited"]
  /\ UNCHANGED <<disk, viewVars, listVars, task, pageHist>>

(* Mutant: processes that have ended are left out.                         *)
RunningOnly ==
  [OnServer EXCEPT !.instances = [p \in Pids |->
     IF procs[p] = "exited" THEN "none" ELSE procs[p]]]

(* What /api/files and /api/instances answer.                              *)
Answer == OnServer

AnswerGet(n) ==
  /\ At(n, "ask")
  /\ LET a == Part(task[n].kind, Answer)
     IN task' = [task EXCEPT ![n].stage = "answered", ![n].answer = a,
                             ![n].stored = @ \ a.files]
  /\ UNCHANGED <<serverVars, viewVars, listVars, pageHist>>

(* A request fails, before or after the server has handled it: the promise *)
(* is rejected, nothing catches it, and the rest of the function is left.  *)
Abandon(n) ==
  /\ task' = [task EXCEPT ![n] = Free]
  /\ lost' = (lost \/ task[n].mine)

GetFails(n) ==
  /\ At(n, "ask") /\ Abandon(n)
  /\ UNCHANGED <<serverVars, viewVars, listVars, crossed>>

RunFails(n) ==
  /\ At(n, "post") /\ task[n].kind = "run" /\ Abandon(n)
  /\ procs' = procs \/ \E p \in Pids : procs[p] = "none" /\ Insert(p)
  /\ UNCHANGED <<disk, viewVars, listVars, crossed>>

(* Promise.all is rejected with the first of its POSTs; the others go on,  *)
(* answered or not.                                                        *)
UploadFails(n, f) ==
  /\ At(n, "post") \/ At(n, "rejected")
  /\ task[n].kind = "upload" /\ f \in task[n].left
  /\ \E fs \in SUBSET {f} : disk' = disk \cup fs
  /\ IF task[n].left = {f}
       THEN Abandon(n)
       ELSE /\ task' = [task EXCEPT ![n].left = @ \ {f}, ![n].stage = "rejected",
                                    ![n].mine = FALSE, ![n].stored = {}]
            /\ lost' = (lost \/ task[n].mine)
  /\ UNCHANGED <<procs, viewVars, listVars, crossed>>

-----------------------------------------------------------------------------
(* The rest of the functions, after an await.                              *)

(* Mutant: the list is fetched before the POSTs are answered.              *)
AnyPost(n) == At(n, "posted") \/ At(n, "post")

(* Promise.all(...) and api.run(...) are awaited.                          *)
AllPosted(n) == At(n, "posted")

(* onUpload and onFileSelect go on to fetch a list.                        *)
Ask(n) ==
  /\ AllPosted(n)
  /\ task' = [task EXCEPT ![n].stage = "ask", ![n].seen = Part(task[n].kind, OnScreen)]
  /\ UNCHANGED <<serverVars, viewVars, listVars, pageHist>>

(* setUploading(false) of the visit the task belongs to.                   *)
SetUploadingFalse(n) == uploading' = (uploading /\ ~task[n].mine)

Dispatch(n) ==
  /\ At(n, "answered")
  /\ files'     = IF FilesUpdate(task[n].kind) THEN task[n].answer.files ELSE files
  /\ instances' = IF InstancesUpdate(task[n].kind) THEN task[n].answer.instances
                                                   ELSE instances
  /\ SetUploadingFalse(n)
  /\ task' = [task EXCEPT ![n] = Free]
  /\ UNCHANGED <<serverVars, mounted, canvasOpen, pageHist>>

User == \/ LeavePage \/ EnterPage \/ ToggleCanvas
        \/ \E fs \in (SUBSET Files) \ {{}} : DropFiles(fs)
        \/ \E f \in Files : OnFileSelect(f)

Proceed(n) == \/ OnUpload(n)
              \/ \E f \in Files : Upload(n, f) \/ UploadFails(n, f)
              \/ (\E p \in Pids : Run(n, p)) \/ RunFails(n)
              \/ AnswerGet(n) \/ GetFails(n) \/ Ask(n) \/ Dispatch(n)

PageNext == User \/ (\E p \in Pids : Exit(p)) \/ \E n \in Slots : Proceed(n)

PageSpec == PageInit /\ [][PageNext]_pageVars

-----------------------------------------------------------------------------
Later == [none |-> Status, spawned |-> {"spawned", "exited"}, exited |-> {"exited"}]

(* a shows all that b shows, and no process in an earlier state.           *)
NotOlder(a, b) ==
  /\ b.files \subseteq a.files
  /\ \A p \in Pids : a.instances[p] \in Later[b.instances[p]]

(* Task n ends with its list on the screen.                                *)
ListShown(n) == At(n, "answered") /\ task'[n].stage = "free"

(* Answers may overtake each other, so a list may be replaced by an older  *)
(* one; but never by one older than what the page showed when the request  *)
(* was made (Monitor.js:71-86).                                            *)
RefreshNotOlder ==
  [][\A n \in Slots :
       ListShown(n) => NotOlder(Part(task[n].kind, OnScreen'), task[n].seen)]_pageVars

(* When the list that ends an upload or a launch is shown, all POSTs have  *)
(* been answered, and what the server stored for them, or launched, is in  *)
(* it, whatever was asked and answered meanwhile (Monitor.js:100-114).     *)
(* Which of its files were stored the page is not told (yhttp.h:104-112).  *)
ResultShown ==
  [][\A n \in Slots :
       ListShown(n) => /\ task[n].kind = "upload" =>
                            task[n].left = {} /\ task[n].stored \subseteq files'
                       /\ \A p \in task[n].pid : instances'[p] # "none"]_pageVars

(* Uploads of this visit that have begun and not succeeded.                *)
Unfinished == {n \in Slots : task[n].mine /\ task[n].stage # "drop"}

(* While the flag is up, this visit has an upload that has not succeeded.  *)
(* Unless two drops of the visit were read at one time, it has at most     *)
(* one, the flag is up whenever it has one, and one that failed keeps it   *)
(* up for good.                                                            *)
UploadFlag ==
  /\ uploading => Unfinished # {} \/ lost
  /\ ~crossed => /\ Cardinality(Unfinished) + (IF lost THEN 1 ELSE 0) <= 1
                 /\ Unfinished # {} \/ lost => uploading

PageInv == PageTypeOK /\ UploadFlag
=============================================================================
