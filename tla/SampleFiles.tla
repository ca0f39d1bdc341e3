---------------------------- MODULE SampleFiles ----------------------------
(***************************************************************************)
(* The directory samples/ under concurrent HTTP workers (yhttp.h and       *)
(* get_files of yprocmon.cc): /api/upload writes a file in place, through  *)
(* an ofstream of its own, /api/files walks the directory, /api/run starts *)
(* a file.  No lock is involved; only Windows' sharing rules are.          *)
(*                                                                         *)
(* Names are numbers in the order the directory is walked.  A content is a *)
(* sequence of blocks, each marked with the upload that wrote it.  A write *)
(* may fail (the disk is full), and nobody looks.  The names differ from   *)
(* those of HttpServer, so that one module can speak of both.              *)
(***************************************************************************)
EXTENDS Naturals, Sequences, FiniteSets

CONSTANTS
  Uploads,      \* requests to /api/upload
  Long,         \* those of two blocks; the others have one
  Nobody,       \* "writer" of a gap the system filled with zeros
  MaxNames,     \* bound on the names
  Programs,     \* the names *.exe matches
  FolderNames,  \* the names directories may have
  MaxWalks,     \* bound on the requests to /api/files
  MaxRuns       \* bound on the launches

ASSUME UploadsAssumption == Nobody \notin Uploads /\ Long \subseteq Uploads
ASSUME BoundsAssumption  == MaxNames \in Nat /\ MaxWalks \in Nat /\ MaxRuns \in Nat

Names == 1 .. MaxNames

ASSUME NamesAssumption == Programs \subseteq Names /\ FolderNames \subseteq Names

VARIABLES
  folders,    \* the names of the directories in samples/, which stay
  exists,     \* the names of the files in samples/
  content,    \* content of each file
  upload,     \* place of each upload's handler
  name,       \* the file name each upload came with
  position,   \* blocks each ofstream has written
  walk,       \* the request to /api/files: the name its walk is at
  listed,     \* the names its answer has
  walks,      \* number of requests to /api/files
  running,    \* number of processes that run each file
  runs,       \* number of launches
  last,       \* history: the upload that opened each file last
  mixed,      \* history: files whose content two ofstreams wrote at one time
  before      \* history: the programs there when the walk began

fileVars   == <<folders, exists, content>>
uploadVars == <<upload, name, position>>
walkVars   == <<walk, listed, walks>>
runVars    == <<running, runs>>
histVars   == <<last, mixed>>
samplesVars == <<fileVars, uploadVars, walkVars, runVars, histVars, before>>

Size(u) == IF u \in Long THEN 2 ELSE 1
Whole(u) == [n \in 1 .. Size(u) |-> u]
Written(u) == [n \in 1 .. position[u] |-> u]

SamplesTypeOK ==
  /\ folders \subseteq FolderNames /\ exists \subseteq Names
  /\ content \in [Names -> Seq(Uploads \cup {Nobody})]
  /\ \A f \in Names : Len(content[f]) <= 2
  /\ upload \in [Uploads -> {"idle", "writing", "bad", "saved", "short", "refused"}]
  /\ name \in [Uploads -> Names]
  /\ \A u \in Uploads : position[u] \in 0 .. Size(u)
  /\ walk \in 0 .. MaxNames
  /\ listed \in Seq(Names)
  /\ walks \in 0 .. MaxWalks
  /\ running \in [Names -> 0 .. MaxRuns] /\ runs \in 0 .. MaxRuns
  /\ last \in [Names -> Uploads \cup {Nobody}]
  /\ mixed \subseteq Names /\ before \subseteq Names

SamplesInit ==
  /\ folders \in SUBSET FolderNames
  /\ exists = {} /\ content = [f \in Names |-> <<>>]
  /\ upload = [u \in Uploads |-> "idle"]
  /\ name \in [Uploads -> Names]
  /\ position = [u \in Uploads |-> 0]
  /\ walk = 0 /\ listed = <<>> /\ walks = 0
  /\ running = [f \in Names |-> 0] /\ runs = 0
  /\ last = [f \in Names |-> Nobody]
  /\ mixed = {} /\ before = {}

-----------------------------------------------------------------------------
(* /api/upload                                                             *)

(* The uploads that have the file open, whether or not a write failed.     *)
Writers(f) == {u \in Uploads : upload[u] \in {"writing", "bad"} /\ name[u] = f}

(* Mutant: the stream is opened for reading and writing.                   *)
OpensInPlace(f) == UNCHANGED content

(* std::ofstream out(path, std::ios::binary)                               *)
Truncate(f) == content' = [content EXCEPT ![f] = <<>>]

Open(u) ==
  LET f == name[u] IN
  /\ upload[u] = "idle" /\ running[f] = 0 /\ f \notin folders
  /\ exists' = exists \cup {f}
  /\ Truncate(f)
  /\ upload' = [upload EXCEPT ![u] = "writing"]
  /\ last'  = [last EXCEPT ![f] = u]
  /\ mixed' = IF Writers(f) = {} THEN mixed \ {f} ELSE mixed \cup {f}
  /\ UNCHANGED <<folders, name, position, walkVars, runVars, before>>

(* The file of a running program or a directory cannot be opened, and a    *)
(* name may be illegal: the stream is bad, the write does nothing, and the *)
(* request is answered as ever.                                            *)
OpenFails(u) ==
  /\ upload[u] = "idle"
  /\ upload' = [upload EXCEPT ![u] = "refused"]
  /\ UNCHANGED <<fileVars, name, position, walkVars, runVars, histVars, before>>

(* c with block n by u, zeros before it where c is shorter.                *)
Put(c, n, u) ==
  [k \in 1 .. IF Len(c) < n THEN n ELSE Len(c) |->
     IF k = n THEN u ELSE IF k <= Len(c) THEN c[k] ELSE Nobody]

(* Mutant: one block too many.                                             *)
BlocksLeftOrOne(u) == position[u] <= Size(u)

BlocksLeft(u) == position[u] < Size(u)

(* out << file.content, a block at a time                                  *)
Write(u) ==
  LET f == name[u] IN
  /\ upload[u] = "writing" /\ BlocksLeft(u)
  /\ content'  = [content EXCEPT ![f] = Put(@, position[u] + 1, u)]
  /\ position' = [position EXCEPT ![u] = @ + 1]
  /\ UNCHANGED <<folders, exists, upload, name, walkVars, runVars, histVars, before>>

(* The rest cannot be written, now or when close() flushes it.  The stream *)
(* is bad; what was written stays.                                         *)
CannotWrite(u) ==
  /\ upload[u] = "writing" /\ BlocksLeft(u)
  /\ upload' = [upload EXCEPT ![u] = "bad"]
  /\ UNCHANGED <<fileVars, name, position, walkVars, runVars, histVars, before>>

(* out.close(), and the answer, which is the same for "saved" and "short"  *)
Close(u) ==
  /\ \/ upload[u] = "writing" /\ ~BlocksLeft(u) /\ upload' = [upload EXCEPT ![u] = "saved"]
     \/ upload[u] = "bad" /\ upload' = [upload EXCEPT ![u] = "short"]
  /\ UNCHANGED <<fileVars, name, position, walkVars, runVars, histVars, before>>

-----------------------------------------------------------------------------
(* /api/files: get_files                                                   *)

(* What FindFirstFile and FindNextFile report.                             *)
Matching == (exists \cup folders) \cap Programs
After(n) == {f \in Matching : f > n}
Least(s) == CHOOSE f \in s : \A g \in s : f <= g

(* Mutant: while instead of do ... while.                                  *)
ListsButFirst(f) == listed' = IF f \in folders \/ walk = 0 THEN listed ELSE Append(listed, f)

(* push_back, unless FILE_ATTRIBUTE_DIRECTORY                              *)
Lists(f) == listed' = IF f \in folders THEN listed ELSE Append(listed, f)

FindFirstFile ==
  /\ walk = 0 /\ walks < MaxWalks /\ Matching # {}
  /\ walk' = Least(Matching)
  /\ Lists(Least(Matching))
  /\ walks' = walks + 1
  /\ before' = exists \cap Programs
  /\ UNCHANGED <<fileVars, uploadVars, runVars, histVars>>

(* INVALID_HANDLE_VALUE: the answer is an empty list.                      *)
FindsNothing ==
  /\ walk = 0 /\ walks < MaxWalks /\ Matching = {}
  /\ walks' = walks + 1
  /\ UNCHANGED <<fileVars, uploadVars, walk, listed, runVars, histVars, before>>

FindNextFile ==
  /\ walk # 0 /\ After(walk) # {}
  /\ walk' = Least(After(walk))
  /\ Lists(Least(After(walk)))
  /\ UNCHANGED <<fileVars, uploadVars, walks, runVars, histVars, before>>

(* FindNextFile fails: there is nothing more.                              *)
AnswerList ==
  /\ walk # 0 /\ After(walk) = {}
  /\ walk' = 0 /\ listed' = <<>> /\ before' = {}
  /\ UNCHANGED <<fileVars, uploadVars, walks, runVars, histVars>>

-----------------------------------------------------------------------------
(* /api/run                                                                *)

(* The system does not start a file that is open for writing.              *)
Startable(f) == f \in exists /\ Writers(f) = {} /\ content[f] # <<>>

Run(f) ==
  /\ Startable(f) /\ runs < MaxRuns
  /\ running' = [running EXCEPT ![f] = @ + 1]
  /\ runs' = runs + 1
  /\ UNCHANGED <<fileVars, uploadVars, walkVars, histVars, before>>

Exit(f) ==
  /\ running[f] > 0
  /\ running' = [running EXCEPT ![f] = @ - 1]
  /\ UNCHANGED <<fileVars, uploadVars, walkVars, runs, histVars, before>>

SamplesNext ==
  \/ \E u \in Uploads : Open(u) \/ OpenFails(u) \/ Write(u) \/ CannotWrite(u) \/ Close(u)
  \/ FindFirstFile \/ FindsNothing \/ FindNextFile \/ AnswerList
  \/ \E f \in Names : Run(f) \/ Exit(f)

SamplesSpec == SamplesInit /\ [][SamplesNext]_samplesVars

-----------------------------------------------------------------------------
(* A file that can be started has blocks of one upload only, the one that  *)
(* opened it last: as many as it wrote, which is all of them if no write   *)
(* failed; nothing of an earlier file of the name is left, however short   *)
(* the new one ended.  Unless two uploads of that name overlapped since    *)
(* (yhttp.h:104-111).                                                      *)
LastUploadWins ==
  \A f \in Names : Startable(f) /\ f \notin mixed =>
    LET u == last[f]
    IN content[f] = IF upload[u] = "saved" THEN Whole(u) ELSE Written(u)

FilesInv == SamplesTypeOK /\ LastUploadWins

(* A list that is about to be answered has every program that was there    *)
(* when the request came, and a list has nothing but programs, once each,  *)
(* however many appear during the walk (yprocmon.cc:45-56).                *)
ListComplete ==
  /\ walk # 0 /\ After(walk) = {} => before \subseteq {listed[i] : i \in DOMAIN listed}
  /\ \A i \in DOMAIN listed : listed[i] \in exists \cap Programs
  /\ \A i, j \in DOMAIN listed : listed[i] = listed[j] => i = j
=============================================================================
