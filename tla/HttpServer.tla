----------------------------- MODULE HttpServer -----------------------------
(***************************************************************************)
(* The HTTP server (http_server.cpp): its start and stop, and its pool of  *)
(* threads, which write, delete and rename in the backup directory while   *)
(* the main thread's UDP commands (server.cpp) do the same.  No lock is    *)
(* shared: each step is one call of the file system.                       *)
(*                                                                         *)
(* A file is an inode, which a name leads to and which an open stream keeps*)
(* when its name is renamed or deleted.  Requests that only read, or are   *)
(* refused before they come to the directory, leave all of this as it is;  *)
(* what requests count is in module Metrics.                               *)
(***************************************************************************)
EXTENDS Naturals, Sequences

CONSTANTS Workers,        \* threads of httplib's pool
          Main,           \* the thread of Server::run
          Names, Data, Hole,
          Blocks,         \* how many writes a content takes
          Inodes, NoFile,
          MaxRequests     \* bound: requests and commands

Actors == Workers \cup {Main}

ASSUME HttpAssumption ==
  /\ Main \notin Workers /\ Names # {} /\ Hole \notin Data /\ NoFile \notin Inodes
  /\ Blocks \in [Data -> Nat] /\ MaxRequests \in Nat

VARIABLES
  disk, content,     \* the directory, and what its files hold
  pc, req, fd, pos,  \* of each thread: its place, request, stream and offset
  main, thread, running_,    \* run(), the serverThread_ and its flag
  requests,
  spoilt,   \* history: files two streams wrote to, or that were not written out
  early     \* history: stop() was called before the server listened

files == <<disk, content, spoilt>>
streams == <<fd, pos>>
control == <<main, thread, running_, early>>
vars == <<files, pc, req, streams, control, requests>>

Copies(d, k) == [i \in 1..k |-> d]
Request(op, n, new, d) == [op |-> op, name |-> n, new |-> new, data |-> d]
Requests == {Request("upload", n, n, d) : n \in Names, d \in Data}
              \cup {Request("delete", n, n, Hole) : n \in Names}
              \cup {Request("rename", n, m, Hole) : n, m \in Names}

Init ==
  /\ disk = [n \in Names |-> NoFile] /\ content = [i \in Inodes |-> << >>]
  /\ spoilt = {}
  /\ pc = [a \in Actors |-> "idle"] /\ req = [a \in Actors |-> CHOOSE r \in Requests : TRUE]
  /\ fd = [a \in Actors |-> NoFile] /\ pos = [a \in Actors |-> 0]
  /\ main = "new" /\ thread = "none" /\ running_ = FALSE /\ early = FALSE
  /\ requests = 0

-----------------------------------------------------------------------------
(* Start and stop.                                                         *)

controlOnly == <<files, pc, req, streams, requests>>

\* The thread is created; the caller sleeps for 100 ms and goes on.
start ==
  /\ main = "new" /\ main' = "sleep" /\ thread = "none" /\ thread' = "created"
  /\ UNCHANGED <<controlOnly, running_, early>>

\* Whether start() answers true or false, run() goes on with its loop.
Slept ==
  /\ main = "sleep" /\ main' = "serve"
  /\ UNCHANGED <<controlOnly, thread, running_, early>>

ThreadRuns ==
  /\ thread = "created" /\ thread' = "running" /\ running_' = TRUE
  /\ UNCHANGED <<controlOnly, main, early>>

\* listen() binds and serves, or fails.
Listen ==
  /\ thread = "running" /\ thread' \in {"listening", "closed"}
  /\ UNCHANGED <<controlOnly, main, running_, early>>

\* listen() returns when its pool's threads are done.
ThreadEnds ==
  /\ thread = "closed" /\ \A w \in Workers : pc[w] = "idle"
  /\ thread' = "ended" /\ running_' = FALSE
  /\ UNCHANGED <<controlOnly, main, early>>

\* Mutant: the thread is joined without telling the server to stop.
stopJoins ==
  /\ main = "serve" /\ pc[Main] = "idle" /\ main' = "join"
  /\ early' = (thread \in {"created", "running"})
  /\ UNCHANGED <<controlOnly, thread, running_>>

\* A shutdown command.  httplib's stop() does nothing to a server that does not
\* listen yet.
stop ==
  /\ main = "serve" /\ pc[Main] = "idle" /\ main' = "join"
  /\ thread' = IF running_ /\ thread = "listening" THEN "closed" ELSE thread
  /\ early' = (thread \in {"created", "running"})
  /\ UNCHANGED <<controlOnly, running_>>

Joined ==
  /\ main = "join" /\ thread = "ended" /\ main' = "returned"
  /\ UNCHANGED <<controlOnly, thread, running_, early>>

-----------------------------------------------------------------------------
(* Requests, and the commands of the UDP server.                           *)

Goto(a, from, to) == pc[a] = from /\ pc' = [pc EXCEPT ![a] = to]
Exists(n) == disk[n] # NoFile
Open(i) == {a \in Actors : fd[a] = i}

Serving(a) == IF a = Main THEN main = "serve" ELSE thread = "listening"

Begin(a) ==
  /\ Serving(a) /\ requests < MaxRequests /\ requests' = requests + 1
  /\ \E r \in Requests :
       /\ req' = [req EXCEPT ![a] = r]
       /\ Goto(a, "idle", IF r.op = "upload" THEN "open" ELSE "exists")
  /\ UNCHANGED <<files, streams, control>>

fileSteps == <<req, control, requests>>

OpenFails(a) ==
  Goto(a, "open", "idle") /\ UNCHANGED <<files, streams, fileSteps>>

\* Mutant: a file that is there is not emptied.
OpenKeeps(a) ==
  /\ Exists(req[a].name) /\ Goto(a, "open", "write")
  /\ fd' = [fd EXCEPT ![a] = disk[req[a].name]] /\ pos' = [pos EXCEPT ![a] = 0]
  /\ UNCHANGED <<disk, content, spoilt, fileSteps>>

\* An ofstream empties the file that is there, which another may be writing.
OpenExisting(a) ==
  LET i == disk[req[a].name]
  IN  /\ Exists(req[a].name) /\ Goto(a, "open", "write")
      /\ fd' = [fd EXCEPT ![a] = i] /\ pos' = [pos EXCEPT ![a] = 0]
      /\ content' = [content EXCEPT ![i] = << >>]
      /\ spoilt' = IF Open(i) = {} THEN spoilt \ {i} ELSE spoilt \cup {i}
      /\ UNCHANGED <<disk, fileSteps>>

Unused == {i \in Inodes : Open(i) = {} /\ \A n \in Names : disk[n] # i}

OpenNew(a) ==
  LET i == CHOOSE j \in Unused : TRUE
  IN  /\ ~ Exists(req[a].name) /\ Unused # {} /\ Goto(a, "open", "write")
      /\ fd' = [fd EXCEPT ![a] = i] /\ pos' = [pos EXCEPT ![a] = 0]
      /\ disk' = [disk EXCEPT ![req[a].name] = i]
      /\ content' = [content EXCEPT ![i] = << >>] /\ spoilt' = spoilt \ {i}
      /\ UNCHANGED fileSteps

\* The offset is the stream's own: what was cut off before it reads as zeros.
Written(old, k, d) ==
  [j \in 1..(IF Len(old) > k THEN Len(old) ELSE k + 1) |->
     IF j = k + 1 THEN d ELSE IF j <= Len(old) THEN old[j] ELSE Hole]

\* Mutant: the name is written in place of the content.
NameWritten(a) ==
  /\ Goto(a, "write", "write") /\ pos[a] < Blocks[req[a].data]
  /\ pos' = [pos EXCEPT ![a] = @ + 1]
  /\ content' = [content EXCEPT ![fd[a]] = Written(@, pos[a], req[a].name)]
  /\ UNCHANGED <<disk, spoilt, fd, fileSteps>>

Write(a) ==
  /\ Goto(a, "write", "write") /\ pos[a] < Blocks[req[a].data]
  /\ pos' = [pos EXCEPT ![a] = @ + 1]
  /\ content' = [content EXCEPT ![fd[a]] = Written(@, pos[a], req[a].data)]
  /\ UNCHANGED <<disk, spoilt, fd, fileSteps>>

\* Nothing looks whether all was written, or came over TCP.
Close(a) ==
  /\ Goto(a, "write", "idle") /\ fd' = [fd EXCEPT ![a] = NoFile]
  /\ spoilt' = IF pos[a] = Blocks[req[a].data] THEN spoilt ELSE spoilt \cup {fd[a]}
  /\ UNCHANGED <<disk, content, pos, fileSteps>>

\* Not found, or on to what is asked.
ExistsChecked(a) ==
  /\ Goto(a, "exists", IF Exists(req[a].name)
                       THEN IF req[a].op = "delete" THEN "delete" ELSE "target"
                       ELSE "idle")
  /\ UNCHANGED <<files, streams, fileSteps>>

Unlink(n) ==
  /\ disk' \in {disk, [disk EXCEPT ![n] = NoFile]}
  /\ UNCHANGED <<content, spoilt, streams, fileSteps>>

deleteFile(a) == Goto(a, "delete", "idle") /\ Unlink(req[a].name)

\* A request is refused when its new name is taken; the user of a UDP command
\* is asked, and may agree that what is there be deleted.
TargetChecked(a) ==
  /\ \/ Exists(req[a].new) /\ Goto(a, "target", "idle")
     \/ Exists(req[a].new) /\ a = Main /\ Goto(a, "target", "deleteTarget")
     \/ ~ Exists(req[a].new) /\ Goto(a, "target", "rename")
  /\ UNCHANGED <<files, streams, fileSteps>>

\* A target that cannot be deleted is renamed over.
TargetDeleted(a) == Goto(a, "deleteTarget", "rename") /\ Unlink(req[a].new)

RenameFails(a) ==
  Goto(a, "rename", "idle") /\ UNCHANGED <<files, streams, fileSteps>>

renameFile(a) ==
  LET old == req[a].name  new == req[a].new
  IN  /\ Exists(old) /\ Goto(a, "rename", "idle")
      /\ IF disk[new] = disk[old] THEN UNCHANGED disk
         ELSE disk' = [disk EXCEPT ![new] = disk[old], ![old] = NoFile]
      /\ UNCHANGED <<content, spoilt, streams, fileSteps>>

-----------------------------------------------------------------------------
Continue(a) ==
  \/ OpenFails(a) \/ OpenExisting(a) \/ OpenNew(a) \/ Write(a) \/ Close(a)
  \/ ExistsChecked(a) \/ deleteFile(a)
  \/ TargetChecked(a) \/ TargetDeleted(a) \/ RenameFails(a) \/ renameFile(a)

Control == Slept \/ ThreadRuns \/ Listen \/ ThreadEnds \/ Joined

Next ==
  \/ start \/ stop \/ Control
  \/ \E a \in Actors : Begin(a) \/ Continue(a)

Spec == Init /\ [][Next]_vars

\* Threads run; requests, commands and the shutdown need not come.
FairSpec ==
  /\ Spec /\ WF_vars(Slept) /\ WF_vars(ThreadRuns) /\ WF_vars(Listen)
  /\ WF_vars(ThreadEnds) /\ WF_vars(Joined)
  /\ \A a \in Actors : WF_vars(Continue(a))

-----------------------------------------------------------------------------
(* Properties.                                                             *)

\* What the variables hold.
TypeOK ==
  /\ disk \in [Names -> Inodes \cup {NoFile}]
  /\ content \in [Inodes -> Seq(Data \cup {Hole})] /\ spoilt \subseteq Inodes
  /\ pc \in [Actors -> {"idle", "open", "write", "exists", "delete", "target",
                        "deleteTarget", "rename"}]
  /\ req \in [Actors -> Requests]
  /\ fd \in [Actors -> Inodes \cup {NoFile}] /\ pos \in [Actors -> Nat]
  /\ main \in {"new", "sleep", "serve", "join", "returned"}
  /\ thread \in {"none", "created", "running", "listening", "closed", "ended"}
  /\ running_ \in BOOLEAN /\ early \in BOOLEAN
  /\ requests \in Nat

\* "Last-write-wins" (RELIABILITY.md:39): a file that nobody is writing is one
\* content, whole, whatever was renamed or deleted while it was written, unless
\* two wrote to it at a time or a write failed.
FilesAreWhole ==
  \A n \in Names :
    \/ ~ Exists(n) \/ disk[n] \in spoilt \/ Open(disk[n]) # {}
    \/ \E d \in Data : content[disk[n]] = Copies(d, Blocks[d])

\* stop() returns, after the requests that it finds: a shutdown only hangs when
\* it comes before the server listens.
StopReturns == main = "join" /\ ~ early ~> main = "returned"

=============================================================================
