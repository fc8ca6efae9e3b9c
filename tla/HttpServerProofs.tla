-------------------------- MODULE HttpServerProofs --------------------------
(***************************************************************************)
(* For any number of threads, names, contents and requests: files that     *)
(* nobody is writing are whole (module HttpServer).                        *)
(*                                                                         *)
(* This follows from an invariant about the steps in between: a file that  *)
(* is not spoilt has one stream, which has written what it holds.          *)
(***************************************************************************)
EXTENDS HttpServer, SequenceTheorems, TLAPS

\* A stream is open while it writes, and is its file's only one unless that is
\* spoilt; what it has written is then all that the file holds.
Streams ==
  \A a \in Actors :
    /\ pc[a] = "write" <=> fd[a] # NoFile
    /\ pc[a] \in {"open", "write"} => req[a].data \in Data
    /\ pc[a] = "write" /\ fd[a] \notin spoilt =>
         /\ content[fd[a]] = Copies(req[a].data, pos[a])
         /\ \A b \in Actors : fd[b] = fd[a] => b = a

IInv == TypeOK /\ Streams /\ FilesAreWhole

-----------------------------------------------------------------------------
(* Contents.                                                               *)

\* An empty file is no copy of anything.
LEMMA NoCopies == ASSUME NEW d PROVE Copies(d, 0) = << >>
BY DEF Copies

\* A write leaves a sequence of blocks.
LEMMA WrittenType ==
  ASSUME NEW D, NEW old \in Seq(D \cup {Hole}), NEW k \in Nat, NEW d \in D
  PROVE  Written(old, k, d) \in Seq(D \cup {Hole})
<1> DEFINE n == IF Len(old) > k THEN Len(old) ELSE k + 1
<1>1. Len(old) \in Nat /\ old \in [1..Len(old) -> D \cup {Hole}]
  BY LenProperties
<1>2. n \in Nat
  BY <1>1
<1>3. \A j \in 1..n :
        (IF j = k + 1 THEN d ELSE IF j <= Len(old) THEN old[j] ELSE Hole) \in D \cup {Hole}
  BY <1>1, <1>2
<1>4. Written(old, k, d) \in [1..n -> D \cup {Hole}]
  BY <1>3 DEF Written
<1> HIDE DEF n
<1>. QED
  BY <1>2, <1>4

\* A write at the end of k copies makes them k + 1.
LEMMA WrittenCopies ==
  ASSUME NEW k \in Nat, NEW d
  PROVE  Written(Copies(d, k), k, d) = Copies(d, k + 1)
<1>1. Len(Copies(d, k)) = k
  BY DEF Copies
<1>2. \A j \in 1..k : Copies(d, k)[j] = d
  BY DEF Copies
<1>3. ~ (k > k)
  OBVIOUS
<1>4. \A j \in 1..(k + 1) : j = k + 1 \/ j \in 1..k
  OBVIOUS
<1>5. Written(Copies(d, k), k, d) = [j \in 1..(k + 1) |-> d]
  BY <1>1, <1>2, <1>3, <1>4 DEF Written
<1>. QED
  BY <1>5 DEF Copies

-----------------------------------------------------------------------------
(* What steps keep that do not write.                                      *)

\* What a request names.
LEMMA RequestType ==
  ASSUME NEW r \in Requests
  PROVE  r.name \in Names /\ r.new \in Names /\ (r.op = "upload" => r.data \in Data)
BY DEF Requests, Request

\* A step that moves one thread, neither to nor from a write, keeps the streams.
LEMMA StreamsKept ==
  ASSUME TypeOK, Streams, NEW a \in Actors, NEW p,
         pc' = [pc EXCEPT ![a] = p], p \notin {"open", "write"}, pc[a] # "write",
         UNCHANGED <<content, spoilt, fd, pos, req>>
  PROVE  Streams'
<1>1. \A b \in Actors : pc'[b] = IF b = a THEN p ELSE pc[b]
  BY DEF TypeOK
<1>. QED
  BY <1>1 DEF Streams

\* Files that are only renamed or deleted are as whole as they were.
LEMMA WholeKept ==
  ASSUME FilesAreWhole, UNCHANGED <<content, spoilt, fd>>,
         \A n \in Names : disk'[n] = NoFile \/ \E m \in Names : disk'[n] = disk[m]
  PROVE  FilesAreWhole'
<1> SUFFICES ASSUME NEW n \in Names, disk'[n] # NoFile
             PROVE  \/ disk'[n] \in spoilt \/ Open(disk'[n]) # {}
                    \/ \E d \in Data : content[disk'[n]] = Copies(d, Blocks[d])
  BY DEF FilesAreWhole, Exists, Open
<1>1. PICK m \in Names : disk'[n] = disk[m]
  OBVIOUS
<1>. QED
  BY <1>1 DEF FilesAreWhole, Exists, Open

-----------------------------------------------------------------------------
(* Types.                                                                  *)

Places == {"idle", "open", "write", "exists", "delete", "target", "deleteTarget", "rename"}

\* A step of start and stop keeps the invariant: nothing it speaks of changes.
LEMMA ControlKept ==
  ASSUME IInv, start \/ stop \/ Control
  PROVE  IInv'
<1>1. UNCHANGED controlOnly
  BY DEF start, stop, Control, Slept, ThreadRuns, Listen, ThreadEnds, Joined
<1>2. /\ main' \in {"new", "sleep", "serve", "join", "returned"}
      /\ thread' \in {"none", "created", "running", "listening", "closed", "ended"}
      /\ running_' \in BOOLEAN /\ early' \in BOOLEAN
  <2>1. CASE start
    BY <2>1 DEF IInv, TypeOK, start
  <2>2. CASE stop
    BY <2>2 DEF IInv, TypeOK, stop
  <2>3. CASE Slept \/ ThreadRuns
    BY <2>3 DEF IInv, TypeOK, Slept, ThreadRuns
  <2>4. CASE Listen
    BY <2>4 DEF IInv, TypeOK, Listen
  <2>5. CASE ThreadEnds \/ Joined
    BY <2>5 DEF IInv, TypeOK, ThreadEnds, Joined
  <2>. QED
    BY <2>1, <2>2, <2>3, <2>4, <2>5 DEF Control
<1>6. TypeOK'
  BY <1>1, <1>2 DEF IInv, TypeOK, controlOnly, files, streams
<1>3. Streams'
  BY <1>1 DEF IInv, Streams, controlOnly, files, streams
<1>4. FilesAreWhole'
  BY <1>1 DEF IInv, FilesAreWhole, Exists, Open, controlOnly, files, streams
<1>. QED
  BY <1>3, <1>4, <1>6 DEF IInv

\* A thread's new place is one of the places.
LEMMA GotoType ==
  ASSUME TypeOK, NEW a \in Actors, NEW from, NEW to \in Places, Goto(a, from, to)
  PROVE  /\ pc' \in [Actors -> Places] /\ pc[a] = from
         /\ pc' = [pc EXCEPT ![a] = to]
         /\ \A b \in Actors : pc'[b] = IF b = a THEN to ELSE pc[b]
BY DEF Goto, TypeOK, Places

\* A step on the files leaves the rest as it is.
LEMMA FileStepType ==
  ASSUME TypeOK, UNCHANGED fileSteps, pc' \in [Actors -> Places],
         disk' \in [Names -> Inodes \cup {NoFile}],
         content' \in [Inodes -> Seq(Data \cup {Hole})], spoilt' \subseteq Inodes,
         fd' \in [Actors -> Inodes \cup {NoFile}], pos' \in [Actors -> Nat]
  PROVE  TypeOK'
BY DEF TypeOK, fileSteps, control, Places

-----------------------------------------------------------------------------
(* The steps of a thread.                                                  *)

\* A request begins.
LEMMA BeginKept ==
  ASSUME IInv, NEW a \in Actors, Begin(a)
  PROVE  IInv'
<1>1. PICK r \in Requests :
        /\ req' = [req EXCEPT ![a] = r]
        /\ Goto(a, "idle", IF r.op = "upload" THEN "open" ELSE "exists")
  BY DEF Begin
<1>2. UNCHANGED <<disk, content, spoilt, fd, pos, control>> /\ requests' = requests + 1
  BY DEF Begin, files, streams
<1> DEFINE to == IF r.op = "upload" THEN "open" ELSE "exists"
<1>3. to \in Places
  BY DEF Places
<1>4. /\ pc' \in [Actors -> Places] /\ pc[a] = "idle"
      /\ \A b \in Actors : pc'[b] = IF b = a THEN to ELSE pc[b]
  BY <1>1, <1>3, GotoType DEF IInv
<1>5. req' \in [Actors -> Requests] /\ \A b \in Actors : req'[b] = IF b = a THEN r ELSE req[b]
  BY <1>1 DEF IInv, TypeOK
<1>6. TypeOK'
  BY <1>2, <1>4, <1>5 DEF IInv, TypeOK, control, Places
<1>7. Streams'
  <2>1. to = "open" => r.data \in Data
    BY RequestType
  <2>. QED
    BY <1>2, <1>4, <1>5, <2>1 DEF IInv, Streams
<1>8. FilesAreWhole'
  BY <1>2 DEF IInv, FilesAreWhole, Exists, Open
<1>. QED
  BY <1>6, <1>7, <1>8 DEF IInv

\* Steps that write nothing.
Quiet(a) ==
  \/ OpenFails(a) \/ ExistsChecked(a) \/ deleteFile(a)
  \/ TargetChecked(a) \/ TargetDeleted(a) \/ RenameFails(a) \/ renameFile(a)

\* They leave the streams and contents, and take a file's name from names.
LEMMA QuietFiles ==
  ASSUME TypeOK, NEW a \in Actors, Quiet(a)
  PROVE  /\ UNCHANGED <<content, spoilt, fd, pos, fileSteps>>
         /\ disk' \in [Names -> Inodes \cup {NoFile}]
         /\ \A n \in Names : disk'[n] = NoFile \/ \E m \in Names : disk'[n] = disk[m]
<1>0. req[a].name \in Names /\ req[a].new \in Names
  BY RequestType DEF TypeOK
<1>1. CASE OpenFails(a) \/ ExistsChecked(a) \/ RenameFails(a)
  BY <1>1 DEF OpenFails, ExistsChecked, RenameFails, files, streams, TypeOK
<1>2. CASE deleteFile(a)
  BY <1>0, <1>2 DEF deleteFile, Unlink, streams, TypeOK
<1>3. CASE TargetChecked(a)
  BY <1>3 DEF TargetChecked, files, streams, TypeOK
<1>4. CASE TargetDeleted(a)
  BY <1>0, <1>4 DEF TargetDeleted, Unlink, streams, TypeOK
<1>5. CASE renameFile(a)
  <2>1. UNCHANGED <<content, spoilt, fd, pos, fileSteps>>
    BY <1>5 DEF renameFile, streams
  <2>3. CASE UNCHANGED disk
    BY <2>1, <2>3 DEF TypeOK
  <2>4. CASE disk' = [disk EXCEPT ![req[a].new] = disk[req[a].name], ![req[a].name] = NoFile]
    BY <1>0, <2>1, <2>4 DEF TypeOK
  <2>. QED
    BY <1>5, <2>3, <2>4 DEF renameFile
<1>. QED
  BY <1>1, <1>2, <1>3, <1>4, <1>5 DEF Quiet

\* Their places.
LEMMA QuietPlaces ==
  ASSUME TypeOK, NEW a \in Actors, Quiet(a)
  PROVE  \E p \in Places :
           pc' = [pc EXCEPT ![a] = p] /\ p \notin {"open", "write"} /\ pc[a] # "write"
BY DEF Quiet, OpenFails, ExistsChecked, deleteFile, TargetChecked, TargetDeleted,
       RenameFails, renameFile, Goto, Places

\* Steps that write nothing keep the invariant.
LEMMA QuietKept ==
  ASSUME IInv, NEW a \in Actors, Quiet(a)
  PROVE  IInv'
<1>1. /\ UNCHANGED <<content, spoilt, fd, pos, fileSteps>>
      /\ disk' \in [Names -> Inodes \cup {NoFile}]
      /\ \A n \in Names : disk'[n] = NoFile \/ \E m \in Names : disk'[n] = disk[m]
  BY QuietFiles DEF IInv
<1>2. PICK p \in Places :
        pc' = [pc EXCEPT ![a] = p] /\ p \notin {"open", "write"} /\ pc[a] # "write"
  BY QuietPlaces DEF IInv
<1>3. TypeOK'
  <2>1. pc' \in [Actors -> Places]
    BY <1>2 DEF IInv, TypeOK, Places
  <2>. QED
    BY <1>1, <2>1, FileStepType DEF IInv, TypeOK
<1>4. Streams'
  BY <1>1, <1>2, StreamsKept DEF IInv, fileSteps
<1>5. FilesAreWhole'
  BY <1>1, WholeKept DEF IInv
<1>. QED
  BY <1>3, <1>4, <1>5 DEF IInv

\* A stream is opened on the file i, which is emptied.
Opened(a, i) ==
  /\ Goto(a, "open", "write") /\ UNCHANGED req
  /\ fd' = [fd EXCEPT ![a] = i] /\ pos' = [pos EXCEPT ![a] = 0]
  /\ content' = [content EXCEPT ![i] = << >>]
  /\ spoilt' = IF Open(i) = {} THEN spoilt \ {i} ELSE spoilt \cup {i}
  /\ \A n \in Names : disk'[n] \in {disk[n], i}

\* The file's only stream has written nothing, and the file is empty; with two
\* it is spoilt.
LEMMA OpenedStreams ==
  ASSUME IInv, NEW a \in Actors, NEW i \in Inodes, Opened(a, i)
  PROVE  Streams' /\ FilesAreWhole'
<1>1. /\ pc[a] = "open" /\ fd[a] = NoFile /\ i # NoFile /\ req[a].data \in Data
      /\ \A b \in Actors : pc'[b] = IF b = a THEN "write" ELSE pc[b]
  BY HttpAssumption DEF Opened, Goto, IInv, TypeOK, Streams
<1>2. /\ \A b \in Actors : /\ fd'[b] = IF b = a THEN i ELSE fd[b]
                          /\ pos'[b] = IF b = a THEN 0 ELSE pos[b]
      /\ \A j \in Inodes : content'[j] = IF j = i THEN << >> ELSE content[j]
      /\ \A j : j # i => (j \in spoilt' <=> j \in spoilt)
      /\ UNCHANGED req
  BY DEF Opened, IInv, TypeOK
<1>3. \A b \in Actors : b # a /\ fd[b] = i => i \in spoilt'
  BY DEF Opened, Open
<1>4. Streams'
  <2> SUFFICES ASSUME NEW b \in Actors
               PROVE  /\ pc'[b] = "write" <=> fd'[b] # NoFile
                      /\ pc'[b] \in {"open", "write"} => req[b].data \in Data
                      /\ pc'[b] = "write" /\ fd'[b] \notin spoilt' =>
                           /\ content'[fd'[b]] = Copies(req[b].data, pos'[b])
                           /\ \A c \in Actors : fd'[c] = fd'[b] => c = b
    BY <1>2 DEF Streams
  <2>1. CASE b = a
    <3>1. content'[i] = Copies(req[a].data, 0)
      BY <1>2, NoCopies
    <3>2. i \notin spoilt' => \A c \in Actors : fd'[c] = i => c = a
      BY <1>2, <1>3
    <3>. QED
      BY <1>1, <1>2, <2>1, <3>1, <3>2
  <2>2. CASE b # a
    <3>1. /\ pc[b] = "write" <=> fd[b] # NoFile
          /\ pc[b] \in {"open", "write"} => req[b].data \in Data
      BY DEF IInv, Streams
    <3>2. ASSUME pc[b] = "write", fd[b] \notin spoilt'
          PROVE  /\ content'[fd[b]] = Copies(req[b].data, pos[b])
                 /\ \A c \in Actors : fd'[c] = fd[b] => c = b
      <4>1. fd[b] # i /\ fd[b] \notin spoilt /\ fd[b] \in Inodes
        BY <1>2, <1>3, <2>2, <3>1, <3>2 DEF IInv, TypeOK
      <4>2. /\ content[fd[b]] = Copies(req[b].data, pos[b])
            /\ \A c \in Actors : fd[c] = fd[b] => c = b
        BY <3>2, <4>1 DEF IInv, Streams
      <4>. QED
        BY <1>2, <4>1, <4>2
    <3>. QED
      BY <1>1, <1>2, <2>2, <3>1, <3>2
  <2>. QED
    BY <2>1, <2>2
<1>5. FilesAreWhole'
  <2> SUFFICES ASSUME NEW n \in Names, disk'[n] # NoFile, disk'[n] \notin spoilt',
                      \A b \in Actors : fd'[b] # disk'[n]
               PROVE  \E d \in Data : content'[disk'[n]] = Copies(d, Blocks[d])
    BY DEF FilesAreWhole, Exists, Open
  <2>1. disk'[n] # i /\ disk'[n] = disk[n]
    BY <1>2 DEF Opened
  <2>2. disk[n] \in Inodes /\ disk[n] \notin spoilt
    BY <1>2, <2>1 DEF IInv, TypeOK
  <2>3. Open(disk[n]) = {}
    BY <1>1, <1>2, <2>1, <2>2, HttpAssumption DEF Open
  <2>4. \E d \in Data : content[disk[n]] = Copies(d, Blocks[d])
    BY <2>1, <2>2, <2>3 DEF IInv, FilesAreWhole, Exists
  <2>. QED
    BY <1>2, <2>1, <2>2, <2>4
<1>. QED
  BY <1>4, <1>5

\* Opening a file keeps the invariant.
LEMMA OpenKept ==
  ASSUME IInv, NEW a \in Actors, OpenExisting(a) \/ OpenNew(a)
  PROVE  IInv'
<1>0. TypeOK /\ req[a].name \in Names
  BY RequestType DEF IInv, TypeOK
<1>1. /\ UNCHANGED fileSteps
      /\ \E i \in Inodes :
           Opened(a, i) /\ disk' \in {disk, [disk EXCEPT ![req[a].name] = i]}
  <2>1. CASE OpenExisting(a)
    <3>1. disk[req[a].name] \in Inodes
      BY <1>0, <2>1 DEF OpenExisting, Exists, TypeOK
    <3>2. Opened(a, disk[req[a].name])
      BY <2>1, <3>1 DEF OpenExisting, Opened, fileSteps
    <3>. QED
      BY <2>1, <3>1, <3>2 DEF OpenExisting
  <2>2. CASE OpenNew(a)
    <3> DEFINE i == CHOOSE j \in Unused : TRUE
    <3>0. /\ Unused # {} /\ Goto(a, "open", "write")
          /\ fd' = [fd EXCEPT ![a] = i] /\ pos' = [pos EXCEPT ![a] = 0]
          /\ disk' = [disk EXCEPT ![req[a].name] = i]
          /\ content' = [content EXCEPT ![i] = << >>] /\ spoilt' = spoilt \ {i}
          /\ UNCHANGED fileSteps
      BY <2>2 DEF OpenNew
    <3>1. i \in Unused
      BY <3>0
    <3> HIDE DEF i
    <3>2. i \in Inodes /\ Open(i) = {}
      BY <3>1 DEF Unused
    <3>3. disk' = [disk EXCEPT ![req[a].name] = i]
      BY <3>0
    <3>4. Opened(a, i)
      <4>1. \A n \in Names : disk'[n] \in {disk[n], i}
        BY <1>0, <3>3 DEF TypeOK
      <4>. QED
        BY <3>0, <3>2, <4>1 DEF Opened, fileSteps
    <3>. QED
      BY <3>0, <3>2, <3>3, <3>4
  <2>. QED
    BY <2>1, <2>2
<1>2. PICK i \in Inodes :
        Opened(a, i) /\ disk' \in {disk, [disk EXCEPT ![req[a].name] = i]}
  BY <1>1
<1>3. TypeOK'
  <2>1. pc' \in [Actors -> Places]
    BY <1>0, <1>2, GotoType DEF Opened, Places
  <2>2. << >> \in Seq(Data \cup {Hole})
    OBVIOUS
  <2>3. content' \in [Inodes -> Seq(Data \cup {Hole})]
    BY <1>0, <1>2, <2>2 DEF Opened, TypeOK
  <2>4. /\ disk' \in [Names -> Inodes \cup {NoFile}] /\ spoilt' \subseteq Inodes
        /\ fd' \in [Actors -> Inodes \cup {NoFile}] /\ pos' \in [Actors -> Nat]
    BY <1>0, <1>2 DEF Opened, TypeOK
  <2>. QED
    BY <1>0, <1>1, <2>1, <2>3, <2>4, FileStepType
<1>4. Streams' /\ FilesAreWhole'
  BY <1>2, OpenedStreams
<1>. QED
  BY <1>3, <1>4 DEF IInv

\* A write appends to what the stream has written, if that is what is there.
LEMMA WriteKept ==
  ASSUME IInv, NEW a \in Actors, Write(a)
  PROVE  IInv'
<1> DEFINE i == fd[a]  k == pos[a]  d == req[a].data
<1>1. /\ pc[a] = "write" /\ i \in Inodes /\ k \in Nat /\ d \in Data
      /\ content[i] \in Seq(Data \cup {Hole})
  <2>1. pc[a] = "write"
    BY DEF Write, Goto
  <2>. QED
    BY <2>1 DEF IInv, TypeOK, Streams
<1>2. /\ UNCHANGED <<disk, spoilt, fd, fileSteps, req>>
      /\ pos' = [pos EXCEPT ![a] = k + 1]
      /\ content' = [content EXCEPT ![i] = Written(content[i], k, d)]
      /\ Goto(a, "write", "write")
  BY DEF Write, fileSteps, IInv, TypeOK
<1>3. UNCHANGED pc
  BY <1>1, <1>2 DEF Goto, IInv, TypeOK
<1>4. TypeOK'
  <2>1. Written(content[i], k, d) \in Seq(Data \cup {Hole})
    BY <1>1, WrittenType
  <2>2. content' \in [Inodes -> Seq(Data \cup {Hole})] /\ pos' \in [Actors -> Nat]
    BY <1>1, <1>2, <2>1 DEF IInv, TypeOK
  <2>3. /\ pc' \in [Actors -> Places] /\ spoilt' \subseteq Inodes
        /\ disk' \in [Names -> Inodes \cup {NoFile}]
        /\ fd' \in [Actors -> Inodes \cup {NoFile}]
    BY <1>2, <1>3 DEF IInv, TypeOK, Places
  <2>. QED
    BY <1>2, <2>2, <2>3, FileStepType DEF IInv
<1>5. Streams'
  <2> SUFFICES ASSUME NEW b \in Actors, pc[b] = "write", fd[b] \notin spoilt
               PROVE  content'[fd[b]] = Copies(req[b].data, pos'[b])
    BY <1>2, <1>3 DEF IInv, Streams
  <2>1. /\ content[fd[b]] = Copies(req[b].data, pos[b])
        /\ \A c \in Actors : fd[c] = fd[b] => c = b
    BY DEF IInv, Streams
  <2>2. CASE b = a
    <3>1. Written(content[i], k, d) = Copies(d, k + 1)
      BY <1>1, <2>1, <2>2, WrittenCopies
    <3>. QED
      BY <1>1, <1>2, <2>2, <3>1 DEF IInv, TypeOK
  <2>3. CASE b # a
    <3>1. fd[b] # i
      BY <2>1, <2>3
    <3>. QED
      BY <1>2, <2>1, <2>3, <3>1 DEF IInv, TypeOK
  <2>. QED
    BY <2>2, <2>3
<1>6. FilesAreWhole'
  <2> SUFFICES ASSUME NEW n \in Names, disk[n] # NoFile, disk[n] \notin spoilt,
                      Open(disk[n]) = {}
               PROVE  \E e \in Data : content'[disk[n]] = Copies(e, Blocks[e])
    BY <1>2 DEF FilesAreWhole, Exists, Open
  <2>1. disk[n] # i
    BY DEF Open
  <2>2. content'[disk[n]] = content[disk[n]]
    BY <1>2, <2>1 DEF IInv, TypeOK
  <2>. QED
    BY <2>2 DEF IInv, FilesAreWhole, Exists
<1>. QED
  BY <1>4, <1>5, <1>6 DEF IInv

\* A stream that is closed leaves a whole file, or a spoilt one.
LEMMA CloseKept ==
  ASSUME IInv, NEW a \in Actors, Close(a)
  PROVE  IInv'
<1> DEFINE i == fd[a]
<1>1. /\ pc[a] = "write" /\ i \in Inodes /\ req[a].data \in Data
  <2>1. pc[a] = "write"
    BY DEF Close, Goto
  <2>. QED
    BY <2>1 DEF IInv, TypeOK, Streams
<1>2. /\ UNCHANGED <<disk, content, pos, fileSteps, req>>
      /\ fd' = [fd EXCEPT ![a] = NoFile]
      /\ spoilt' = IF pos[a] = Blocks[req[a].data] THEN spoilt ELSE spoilt \cup {i}
      /\ Goto(a, "write", "idle")
  BY DEF Close, fileSteps
<1>3. \A b \in Actors : /\ pc'[b] = IF b = a THEN "idle" ELSE pc[b]
                      /\ fd'[b] = IF b = a THEN NoFile ELSE fd[b]
  BY <1>2 DEF Goto, IInv, TypeOK
<1>4. TypeOK'
  <2>1. pc' \in [Actors -> Places]
    BY <1>2, GotoType DEF IInv, Places
  <2>2. /\ spoilt' \subseteq Inodes /\ fd' \in [Actors -> Inodes \cup {NoFile}]
    BY <1>1, <1>2 DEF IInv, TypeOK
  <2>3. /\ disk' \in [Names -> Inodes \cup {NoFile}] /\ pos' \in [Actors -> Nat]
        /\ content' \in [Inodes -> Seq(Data \cup {Hole})]
    BY <1>2 DEF IInv, TypeOK
  <2>. QED
    BY <1>2, <2>1, <2>2, <2>3, FileStepType DEF IInv
<1>5. Streams'
  <2> SUFFICES ASSUME NEW b \in Actors
               PROVE  /\ pc'[b] = "write" <=> fd'[b] # NoFile
                      /\ pc'[b] \in {"open", "write"} => req[b].data \in Data
                      /\ pc'[b] = "write" /\ fd'[b] \notin spoilt' =>
                           /\ content[fd'[b]] = Copies(req[b].data, pos[b])
                           /\ \A c \in Actors : fd'[c] = fd'[b] => c = b
    BY <1>2 DEF Streams
  <2>1. CASE b = a
    BY <1>3, <2>1
  <2>2. CASE b # a
    <3>1. pc'[b] = pc[b] /\ fd'[b] = fd[b] /\ (fd[b] \notin spoilt' => fd[b] \notin spoilt)
      BY <1>2, <1>3, <2>2
    <3>2. /\ pc[b] = "write" <=> fd[b] # NoFile
          /\ pc[b] \in {"open", "write"} => req[b].data \in Data
          /\ pc[b] = "write" /\ fd[b] \notin spoilt =>
               /\ content[fd[b]] = Copies(req[b].data, pos[b])
               /\ \A c \in Actors : fd[c] = fd[b] => c = b
      BY DEF IInv, Streams
    <3>. QED
      BY <1>3, <2>2, <3>1, <3>2
  <2>. QED
    BY <2>1, <2>2
<1>6. FilesAreWhole'
  <2> SUFFICES ASSUME NEW n \in Names, disk[n] # NoFile, disk[n] \notin spoilt',
                      \A b \in Actors : fd'[b] # disk[n]
               PROVE  \E e \in Data : content[disk[n]] = Copies(e, Blocks[e])
    BY <1>2 DEF FilesAreWhole, Exists, Open
  <2>1. CASE disk[n] = i
    <3>1. i \notin spoilt /\ pos[a] = Blocks[req[a].data]
      BY <1>2, <2>1
    <3>2. content[i] = Copies(req[a].data, pos[a])
      BY <1>1, <3>1 DEF IInv, Streams
    <3>. QED
      BY <1>1, <2>1, <3>1, <3>2
  <2>2. CASE disk[n] # i
    <3>1. Open(disk[n]) = {} /\ disk[n] \notin spoilt
      BY <1>2, <1>3, <2>2 DEF Open
    <3>. QED
      BY <3>1 DEF IInv, FilesAreWhole, Exists
  <2>. QED
    BY <2>1, <2>2
<1>. QED
  BY <1>4, <1>5, <1>6 DEF IInv

-----------------------------------------------------------------------------
(* The theorems.                                                           *)

\* At first no stream is open and no file is there.
LEMMA Initial == Init => IInv
<1> SUFFICES ASSUME Init
             PROVE  IInv
  OBVIOUS
<1>1. (CHOOSE r \in Requests : TRUE) \in Requests
  <2>1. PICK n \in Names : TRUE
    BY HttpAssumption
  <2>2. Request("delete", n, n, Hole) \in Requests
    BY DEF Requests
  <2>. QED
    BY <2>2
<1>2. req \in [Actors -> Requests]
  BY <1>1 DEF Init
<1>3. << >> \in Seq(Data \cup {Hole})
  OBVIOUS
<1>4. content \in [Inodes -> Seq(Data \cup {Hole})]
  BY <1>3 DEF Init
<1>5. TypeOK
  BY <1>2, <1>4 DEF Init, TypeOK
<1>6. Streams /\ FilesAreWhole
  BY DEF Init, Streams, FilesAreWhole, Exists
<1>. QED
  BY <1>5, <1>6 DEF IInv

\* Every step keeps the invariant.
LEMMA Inductive == IInv /\ [Next]_vars => IInv'
<1> SUFFICES ASSUME IInv, [Next]_vars
             PROVE  IInv'
  OBVIOUS
<1>1. CASE start \/ stop \/ Control
  BY <1>1, ControlKept
<1>2. ASSUME NEW a \in Actors, Begin(a)
      PROVE  IInv'
  BY <1>2, BeginKept
<1>3. ASSUME NEW a \in Actors, Continue(a)
      PROVE  IInv'
  <2>1. CASE Quiet(a)
    BY <2>1, QuietKept
  <2>2. CASE OpenExisting(a) \/ OpenNew(a)
    BY <2>2, OpenKept
  <2>3. CASE Write(a)
    BY <2>3, WriteKept
  <2>4. CASE Close(a)
    BY <2>4, CloseKept
  <2>. QED
    BY <1>3, <2>1, <2>2, <2>3, <2>4 DEF Continue, Quiet
<1>4. CASE UNCHANGED vars
  <2>1. UNCHANGED <<disk, content, spoilt, pc, req, fd, pos, control, requests>>
    BY <1>4 DEF vars, files, streams
  <2>2. TypeOK'
    BY <2>1 DEF IInv, TypeOK, control
  <2>3. Streams'
    BY <2>1 DEF IInv, Streams
  <2>4. FilesAreWhole'
    BY <2>1 DEF IInv, FilesAreWhole, Exists, Open
  <2>. QED
    BY <2>2, <2>3, <2>4 DEF IInv
<1>. QED
  BY <1>1, <1>2, <1>3, <1>4 DEF Next

\* Every variable keeps its type (module HttpServer, TypeOK).
THEOREM TypeCorrect == Spec => []TypeOK
<1>1. IInv => TypeOK
  BY DEF IInv
<1>. QED
  BY Initial, Inductive, <1>1, PTL DEF Spec

\* A file that nobody writes is whole, unless two wrote to it at a time or its
\* writing failed: upload and ofstream of http_server.cpp, deletes and renames
\* at any moment in between.
THEOREM FilesWhole == Spec => []FilesAreWhole
<1>1. IInv => FilesAreWhole
  BY DEF IInv
<1>. QED
  BY Initial, Inductive, <1>1, PTL DEF Spec

=============================================================================
