----------------------- MODULE BackupOneClientProofs -----------------------
(***************************************************************************)
(* What the server and a client that is its only one do for each other     *)
(* (module BackupProtocol), for any names, contents, sizes and ports, any  *)
(* number of commands and of datagrams lost, and a client that may be      *)
(* killed at any time.  An answer comes within the client's five seconds,  *)
(* or not at all: an answer that comes later is taken by the next command, *)
(* and with a second client a handler takes the datagrams of both; neither *)
(* promise is kept then.  A connection that is made does not break, and    *)
(* the promises end when the server misreads a file's content.             *)
(*                                                                         *)
(* No datagram says which command it belongs to.  What keeps the two       *)
(* programs in step is that at most one of them has something to receive:  *)
(* for each place where the server waits, OneClient says where the client  *)
(* can be, which datagrams can be under way, and what they would mean.     *)
(***************************************************************************)
EXTENDS BackupProtocolProofs, SequenceTheorems

Alone(c) == Clients = {c} /\ ~ LateAnswers /\ ~ MayDrop

\* At most one datagram, and that one of S.
Only(q, S) == q = << >> \/ (Len(q) = 1 /\ q[1] \in S)

\* Datagrams that the server's main loop drops, unless it misreads them.
Idle == {m \in ClientDatagrams : m.cmd \in {"DATA", "OVERWRITE"} \/ m.data \in Contents}

\* None but the last of a queue is of any use to the main loop, and that is of S.
IdleBut(q, S) == \A i \in 1..Len(q) : q[i] \in Idle \/ (i = Len(q) /\ q[i] \in S)

\* The command of a client that has had no answer yet, as it was typed.
Starting(c, m) ==
  \/ cpc[c] = "prompt" /\ result[c] = "shutdown" /\ m.cmd = "SHUTDOWN"
  \/ cpc[c] = "dead" /\ (result[c] = "shutdown" <=> m.cmd = "SHUTDOWN")
                     /\ result[c] \in {"none", "shutdown"}
  \/ cpc[c] = "ls" /\ m.cmd = "LS"
  \/ cpc[c] = "send" /\ m.cmd = "SEND" /\ m.size = SizeOf[cmd[c].data]
  \/ cpc[c] = "remove" /\ m.cmd = "REMOVE"
  \/ cpc[c] = "rename" /\ m.cmd = "RENAME"
Request(c) == {m \in ClientDatagrams :
  /\ Starting(c, m) /\ m.filename = cmd[c].name
  /\ toClient[c] = << >> /\ disk = before[c]}

\* What an answer that is under way tells the client, when the server is done.
Renamed(c) == /\ disk[cmd[c].new] = before[c][cmd[c].name]
              /\ cmd[c].new # cmd[c].name => disk[cmd[c].name] = Absent
UploadKept(c) == disk[cmd[c].name] \in {cmd[c].data, Partial}
AnswerTrue(c, m) ==
  \/ cpc[c] = "ls" /\ m.data = Files
  \/ cpc[c] = "send" /\ m.cmd = "FILE_EXISTS" /\ disk = before[c]
  \/ cpc[c] \in {"send", "ready"} /\ IsAck(m, 1) /\ Small(c) /\ disk = before[c]
  \/ cpc[c] = "declined"
  \/ /\ cpc[c] = "smallAck"
     /\ IF IsAck(m, 0) THEN UploadKept(c) ELSE disk = before[c]
  \/ cpc[c] = "largeAck" /\ UploadKept(c)
  \/ /\ cpc[c] = "remove"
     /\ IF IsAck(m, 0) THEN disk[cmd[c].name] = Absent ELSE disk = before[c]
  \/ cpc[c] = "rename" /\ ~ IsAck(m, 0) /\ disk = before[c]
  \/ /\ cpc[c] = "newNameAck"
     /\ IF IsAck(m, 0) THEN Renamed(c) ELSE disk = before[c]
  \/ /\ cpc[c] = "renameAck"
     /\ IsAck(m, 0) => Renamed(c)
     /\ m.error = 2 => disk = before[c]
Answers(c) == {m \in Datagrams : AnswerTrue(c, m)}

\* The content did not come in time: its request was answered, and now the error.
TwoAcks(c) ==
  /\ Len(toClient[c]) = 2 /\ IsAck(toClient[c][1], 0) /\ IsAck(toClient[c][2], 1)
  /\ cpc[c] \in {"send", "ready"} /\ Small(c) /\ disk = before[c]

InMain(c) ==
  /\ cpc[c] # "connect"
  /\ conn[c] = IF cpc[c] = "stream" THEN "reset" ELSE "none"
  /\ IdleBut(toServer[c], Request(c))
  /\ Only(toClient[c], Answers(c)) \/ TwoAcks(c)

\* In a handler that waits for a datagram the command has changed nothing yet.
NothingDone(c) == /\ result[c] = "none" /\ disk = before[c]
                  /\ filename = cmd[c].name /\ conn[c] = "none"

InConfirm(c) ==
  /\ cpc[c] \in {"send", "askOverwrite", "ready", "declined", "dead"}
  /\ Only(toClient[c], {m \in Datagrams : cpc[c] = "send" /\ m.cmd = "FILE_EXISTS"})
  /\ Only(toServer[c], {m \in ClientDatagrams :
       /\ cpc[c] \in {"ready", "declined", "dead"} /\ m.cmd = "OVERWRITE"
       /\ m.data \notin Contents /\ m.filename = cmd[c].name
       /\ cpc[c] = "ready" => m.error = 0 /\ m.size = SizeOf[cmd[c].data]
       /\ cpc[c] = "declined" => m.error # 0})

InSmall(c) ==
  /\ cpc[c] \in {"send", "ready", "smallAck", "dead"}
  /\ cpc[c] # "dead" => Small(c) /\ filesize = SizeOf[cmd[c].data]
  /\ Only(toClient[c], {m \in Datagrams : cpc[c] \in {"send", "ready"} /\ IsAck(m, 0)})
  /\ Only(toServer[c], {m \in ClientDatagrams :
       /\ cpc[c] \in {"smallAck", "dead"} /\ m.data \in Contents
       /\ cpc[c] = "smallAck" => m.data = cmd[c].data})

InNewName(c) ==
  /\ cpc[c] \in {"rename", "newNameAck", "dead"}
  /\ Only(toClient[c], {m \in Datagrams : cpc[c] = "rename" /\ m.cmd # "ACK"})
  /\ Only(toServer[c], {m \in ClientDatagrams :
       /\ cpc[c] \in {"newNameAck", "dead"} /\ m.cmd = "DATA"
       /\ m.data = cmd[c].new})

InRenameConfirm(c) ==
  /\ cpc[c] \in {"newNameAck", "askRename", "renameAck", "dead"}
  /\ newFilename = cmd[c].new
  /\ Only(toClient[c], {m \in Datagrams : cpc[c] = "newNameAck" /\ m.cmd = "FILE_EXISTS"})
  /\ Only(toServer[c], {m \in ClientDatagrams :
       /\ cpc[c] \in {"renameAck", "dead"} /\ m.cmd = "OVERWRITE"
       /\ m.data \notin Contents})

\* The server waits for a connection that will not come.
Stuck(c) ==
  /\ cpc[c] \in {"prompt", "ready", "dead"} \cup FirstAnswer
  /\ toClient[c] = << >> /\ conn[c] = "none" /\ disk = before[c]
  /\ result[c] \in {"none", "timeout", "abandoned", "unreachable", "shutdown"}

\* The client's file is the one the server waits for.
Expected(c) ==
  /\ filename = cmd[c].name /\ toServer[c] = << >> /\ result[c] = "none"
  /\ cpc[c] # "dead" => ~ Small(c) /\ filesize = SizeOf[cmd[c].data]

Offered(c) ==
  /\ cpc[c] \in {"send", "ready"} /\ conn[c] = "none" /\ disk = before[c]
  /\ Len(toClient[c]) = 1 /\ toClient[c][1].cmd = "ACK"
  /\ toClient[c][1].size = currentTcpPort

Connecting(c) == /\ cpc[c] = "connect" /\ cmd[c].port = currentTcpPort
                 /\ conn[c] = "none" /\ disk = before[c] /\ toClient[c] = << >>

Streaming(c) ==
  /\ toClient[c] = << >>
  /\ \/ cpc[c] = "stream" /\ conn[c] = "open"
     \/ cpc[c] = "largeAck" /\ conn[c] = cmd[c].data
     \/ cpc[c] = "dead" /\ conn[c] \in {"cut"} \cup Contents

InAccept(c) ==
  \/ Stuck(c)
  \/ Expected(c) /\ (Offered(c) \/ Connecting(c) \/ Streaming(c))

InRecv(c) == peer = c /\ Expected(c) /\ Streaming(c)

InDown(c) == /\ cpc[c] \in {"prompt", "dead"} /\ result[c] = "shutdown"
             /\ toServer[c] = << >> /\ conn[c] = "none"

InStep(c) ==
  /\ pc = "main" => InMain(c)
  /\ pc \in {"confirm", "small", "newName", "renameConfirm"} => NothingDone(c)
  /\ pc = "confirm" => InConfirm(c)
  /\ pc = "small" => InSmall(c)
  /\ pc = "newName" => InNewName(c)
  /\ pc = "renameConfirm" => InRenameConfirm(c)
  /\ pc = "accept" => InAccept(c)
  /\ pc = "recv" => InRecv(c)
  /\ pc = "down" => InDown(c)

\* What a client knows where it stands.
ClientKnows(c) ==
  /\ cpc[c] \notin {"prompt", "dead"} => result[c] = "none"
  /\ cpc[c] = "smallAck" => Small(c)
  /\ cpc[c] \in {"connect", "stream", "largeAck"} => ~ Small(c)
  /\ cpc[c] \in {"askOverwrite", "declined", "askRename"} => disk = before[c]

RefusalKept(c) == Refused(c) => disk = before[c]

OneClient(c) ==
  /\ InStep(c) /\ ClientKnows(c)
  /\ ReportTrue(c) /\ RefusalKept(c) /\ OthersKept(c)

\* What holds until a content is misread.
Settled(c) == IInv /\ OneClient(c)

-----------------------------------------------------------------------------
(* Queues with one datagram.                                               *)

\* A queue from which its oldest datagram is taken, or lost.
LEMMA Taken ==
  ASSUME NEW D, NEW q \in Seq(D), q # << >>
  PROVE  /\ Len(q) \in Nat \ {0} /\ 1 \in 1..Len(q) /\ q[1] \in D
         /\ q[1] = Head(q) /\ Tail(q) \in Seq(D)
         /\ Len(Tail(q)) = Len(q) - 1
         /\ \A i \in 1..Len(Tail(q)) :
              /\ i + 1 \in 1..Len(q) /\ Tail(q)[i] = q[i + 1]
              /\ i + 1 = Len(q) => i = Len(Tail(q))
  OBVIOUS

\* When it held no other, it is empty.
LEMMA TakenOnly ==
  ASSUME NEW D, NEW q \in Seq(D), q # << >>, NEW S, Only(q, S)
  PROVE  q[1] \in S /\ Head(q) \in S /\ Tail(q) = << >>
<1>1. Len(q) = 1 /\ q[1] \in S
  BY DEF Only
<1>2. Tail(q) \in Seq(D) /\ Len(Tail(q)) = 0 /\ q[1] = Head(q)
  BY <1>1, Taken
<1>3. Tail(q) = << >>
  BY <1>2, EmptySeq
<1>. QED
  BY <1>1, <1>2, <1>3

\* Nothing can be taken from a queue that may hold nothing.
LEMMA NothingOnly ==
  ASSUME NEW q, NEW S, Only(q, S), \A m : m \notin S
  PROVE  q = << >>
BY DEF Only

\* A datagram appended to an empty queue is its only one.
LEMMA AppendedOnly ==
  ASSUME NEW D, NEW m \in D, NEW q \in Seq(D), q = << >>
  PROVE  /\ Append(q, m) # << >> /\ Len(Append(q, m)) = 1 /\ Append(q, m)[1] = m
         /\ \A S : m \in S => Only(Append(q, m), S)
<1>1. Len(Append(q, m)) = 1 /\ Append(q, m)[1] = m
  OBVIOUS
<1>2. Append(q, m) # << >>
  BY <1>1
<1>. QED
  BY <1>1, <1>2 DEF Only

\* To one datagram a second is appended.
LEMMA AppendedSecond ==
  ASSUME NEW D, NEW m \in D, NEW q \in Seq(D), Len(q) = 1
  PROVE  /\ Len(Append(q, m)) = 2 /\ Append(q, m)[1] = q[1]
         /\ Append(q, m)[2] = m
<1>1. Append(q, m)[1] = q[1]
  <2>1. \A i \in 1..Len(q) : Append(q, m)[i] = q[i]
    BY AppendProperties
  <2>. QED
    BY <2>1
<1>2. Append(q, m)[2] = m
  <2>1. Append(q, m)[Len(q) + 1] = m
    BY AppendProperties
  <2>. QED
    BY <2>1
<1>3. Len(Append(q, m)) = 2
  <2>1. Len(Append(q, m)) = Len(q) + 1
    BY AppendProperties
  <2>. QED
    BY <2>1
<1>. QED
  BY <1>1, <1>2, <1>3

\* Of two datagrams the second is left.
LEMMA SecondLeft ==
  ASSUME NEW D, NEW q \in Seq(D), Len(q) = 2
  PROVE  /\ q # << >> /\ Len(Tail(q)) = 1
         /\ Tail(q)[1] = q[2] /\ q[2] \in D
<1>1. q # << >>
  OBVIOUS
<1>2. Len(Tail(q)) = 1
  BY <1>1, HeadTailProperties
<1>3. Tail(q)[1] = q[2]
  <2>1. PICK t : t = Tail(q)
    OBVIOUS
  <2>2. Len(t) = 1 /\ \A i \in 1..Len(t) : t[i] = q[i + 1]
    BY <1>1, <1>2, <2>1, HeadTailProperties
  <2>3. t[1] = q[2]
    BY <2>2
  <2>. QED
    BY <2>1, <2>3
<1>4. q[2] \in D
  OBVIOUS
<1>. QED
  BY <1>1, <1>2, <1>3, <1>4

\* What a queue may hold can grow.
LEMMA OnlyMore ==
  ASSUME NEW q, NEW S, NEW T, Only(q, S), \A m : m \in S => m \in T
  PROVE  Only(q, T)
BY DEF Only

\* The oldest of a queue of the main loop is dropped, or is its only one.
LEMMA IdleTaken ==
  ASSUME NEW q \in Seq(ClientDatagrams), q # << >>, NEW S, IdleBut(q, S)
  PROVE  /\ q[1] \in Idle \/ (q[1] \in S /\ Tail(q) = << >>)
         /\ IdleBut(Tail(q), S)
<1>1. /\ Len(q) \in Nat \ {0} /\ Tail(q) \in Seq(ClientDatagrams)
      /\ Len(Tail(q)) = Len(q) - 1
      /\ \A i \in 1..Len(Tail(q)) :
           /\ i + 1 \in 1..Len(q) /\ Tail(q)[i] = q[i + 1]
           /\ i + 1 = Len(q) => i = Len(Tail(q))
  BY Taken
<1>2. \A i \in 1..Len(q) : q[i] \in Idle \/ (i = Len(q) /\ q[i] \in S)
  BY DEF IdleBut
<1>3. IdleBut(Tail(q), S)
  <2>1. SUFFICES ASSUME NEW i \in 1..Len(Tail(q))
                 PROVE  Tail(q)[i] \in Idle \/ (i = Len(Tail(q)) /\ Tail(q)[i] \in S)
    BY DEF IdleBut
  <2>2. i + 1 \in 1..Len(q) /\ Tail(q)[i] = q[i + 1]
    BY <1>1
  <2>3. q[i + 1] \in Idle \/ (i + 1 = Len(q) /\ q[i + 1] \in S)
    BY <1>2, <2>2
  <2>4. i + 1 = Len(q) => i = Len(Tail(q))
    BY <1>1
  <2>. QED
    BY <2>2, <2>3, <2>4
<1>4. q[1] \in Idle \/ (q[1] \in S /\ Tail(q) = << >>)
  <2>1. 1 \in 1..Len(q)
    BY Taken
  <2>2. q[1] \in Idle \/ (Len(q) = 1 /\ q[1] \in S)
    BY <1>2, <2>1
  <2>3. q[1] \in S => Only(q, S) \/ Len(q) # 1
    BY DEF Only
  <2>. QED
    BY <2>2, <2>3, TakenOnly
<1>. QED
  BY <1>3, <1>4

\* One more datagram comes behind those that are dropped.
LEMMA IdleAppended ==
  ASSUME NEW q \in Seq(ClientDatagrams), IdleBut(q, {}), NEW m \in ClientDatagrams,
         NEW S, m \in Idle \/ m \in S
  PROVE  IdleBut(Append(q, m), S)
<1>1. /\ Len(q) \in Nat /\ Len(Append(q, m)) = Len(q) + 1
      /\ \A i \in 1..Len(q) : Append(q, m)[i] = q[i]
      /\ Append(q, m)[Len(q) + 1] = m
  BY AppendProperties, LenProperties
<1>2. \A i \in 1..Len(q) : q[i] \in Idle
  BY DEF IdleBut
<1>3. SUFFICES ASSUME NEW i \in 1..Len(q) + 1
               PROVE  \/ Append(q, m)[i] \in Idle
                      \/ i = Len(q) + 1 /\ Append(q, m)[i] \in S
  BY <1>1 DEF IdleBut
<1>4. CASE i \in 1..Len(q)
  BY <1>1, <1>2, <1>4
<1>5. CASE i = Len(q) + 1
  BY <1>1, <1>5
<1>. QED
  BY <1>1, <1>4, <1>5

\* What the last datagram may be can change as long as it is of no use.
LEMMA IdleMore ==
  ASSUME NEW q, NEW S, NEW T, IdleBut(q, S), \A m : m \in S => m \in T
  PROVE  IdleBut(q, T)
BY DEF IdleBut

\* What a handler waits for is of no use to the main loop.
LEMMA OnlyIdle ==
  ASSUME NEW q, NEW S, Only(q, S), \A m : m \in S => m \in Idle
  PROVE  \A T : IdleBut(q, T)
BY DEF Only, IdleBut

USE BackupAssumption

\* The datagram that the server's recvfrom takes is the client's oldest.
LEMMA ServerTakes ==
  ASSUME NEW c, Alone(c), IInv, NEW m \in FirstOf(toServer[c])
  PROVE  /\ toServer[c] \in Seq(ClientDatagrams) /\ toServer[c] # << >>
         /\ m = Head(toServer[c]) /\ m = toServer[c][1]
         /\ m \in ClientDatagrams /\ m \in Datagrams
         /\ Receive(c) => toServer'[c] = Tail(toServer[c]) /\ currentClientAddr' = c
<1>1. toServer \in [Clients -> Seq(ClientDatagrams)] /\ c \in Clients
  BY DEF IInv, NetworkOK, Alone
<1>2. toServer[c] # << >> /\ m = Head(toServer[c])
  BY DEF FirstOf
<1>3. m = toServer[c][1] /\ m \in ClientDatagrams
  BY <1>1, <1>2, Taken
<1>. QED
  BY <1>1, <1>2, <1>3 DEF Receive, ClientDatagrams

\* The answer that a client's recvfrom takes is the oldest for it.
LEMMA ClientTakes ==
  ASSUME NEW c, Alone(c), IInv, NEW m \in FirstOf(toClient[c]), NEW where,
         ClientReceives(c, where)
  PROVE  /\ toClient[c] \in Seq(Datagrams) /\ toClient[c] # << >>
         /\ m = Head(toClient[c]) /\ m = toClient[c][1] /\ m \in Datagrams
         /\ toClient'[c] = Tail(toClient[c]) /\ cpc[c] = where
         /\ UNCHANGED <<server, conn, before, typed, lost>>
<1>1. toClient \in [Clients -> Seq(Datagrams)] /\ c \in Clients
  BY DEF IInv, NetworkOK, Alone
<1>2. toClient[c] # << >> /\ m = Head(toClient[c])
  BY DEF FirstOf
<1>3. m = toClient[c][1] /\ m \in Datagrams
  BY <1>1, <1>2, Taken
<1>4. toClient'[c] = Tail(toClient[c]) /\ cpc[c] = where
  BY <1>1 DEF ClientReceives
<1>. QED
  BY <1>1, <1>2, <1>3, <1>4 DEF ClientReceives, clientOnly

\* An answer to a client that has none coming is the only one, or is lost with
\* a client that was killed.
LEMMA AnswerSent ==
  ASSUME NEW c, Alone(c), IInv, NEW m \in Datagrams, sendResponse(c, m)
  PROVE  /\ cpc[c] = "dead" => toClient'[c] = toClient[c]
         /\ cpc[c] # "dead" => toClient'[c] = Append(toClient[c], m)
         /\ toClient[c] = << >> /\ cpc[c] # "dead" =>
              Len(toClient'[c]) = 1 /\ toClient'[c][1] = m
         /\ \A S : toClient[c] = << >> /\ (cpc[c] # "dead" => m \in S) => Only(toClient'[c], S)
<1>1. toClient \in [Clients -> Seq(Datagrams)] /\ c \in Clients
  BY DEF IInv, NetworkOK, Alone
<1>2. CASE cpc[c] = "dead"
  BY <1>1, <1>2 DEF sendResponse, Sent, Only
<1>3. CASE cpc[c] # "dead"
  <2>1. toClient'[c] = Append(toClient[c], m)
    BY <1>1, <1>3 DEF sendResponse, Sent
  <2>2. toClient[c] \in Seq(Datagrams)
    BY <1>1
  <2>. QED
    BY <1>3, <2>1, <2>2, AppendedOnly
<1>. QED
  BY <1>2, <1>3

\* A command or an answer of the client is one more datagram for the server,
\* unless that is shut down.
LEMMA CommandSent ==
  ASSUME NEW c, Alone(c), IInv, NEW m \in ClientDatagrams, sendCommand(c, m), pc # "down"
  PROVE  /\ toServer[c] \in Seq(ClientDatagrams)
         /\ toServer'[c] = Append(toServer[c], m)
         /\ \A S : toServer[c] = << >> /\ m \in S => Only(toServer'[c], S)
<1>1. toServer \in [Clients -> Seq(ClientDatagrams)] /\ c \in Clients
  BY DEF IInv, NetworkOK, Alone
<1>2. toServer'[c] = Append(toServer[c], m)
  BY <1>1 DEF sendCommand
<1>. QED
  BY <1>1, <1>2, AppendedOnly

-----------------------------------------------------------------------------
(* The server's steps.                                                     *)

Promises(c) == ClientKnows(c) /\ ReportTrue(c) /\ RefusalKept(c) /\ OthersKept(c)

\* A step of the server keeps what is promised of the client when it leaves the
\* directory alone, or changes the files of a command that is not yet answered.
LEMMA ServerTells ==
  ASSUME NEW c, Alone(c), Settled(c), UNCHANGED clients,
         \/ UNCHANGED disk
         \/ /\ result[c] = "none"
            /\ cpc[c] \notin {"askOverwrite", "declined", "askRename"}
            /\ \A n \in Names \ {cmd[c].name, cmd[c].new} : disk'[n] = disk[n]
  PROVE  Promises(c)'
<1>1. Clients = {c} /\ UNCHANGED <<cpc, cmd, result, before>>
  BY DEF Alone, clients
<1>2. ClientKnows(c) /\ ReportTrue(c) /\ RefusalKept(c) /\ OthersKept(c)
  BY DEF Settled, OneClient
<1>3. Small(c)' <=> Small(c)
  BY <1>1 DEF Small
<1>4. CASE UNCHANGED disk
  <2>1. ClientKnows(c)'
    BY <1>1, <1>2, <1>3, <1>4 DEF ClientKnows
  <2>2. ReportTrue(c)'
    BY <1>1, <1>2, <1>4 DEF ReportTrue, Files
  <2>3. RefusalKept(c)'
    BY <1>1, <1>2, <1>3, <1>4 DEF RefusalKept, Refused
  <2>4. OthersKept(c)'
    BY <1>1, <1>2, <1>4 DEF OthersKept
  <2>. QED
    BY <2>1, <2>2, <2>3, <2>4 DEF Promises
<1>5. CASE /\ result[c] = "none"
           /\ cpc[c] \notin {"askOverwrite", "declined", "askRename"}
           /\ \A n \in Names \ {cmd[c].name, cmd[c].new} : disk'[n] = disk[n]
  <2>1. ClientKnows(c)'
    BY <1>1, <1>2, <1>3, <1>5 DEF ClientKnows
  <2>2. ReportTrue(c)'
    BY <1>1, <1>5 DEF ReportTrue
  <2>3. RefusalKept(c)'
    BY <1>1, <1>5 DEF RefusalKept, Refused
  <2>4. OthersKept(c)'
    BY <1>1, <1>2, <1>5 DEF OthersKept
  <2>. QED
    BY <2>1, <2>2, <2>3, <2>4 DEF Promises
<1>. QED
  BY <1>4, <1>5

\* What the main loop receives is dropped, or is the command that the client
\* typed, with nothing behind it.
LEMMA MainTakes ==
  ASSUME NEW c, Alone(c), Settled(c), pc = "main", NEW m \in FirstOf(toServer[c])
  PROVE  /\ m \in Idle \/ (m \in Request(c) /\ Tail(toServer[c]) = << >>)
         /\ IdleBut(Tail(toServer[c]), Request(c))
<1>1. /\ toServer[c] \in Seq(ClientDatagrams) /\ toServer[c] # << >>
      /\ m = toServer[c][1]
  BY ServerTakes DEF Settled
<1>2. IdleBut(toServer[c], Request(c))
  BY DEF Settled, OneClient, InStep, InMain
<1>. QED
  BY <1>1, <1>2, IdleTaken

\* A command that a handler is called with is the one the client waits on; no
\* datagram is left.
LEMMA Served ==
  ASSUME NEW c, Alone(c), Settled(c), NEW m \in FirstOf(toServer[c]),
         NEW command \in {"LS", "SEND", "REMOVE", "RENAME"}, Serve(c, m, command), ~ misread'
  PROVE  /\ pc = "main" /\ m \in Datagrams /\ m.cmd = command /\ m.filename = cmd[c].name
         /\ toServer'[c] = << >> /\ toClient[c] = << >>
         /\ result[c] = "none" /\ disk = before[c] /\ conn[c] = "none"
         /\ \/ cpc[c] = "dead"
            \/ command = "LS" /\ cpc[c] = "ls"
            \/ command = "SEND" /\ cpc[c] = "send" /\ m.size = SizeOf[cmd[c].data]
            \/ command = "REMOVE" /\ cpc[c] = "remove"
            \/ command = "RENAME" /\ cpc[c] = "rename"
<1>1. /\ pc = "main" /\ m.cmd = command /\ Receive(c)
  BY DEF Serve
<1>2. m \in Datagrams /\ toServer'[c] = Tail(toServer[c])
  BY <1>1, ServerTakes DEF Settled
<1>3. m \in Request(c) /\ Tail(toServer[c]) = << >>
  BY <1>1, MainTakes DEF Idle, Serve, Read
<1>4. InMain(c) /\ ClientKnows(c)
  BY <1>1 DEF Settled, OneClient, InStep
<1>5. \/ cpc[c] = "dead" /\ result[c] = "none"
      \/ command = "LS" /\ cpc[c] = "ls"
      \/ command = "SEND" /\ cpc[c] = "send" /\ m.size = SizeOf[cmd[c].data]
      \/ command = "REMOVE" /\ cpc[c] = "remove"
      \/ command = "RENAME" /\ cpc[c] = "rename"
  BY <1>1, <1>3 DEF Request, Starting
<1>6. result[c] = "none" /\ conn[c] = "none"
  BY <1>4, <1>5 DEF ClientKnows, InMain
<1>. QED
  BY <1>1, <1>2, <1>3, <1>5, <1>6 DEF Request

\* The server is back in its main loop with nothing to receive.
LEMMA BackInMain ==
  ASSUME NEW c, pc' = "main", toServer'[c] = << >>, Only(toClient'[c], Answers(c)'),
         cpc'[c] # "connect", conn'[c] = IF cpc'[c] = "stream" THEN "reset" ELSE "none"
  PROVE  InStep(c)'
BY DEF InStep, InMain, IdleBut

\* A handler is over: its answer is all that is left.
LEMMA Answered ==
  ASSUME NEW c, Alone(c), IInv, NEW m \in Datagrams, sendResponse(c, m), pc' = "main",
         toServer'[c] = << >>, toClient[c] = << >>, UNCHANGED cpc,
         cpc[c] # "connect", conn'[c] = IF cpc[c] = "stream" THEN "reset" ELSE "none",
         cpc[c] # "dead" => AnswerTrue(c, m)'
  PROVE  InStep(c)'
<1>1. cpc[c] # "dead" => m \in Answers(c)'
  BY DEF Answers
<1>2. Only(toClient'[c], Answers(c)')
  BY <1>1, AnswerSent
<1>. QED
  BY <1>2, BackInMain

\* So it is when the answer is an error, or the ACK of what is done.
LEMMA AckAnswered ==
  ASSUME NEW c, Alone(c), IInv, NEW e \in Nat, Answer(c, e), UNCHANGED cpc,
         toServer'[c] = << >>, toClient[c] = << >>, conn[c] = "none",
         cpc[c] \notin {"connect", "stream"},
         cpc[c] # "dead" => AnswerTrue(c, Ack(0, e))'
  PROVE  InStep(c)'
<1>1. /\ pc' = "main" /\ sendResponse(c, Ack(0, e)) /\ UNCHANGED conn
      /\ Ack(0, e) \in Datagrams
  BY AckType DEF Answer, Return, tcp
<1>. QED
  BY <1>1, Answered

\* What an ACK says.
LEMMA AckSays ==
  ASSUME NEW s, NEW e, NEW n
  PROVE  /\ IsAck(Ack(s, e), n) <=> e = n
         /\ Ack(s, e).cmd = "ACK" /\ Ack(s, e).error = e /\ Ack(s, e).size = s
BY DEF IsAck, Ack, CmdMsg, Message

\* ls: the client that waits for the list gets the one there is.
LEMMA handleLsFits ==
  ASSUME NEW c, Alone(c), Settled(c), handleLs(c), ~ misread' PROVE OneClient(c)'
<1>1. PICK m \in FirstOf(toServer[c]) :
        /\ Serve(c, m, "LS") /\ sendResponse(c, DataMsg(Files))
        /\ UNCHANGED <<pc, locals, tcp, disk, clients, typed, lost>>
  BY DEF handleLs
<1>2. /\ pc = "main" /\ toServer'[c] = << >> /\ toClient[c] = << >> /\ conn[c] = "none"
      /\ cpc[c] \in {"ls", "dead"}
  BY <1>1, Served
<1>3. UNCHANGED <<pc, conn, disk, cpc>>
  BY <1>1 DEF tcp, clients
<1>. DataMsg(Files) \in Datagrams
  BY DataMsgType DEF Files, Datum
<1>. DataMsg(Files).data = Files
  BY DEF DataMsg, Message
<1>4. PICK r \in Datagrams : r = DataMsg(Files) /\ r.data = Files
  OBVIOUS
<1>5. cpc[c] # "dead" => AnswerTrue(c, r)'
  <2>1. Files' = Files
    BY <1>3 DEF Files
  <2>. QED
    BY <1>2, <1>3, <1>4, <2>1 DEF AnswerTrue
<1>6. /\ IInv /\ pc' = "main" /\ cpc[c] # "connect"
      /\ conn'[c] = IF cpc[c] = "stream" THEN "reset" ELSE "none"
  BY <1>2, <1>3 DEF Settled
<1>7. InStep(c)'
  BY <1>1, <1>2, <1>3, <1>4, <1>5, <1>6, Answered
<1>8. Promises(c)'
  BY <1>1, <1>3, ServerTells
<1>. QED
  BY <1>7, <1>8 DEF OneClient, Promises

\* A transfer begins for the file of the client that waits, or of one that was
\* killed, which the server does not notice.
LEMMA BeginTransferFits ==
  ASSUME NEW c, Alone(c), Settled(c), NEW n, NEW s \in Nat, BeginTransfer(c, n, s),
         UNCHANGED clients, toServer'[c] = << >>, toClient[c] = << >>,
         result[c] = "none", disk = before[c], conn[c] = "none",
         n = cmd[c].name, cpc[c] \in {"send", "ready", "dead"},
         cpc[c] # "dead" => s = SizeOf[cmd[c].data]
  PROVE  OneClient(c)'
<1>1. UNCHANGED <<disk, conn, currentTcpPort, cpc, cmd, result, before>>
  BY DEF BeginTransfer, BeginSmall, BeginLarge, BeginFails, tcp, clients
<1>2. currentTcpPort \in Nat /\ DATA_BUF_LEN \in Nat
  BY DEF Settled, IInv, TransferOK
<1>3. Promises(c)'
  BY <1>1, ServerTells
<1>4. InStep(c)'
  <2>1. CASE BeginSmall(c, n, s)
    <3>1. /\ pc' = "small" /\ filename' = n /\ filesize' = s
          /\ sendResponse(c, Ack(0, 0)) /\ s <= DATA_BUF_LEN
      BY <2>1 DEF BeginSmall
    <3>2. Ack(0, 0) \in Datagrams /\ IsAck(Ack(0, 0), 0)
      BY AckType, AckSays
    <3>. DEFINE S == {m \in Datagrams : cpc'[c] \in {"send", "ready"} /\ IsAck(m, 0)}
    <3>. cpc[c] # "dead" => Ack(0, 0) \in S
      BY <1>1, <3>2
    <3>3. Only(toClient'[c], S)
      <4>. HIDE DEF S
      <4>. QED
        BY <3>1, <3>2, AnswerSent DEF Settled
    <3>4. cpc'[c] # "dead" => Small(c)'
      BY <1>1, <3>1 DEF Small
    <3>5. NothingDone(c)'
      BY <1>1, <3>1 DEF NothingDone
    <3>6. InSmall(c)'
      BY <1>1, <3>1, <3>3, <3>4 DEF InSmall, Only
    <3>. QED
      BY <3>1, <3>5, <3>6 DEF InStep
  <2>2. CASE BeginLarge(c, n, s)
    <3>1. /\ pc' = "accept" /\ filename' = n /\ filesize' = s
          /\ sendResponse(c, Ack(currentTcpPort, 0)) /\ s > DATA_BUF_LEN
      BY <2>2 DEF BeginLarge
    <3>2. Ack(currentTcpPort, 0) \in Datagrams
      BY <1>2, AckType
    <3>3. CASE cpc[c] = "dead"
      <4>1. toClient'[c] = << >>
        BY <3>1, <3>2, <3>3, AnswerSent DEF Settled
      <4>2. Stuck(c)'
        BY <1>1, <3>3, <4>1 DEF Stuck
      <4>. QED
        BY <3>1, <4>2 DEF InStep, InAccept
    <3>4. CASE cpc[c] # "dead"
      <4>1. Len(toClient'[c]) = 1 /\ toClient'[c][1] = Ack(currentTcpPort, 0)
        BY <3>1, <3>2, <3>4, AnswerSent DEF Settled
      <4>2. Offered(c)'
        BY <1>1, <3>4, <4>1, AckSays DEF Offered
      <4>3. ~ Small(c)'
        BY <1>1, <1>2, <3>1, <3>4 DEF Small
      <4>4. Expected(c)'
        BY <1>1, <3>1, <3>4, <4>3 DEF Expected
      <4>. QED
        BY <3>1, <4>2, <4>4 DEF InStep, InAccept
    <3>. QED
      BY <3>3, <3>4
  <2>3. CASE BeginFails(s)
    <3>1. pc' = "main" /\ toClient'[c] = << >>
      BY <2>3 DEF BeginFails, Return
    <3>2. Only(toClient'[c], Answers(c)')
      BY <3>1 DEF Only
    <3>. QED
      BY <1>1, <3>1, <3>2, BackInMain
  <2>. QED
    BY <2>1, <2>2, <2>3 DEF BeginTransfer
<1>. QED
  BY <1>3, <1>4 DEF OneClient, Promises

\* send: the client's file exists, and the client is asked, or its transfer
\* begins.  The name of a client that still waits is valid.
LEMMA handleSendFits ==
  ASSUME NEW c, Alone(c), Settled(c), handleSend(c), ~ misread' PROVE OneClient(c)'
<1>1. PICK m \in FirstOf(toServer[c]) :
        /\ Serve(c, m, "SEND")
        /\ \/ ~ isValidFilename(m.filename) /\ Answer(c, INVALID_FILENAME)
           \/ /\ isValidFilename(m.filename) /\ disk[m.filename] # Absent
              /\ pc' = "confirm" /\ filename' = m.filename
              /\ filesize' = m.size /\ newFilename' = Absent
              /\ sendResponse(c, CmdMsg("FILE_EXISTS", Absent, m.size, 0))
              /\ UNCHANGED <<disk, tcp>>
           \/ /\ isValidFilename(m.filename) /\ disk[m.filename] = Absent
              /\ BeginTransfer(c, m.filename, m.size)
        /\ UNCHANGED <<clients, typed, lost>>
  BY DEF handleSend
<1>2. /\ pc = "main" /\ m \in Datagrams /\ m.filename = cmd[c].name
      /\ toServer'[c] = << >> /\ toClient[c] = << >>
      /\ result[c] = "none" /\ disk = before[c] /\ conn[c] = "none"
      /\ cpc[c] = "dead" \/ (cpc[c] = "send" /\ m.size = SizeOf[cmd[c].data])
  BY <1>1, Served
<1>3. m.size \in Nat /\ UNCHANGED <<cpc, cmd, result, before>> /\ IInv
  BY <1>1, <1>2 DEF Datagrams, clients, Settled
<1>4. CASE ~ isValidFilename(m.filename) /\ Answer(c, INVALID_FILENAME)
  <2>1. cpc[c] = "dead"
    <3>1. cpc[c] = "send" => cmd[c].name \in ValidNames
      BY <1>3 DEF IInv, ClientsOK, Uploading, Alone
    <3>. QED
      BY <1>2, <1>4, <3>1 DEF isValidFilename
  <2>2. InStep(c)'
    BY <1>2, <1>3, <1>4, <2>1, AckAnswered DEF INVALID_FILENAME
  <2>3. Promises(c)'
    BY <1>1, <1>4, ServerTells DEF Answer
  <2>. QED
    BY <2>2, <2>3 DEF OneClient, Promises
<1>5. CASE /\ pc' = "confirm" /\ filename' = m.filename
           /\ sendResponse(c, CmdMsg("FILE_EXISTS", Absent, m.size, 0))
           /\ UNCHANGED <<disk, tcp>>
  <2>. DEFINE r == CmdMsg("FILE_EXISTS", Absent, m.size, 0)
              S == {x \in Datagrams : cpc'[c] = "send" /\ x.cmd = "FILE_EXISTS"}
  <2>1. r \in Datagrams
    BY <1>3, CmdMsgType DEF Commands, Codes
  <2>2. cpc[c] # "dead" => r \in S
    BY <1>2, <1>3, <2>1 DEF CmdMsg, Message
  <2>3. Only(toClient'[c], S)
    <3>1. sendResponse(c, r)
      BY <1>5
    <3>. HIDE DEF r, S
    <3>. QED
      BY <1>2, <1>3, <2>1, <2>2, <3>1, AnswerSent
  <2>4. NothingDone(c)' /\ InConfirm(c)'
    BY <1>2, <1>3, <1>5, <2>3 DEF NothingDone, InConfirm, Only, tcp
  <2>5. InStep(c)'
    BY <1>5, <2>4 DEF InStep
  <2>6. Promises(c)'
    BY <1>1, <1>5, ServerTells
  <2>. QED
    BY <2>5, <2>6 DEF OneClient, Promises
<1>6. CASE BeginTransfer(c, m.filename, m.size)
  <2>1. /\ UNCHANGED clients /\ cpc[c] \in {"send", "ready", "dead"}
        /\ cpc[c] # "dead" => m.size = SizeOf[cmd[c].data]
    BY <1>1, <1>2
  <2>. QED
    BY <1>2, <1>3, <1>6, <2>1, BeginTransferFits
<1>. QED
  BY <1>1, <1>4, <1>5, <1>6

\* What is taken in a handler is the one datagram that can be under way to it.
LEMMA HandlerTakes ==
  ASSUME NEW c, Alone(c), Settled(c), NEW m \in FirstOf(toServer[c]), Receive(c),
         NEW S, Only(toServer[c], S)
  PROVE  m \in S /\ m \in Datagrams /\ toServer'[c] = << >>
<1>1. /\ toServer[c] \in Seq(ClientDatagrams) /\ toServer[c] # << >>
      /\ m = Head(toServer[c]) /\ m \in Datagrams /\ toServer'[c] = Tail(toServer[c])
  BY ServerTakes DEF Settled
<1>. QED
  BY <1>1, TakenOnly

\* The confirmation names the client's own file, and says what the client waits
\* for after it.
LEMMA OverwriteAnsweredFits ==
  ASSUME NEW c, Alone(c), Settled(c), OverwriteAnswered(c) PROVE OneClient(c)'
<1>1. PICK m \in FirstOf(toServer[c]) :
        /\ pc = "confirm" /\ Receive(c)
        /\ \/ Confirmed(m) /\ BeginTransfer(c, m.filename, m.size)
           \/ ~ Confirmed(m) /\ Answer(c, 2)
        /\ UNCHANGED <<clients, typed, lost>>
  BY DEF OverwriteAnswered
<1>2. NothingDone(c) /\ InConfirm(c) /\ IInv
  BY <1>1 DEF Settled, OneClient, InStep
<1>3. /\ m \in Datagrams /\ toServer'[c] = << >> /\ m.filename = cmd[c].name
      /\ cpc[c] \in {"ready", "declined", "dead"} /\ m.cmd = "OVERWRITE"
      /\ cpc[c] = "ready" => m.error = 0 /\ m.size = SizeOf[cmd[c].data]
      /\ cpc[c] = "declined" => m.error # 0
  <2>. DEFINE S == {x \in ClientDatagrams :
                      /\ cpc[c] \in {"ready", "declined", "dead"} /\ x.cmd = "OVERWRITE"
                      /\ x.data \notin Contents /\ x.filename = cmd[c].name
                      /\ cpc[c] = "ready" => x.error = 0 /\ x.size = SizeOf[cmd[c].data]
                      /\ cpc[c] = "declined" => x.error # 0}
  <2>1. Only(toServer[c], S)
    BY <1>2 DEF InConfirm
  <2>2. m \in S /\ m \in Datagrams /\ toServer'[c] = << >>
    <3>. HIDE DEF S
    <3>. QED
      BY <1>1, <2>1, HandlerTakes
  <2>. QED
    BY <2>2
<1>4. toClient[c] = << >> /\ conn[c] = "none" /\ result[c] = "none" /\ disk = before[c]
  BY <1>2, <1>3, NothingOnly DEF InConfirm, NothingDone
<1>5. m.size \in Nat /\ UNCHANGED <<cpc, cmd, result, before>>
  BY <1>1, <1>3 DEF Datagrams, clients
<1>6. CASE Confirmed(m) /\ BeginTransfer(c, m.filename, m.size)
  <2>1. /\ UNCHANGED clients /\ cpc[c] \in {"send", "ready", "dead"}
        /\ cpc[c] # "dead" => m.size = SizeOf[cmd[c].data]
    BY <1>1, <1>3, <1>6 DEF Confirmed
  <2>. QED
    BY <1>3, <1>4, <1>5, <1>6, <2>1, BeginTransferFits
<1>7. CASE ~ Confirmed(m) /\ Answer(c, 2)
  <2>1. cpc[c] \in {"declined", "dead"}
    BY <1>3, <1>7 DEF Confirmed
  <2>2. cpc[c] # "dead" => AnswerTrue(c, Ack(0, 2))'
    BY <1>5, <2>1 DEF AnswerTrue
  <2>3. InStep(c)'
    BY <1>2, <1>3, <1>4, <1>5, <1>7, <2>1, <2>2, AckAnswered
  <2>4. Promises(c)'
    BY <1>1, <1>7, ServerTells DEF Answer
  <2>. QED
    BY <2>3, <2>4 DEF OneClient, Promises
<1>. QED
  BY <1>1, <1>6, <1>7

\* A handler that gives up without a word leaves what it asked, and what it may
\* be answered, which the main loop drops.
LEMMA ConfirmationMissingFits ==
  ASSUME NEW c, Alone(c), Settled(c), ConfirmationMissing PROVE OneClient(c)'
<1>1. /\ pc \in {"confirm", "newName", "renameConfirm"} /\ pc' = "main"
      /\ UNCHANGED <<toServer, disk, conn, toClient, cpc, cmd, result, before, clients>>
  BY DEF ConfirmationMissing, NothingReceived, Return, tcp, clients
<1>2. NothingDone(c) /\ InStep(c)
  BY <1>1 DEF Settled, OneClient, InStep
<1>3. cpc[c] \notin {"connect", "stream"}
  BY <1>1, <1>2 DEF InStep, InConfirm, InNewName, InRenameConfirm
<1>4. IdleBut(toServer[c], Request(c)')
  <2>1. CASE pc = "confirm"
    BY <1>2, <2>1, OnlyIdle DEF InStep, InConfirm, Idle
  <2>2. CASE pc = "newName"
    BY <1>2, <2>2, OnlyIdle DEF InStep, InNewName, Idle
  <2>3. CASE pc = "renameConfirm"
    BY <1>2, <2>3, OnlyIdle DEF InStep, InRenameConfirm, Idle
  <2>. QED
    BY <1>1, <2>1, <2>2, <2>3
<1>5. Only(toClient[c], Answers(c)')
  <2>1. \A m \in Datagrams : (\/ cpc[c] = "send" /\ m.cmd = "FILE_EXISTS"
                              \/ cpc[c] = "rename" /\ m.cmd # "ACK"
                              \/ cpc[c] = "newNameAck" /\ m.cmd = "FILE_EXISTS")
                             => m \in Answers(c)'
    BY <1>1, <1>2 DEF Answers, AnswerTrue, NothingDone, IsAck
  <2>2. CASE pc = "confirm"
    BY <1>2, <2>1, <2>2, OnlyMore DEF InStep, InConfirm
  <2>3. CASE pc = "newName"
    BY <1>2, <2>1, <2>3, OnlyMore DEF InStep, InNewName
  <2>4. CASE pc = "renameConfirm"
    BY <1>2, <2>1, <2>4, OnlyMore DEF InStep, InRenameConfirm
  <2>. QED
    BY <1>1, <2>2, <2>3, <2>4
<1>6. conn[c] = "none"
  BY <1>2 DEF NothingDone
<1>7. InStep(c)'
  BY <1>1, <1>3, <1>4, <1>5, <1>6 DEF InStep, InMain
<1>8. Promises(c)'
  BY <1>1, ServerTells
<1>. QED
  BY <1>7, <1>8 DEF OneClient, Promises

\* The content that arrives is that of the client's file, and the ACK says
\* whether it is stored.
LEMMA SmallFileArrivesFits ==
  ASSUME NEW c, Alone(c), Settled(c), SmallFileArrives(c) PROVE OneClient(c)'
<1>0. PICK m \in FirstOf(toServer[c]), ok \in BOOLEAN : \E w \in Written(m.data) :
        /\ pc = "small" /\ Receive(c) /\ Opens(ok)
        /\ disk' = IF ok THEN [disk EXCEPT ![filename] = w] ELSE disk
        /\ sendResponse(c, Ack(0, IF ok THEN 0 ELSE 1))
        /\ Return
        /\ UNCHANGED <<tcp, clients, typed, lost>>
  BY DEF SmallFileArrives
<1>1. PICK w \in Written(m.data) :
        /\ pc = "small" /\ Receive(c) /\ Opens(ok)
        /\ disk' = IF ok THEN [disk EXCEPT ![filename] = w] ELSE disk
        /\ sendResponse(c, Ack(0, IF ok THEN 0 ELSE 1))
        /\ Return
        /\ UNCHANGED <<tcp, clients, typed, lost>>
  BY <1>0
<1>2. NothingDone(c) /\ InSmall(c) /\ IInv
  BY <1>1 DEF Settled, OneClient, InStep
<1>3. /\ m \in Datagrams /\ toServer'[c] = << >>
      /\ cpc[c] \in {"smallAck", "dead"}
      /\ cpc[c] = "smallAck" => m.data = cmd[c].data
  <2>. DEFINE S == {x \in ClientDatagrams :
                      /\ cpc[c] \in {"smallAck", "dead"} /\ x.data \in Contents
                      /\ cpc[c] = "smallAck" => x.data = cmd[c].data}
  <2>1. Only(toServer[c], S)
    BY <1>2 DEF InSmall
  <2>2. m \in S /\ m \in Datagrams /\ toServer'[c] = << >>
    <3>. HIDE DEF S
    <3>. QED
      BY <1>1, <2>1, HandlerTakes
  <2>. QED
    BY <2>2
<1>4. toClient[c] = << >> /\ conn[c] = "none"
  BY <1>2, <1>3, NothingOnly DEF InSmall, NothingDone
<1>5. /\ UNCHANGED <<conn, cpc, cmd, result, before>> /\ pc' = "main"
      /\ disk \in [Names -> Contents \cup {Absent, Damaged, Partial}]
  BY <1>1, <1>2 DEF tcp, clients, Return, IInv, DiskOK, Disks
<1>6. PICK e \in Nat : e = IF ok THEN 0 ELSE 1
  OBVIOUS
<1>7. cpc[c] # "dead" => AnswerTrue(c, Ack(0, e))'
  <2>1. SUFFICES ASSUME cpc[c] = "smallAck" PROVE AnswerTrue(c, Ack(0, e))'
    BY <1>3
  <2>2. CASE ok
    <3>1. /\ cmd[c].data \in Contents /\ cmd[c].name \in Names
      BY <1>2, <2>1 DEF IInv, ClientsOK, Uploading, Alone
    <3>2. w \in {cmd[c].data, Partial} /\ filename = cmd[c].name
      BY <1>2, <1>3, <2>1, <3>1 DEF Written, Stored, InSmall, NothingDone
    <3>3. disk'[cmd[c].name] \in {cmd[c].data, Partial}
      BY <1>1, <1>5, <2>2, <3>1, <3>2
    <3>. QED
      BY <1>5, <1>6, <2>1, <2>2, <3>3, AckSays DEF AnswerTrue, UploadKept
  <2>3. CASE ~ ok
    BY <1>1, <1>2, <1>5, <1>6, <2>1, <2>3, AckSays DEF AnswerTrue, NothingDone
  <2>. QED
    BY <2>2, <2>3
<1>8. InStep(c)'
  <2>1. sendResponse(c, Ack(0, e)) /\ Ack(0, e) \in Datagrams /\ UNCHANGED cpc
    BY <1>1, <1>5, <1>6, AckType
  <2>2. cpc[c] # "connect" /\ conn'[c] = IF cpc[c] = "stream" THEN "reset" ELSE "none"
    BY <1>3, <1>4, <1>5
  <2>. QED
    BY <1>2, <1>3, <1>4, <1>5, <1>7, <2>1, <2>2, Answered
<1>9. Promises(c)'
  <2>1. \A n \in Names \ {cmd[c].name, cmd[c].new} : disk'[n] = disk[n]
    BY <1>1, <1>2, <1>5 DEF NothingDone
  <2>. QED
    BY <1>1, <1>2, <1>3, <2>1, ServerTells DEF NothingDone
<1>. QED
  BY <1>8, <1>9 DEF OneClient, Promises

\* When the content has not come the client may find two ACKs: the request for
\* the content, and the error.
LEMMA SmallFileMissingFits ==
  ASSUME NEW c, Alone(c), Settled(c), SmallFileMissing PROVE OneClient(c)'
<1>1. /\ pc = "small" /\ pc' = "main" /\ UNCHANGED toServer
      /\ sendResponse(currentClientAddr, Ack(0, 1))
      /\ UNCHANGED <<disk, conn, cpc, cmd, result, before, clients>>
  BY DEF SmallFileMissing, NothingReceived, Answer, Return, tcp, clients
<1>2. NothingDone(c) /\ InSmall(c) /\ IInv
  BY <1>1 DEF Settled, OneClient, InStep
<1>3. currentClientAddr = c /\ toClient[c] \in Seq(Datagrams)
  BY <1>2 DEF IInv, NetworkOK, Alone
<1>4. /\ cpc[c] = "dead" => toClient'[c] = toClient[c]
      /\ cpc[c] # "dead" => toClient'[c] = Append(toClient[c], Ack(0, 1))
  BY <1>1, <1>2, <1>3, AckType, AnswerSent
<1>5. IdleBut(toServer'[c], Request(c)')
  BY <1>1, <1>2, OnlyIdle DEF InSmall, Idle
<1>6. Only(toClient'[c], Answers(c)') \/ TwoAcks(c)'
  <2>. DEFINE S == {x \in Datagrams : cpc[c] \in {"send", "ready"} /\ IsAck(x, 0)}
  <2>1. Only(toClient[c], S)
    BY <1>2 DEF InSmall
  <2>2. CASE toClient[c] = << >>
    <3>1. cpc[c] # "dead" => Ack(0, 1) \in Answers(c)'
      <4>1. cpc[c] # "dead" => Small(c)'
        BY <1>1, <1>2 DEF InSmall, Small
      <4>2. cpc[c] # "dead" => AnswerTrue(c, Ack(0, 1))'
        BY <1>1, <1>2, <4>1, AckSays DEF AnswerTrue, NothingDone, InSmall
      <4>. QED
        BY <4>2, AckType DEF Answers
    <3>2. sendResponse(c, Ack(0, 1)) /\ Ack(0, 1) \in Datagrams
      BY <1>1, <1>3, AckType
    <3>. QED
      BY <1>2, <2>2, <3>1, <3>2, AnswerSent
  <2>3. CASE toClient[c] # << >>
    <3>1. Len(toClient[c]) = 1 /\ toClient[c][1] \in S
      BY <2>1, <2>3 DEF Only
    <3>2. cpc[c] \in {"send", "ready"} /\ IsAck(toClient[c][1], 0)
      BY <3>1
    <3>3. toClient'[c] = Append(toClient[c], Ack(0, 1)) /\ Ack(0, 1) \in Datagrams
      BY <1>4, <3>2, AckType
    <3>4. /\ Len(toClient'[c]) = 2 /\ toClient'[c][1] = toClient[c][1]
          /\ toClient'[c][2] = Ack(0, 1)
      BY <1>3, <3>1, <3>3, AppendedSecond
    <3>5. Small(c)' /\ cpc'[c] \in {"send", "ready"} /\ disk' = before'[c]
      BY <1>1, <1>2, <3>2 DEF InSmall, Small, NothingDone
    <3>6. IsAck(toClient'[c][1], 0) /\ IsAck(toClient'[c][2], 1)
      BY <3>2, <3>4, AckSays
    <3>. QED
      BY <3>4, <3>5, <3>6 DEF TwoAcks
  <2>. QED
    BY <2>2, <2>3
<1>7. InStep(c)'
  BY <1>1, <1>2, <1>5, <1>6 DEF InStep, InMain, InSmall, NothingDone
<1>8. Promises(c)'
  BY <1>1, ServerTells
<1>. QED
  BY <1>7, <1>8 DEF OneClient, Promises

\* The connection that is accepted is that of the client whose file is expected.
LEMMA AcceptConnectionFits ==
  ASSUME NEW c, Alone(c), Settled(c), AcceptConnection(c) PROVE OneClient(c)'
<1>1. /\ pc = "accept" /\ conn[c] \in {"open", "cut"} \cup Contents
      /\ UNCHANGED <<toServer, toClient, cpc, cmd, result, before, clients>>
  BY DEF AcceptConnection, clients
<1>2. /\ disk \in [Names -> Contents \cup {Absent, Damaged, Partial}] /\ c \in Clients
      /\ conn \in [Clients -> {"none", "open", "reset", "cut"} \cup Contents]
  BY DEF Settled, IInv, DiskOK, Disks, TransferOK, Alone
<1>3. Expected(c) /\ Streaming(c)
  BY <1>1 DEF Settled, OneClient, InStep, InAccept, Stuck, Offered, Connecting
<1>4. Small(c)' <=> Small(c)
  BY <1>1 DEF Small
<1>5. CASE /\ pc' = "recv" /\ peer' = c
           /\ disk' = [disk EXCEPT ![filename] = Damaged]
           /\ UNCHANGED <<locals, conn>>
  <2>1. Expected(c)' /\ Streaming(c)'
    BY <1>1, <1>3, <1>4, <1>5 DEF Expected, Streaming, locals
  <2>2. InStep(c)'
    BY <1>5, <2>1 DEF InStep, InRecv
  <2>3. \A n \in Names \ {cmd[c].name, cmd[c].new} : disk'[n] = disk[n]
    BY <1>2, <1>3, <1>5 DEF Expected
  <2>4. Promises(c)'
    BY <1>1, <1>3, <2>3, ServerTells DEF Expected, Streaming
  <2>. QED
    BY <2>2, <2>4 DEF OneClient, Promises
<1>6. CASE Return /\ Hangup /\ UNCHANGED <<disk, peer>>
  <2>1. pc' = "main" /\ conn'[c] = IF conn[c] = "open" THEN "reset"
                                   ELSE IF conn[c] = "reset" THEN "reset" ELSE "none"
    BY <1>2, <1>3, <1>6 DEF Return, Hangup, Streaming
  <2>2. cpc[c] # "connect" /\ conn'[c] = IF cpc[c] = "stream" THEN "reset" ELSE "none"
    <3>1. CASE cpc[c] = "largeAck"
      <4>1. cmd[c].data \in Contents
        BY <3>1 DEF Settled, IInv, ClientsOK, Uploading, Alone
      <4>. QED
        BY <1>3, <2>1, <3>1, <4>1 DEF Streaming
    <3>2. CASE cpc[c] # "largeAck"
      BY <1>3, <2>1, <3>2 DEF Streaming
    <3>. QED
      BY <3>1, <3>2
  <2>3. toServer'[c] = << >> /\ Only(toClient'[c], Answers(c)')
    BY <1>1, <1>3 DEF Expected, Streaming, Only
  <2>4. InStep(c)'
    BY <1>1, <2>1, <2>2, <2>3, BackInMain
  <2>5. Promises(c)'
    BY <1>1, <1>6, ServerTells
  <2>. QED
    BY <2>4, <2>5 DEF OneClient, Promises
<1>. QED
  BY <1>5, <1>6 DEF AcceptConnection

\* What the connection brought is stored: the file itself, unless the client was
\* killed, who then reports nothing.
LEMMA LargeFileEndsFits ==
  ASSUME NEW c, Alone(c), Settled(c), LargeFileEnds PROVE OneClient(c)'
<1>1. /\ pc = "recv" /\ conn[peer] \in {"cut"} \cup Contents
      /\ sendResponse(currentClientAddr, Ack(currentTcpPort, 0))
      /\ pc' = "main" /\ Hangup
      /\ UNCHANGED <<toServer, cpc, cmd, result, before, clients>>
  BY DEF LargeFileEnds, Return, clients
<1>0. PICK w \in Written(conn[peer]) : disk' = [disk EXCEPT ![filename] = w]
  BY DEF LargeFileEnds
<1>2. peer = c /\ Expected(c) /\ Streaming(c) /\ IInv
  BY <1>1 DEF Settled, OneClient, InStep, InRecv
<1>3. /\ disk \in [Names -> Contents \cup {Absent, Damaged, Partial}] /\ c \in Clients
      /\ conn \in [Clients -> {"none", "open", "reset", "cut"} \cup Contents]
      /\ currentClientAddr = c /\ currentTcpPort \in Nat
  BY <1>2 DEF IInv, DiskOK, Disks, TransferOK, NetworkOK, Alone
<1>4. cpc[c] \in {"largeAck", "dead"} /\ toServer'[c] = << >> /\ toClient[c] = << >>
  BY <1>1, <1>2 DEF Streaming, Expected
<1>5. conn'[c] = "none"
  <2>1. conn[c] \notin {"open", "reset"}
    BY <1>1, <1>2
  <2>. QED
    BY <1>1, <1>3, <1>4, <2>1 DEF Hangup
<1>6. PICK r \in Datagrams : r = Ack(currentTcpPort, 0)
  BY <1>3, AckType
<1>7. cpc[c] # "dead" => AnswerTrue(c, r)'
  <2>1. SUFFICES ASSUME cpc[c] = "largeAck" PROVE AnswerTrue(c, r)'
    BY <1>4
  <2>2. cmd[c].data \in Contents /\ cmd[c].name \in Names
    BY <1>2, <2>1 DEF IInv, ClientsOK, Uploading, Alone
  <2>3. w \in {cmd[c].data, Partial} /\ filename = cmd[c].name
    BY <1>2, <2>1, <2>2 DEF Written, Stored, Streaming, Expected
  <2>4. disk'[cmd[c].name] \in {cmd[c].data, Partial}
    BY <1>0, <1>1, <1>3, <2>2, <2>3
  <2>. QED
    BY <1>1, <2>1, <2>4 DEF AnswerTrue, UploadKept
<1>8. InStep(c)'
  <2>1. /\ sendResponse(c, r) /\ cpc[c] # "connect" /\ UNCHANGED cpc
        /\ conn'[c] = IF cpc[c] = "stream" THEN "reset" ELSE "none"
    BY <1>1, <1>3, <1>4, <1>5, <1>6
  <2>. QED
    BY <1>1, <1>2, <1>4, <1>7, <2>1, Answered
<1>9. Promises(c)'
  <2>1. \A n \in Names \ {cmd[c].name, cmd[c].new} : disk'[n] = disk[n]
    BY <1>0, <1>1, <1>2, <1>3 DEF Expected
  <2>. QED
    BY <1>1, <1>2, <1>4, <2>1, ServerTells DEF Expected
<1>. QED
  BY <1>8, <1>9 DEF OneClient, Promises

\* rm: the file is gone when the ACK says so.
LEMMA handleRemoveFits ==
  ASSUME NEW c, Alone(c), Settled(c), handleRemove(c), ~ misread' PROVE OneClient(c)'
<1>1. PICK m \in FirstOf(toServer[c]) :
        /\ Serve(c, m, "REMOVE")
        /\ \/ ~ isValidFilename(m.filename) /\ Answer(c, INVALID_FILENAME)
           \/ isValidFilename(m.filename) /\ Answer(c, 1)
           \/ /\ isValidFilename(m.filename) /\ disk[m.filename] # Absent
              /\ disk' = [disk EXCEPT ![m.filename] = Absent]
              /\ sendResponse(c, Ack(0, 0))
              /\ Return /\ UNCHANGED tcp
        /\ UNCHANGED <<clients, typed, lost>>
  BY DEF handleRemove
<1>2. /\ pc = "main" /\ m.filename = cmd[c].name
      /\ toServer'[c] = << >> /\ toClient[c] = << >>
      /\ result[c] = "none" /\ disk = before[c] /\ conn[c] = "none"
      /\ cpc[c] \in {"remove", "dead"}
  BY <1>1, Served
<1>3. /\ UNCHANGED <<cpc, cmd, result, before>> /\ IInv
      /\ disk \in [Names -> Contents \cup {Absent, Damaged, Partial}]
  BY <1>1 DEF clients, Settled, IInv, DiskOK, Disks
<1>4. CASE \E e \in {INVALID_FILENAME, 1} : Answer(c, e)
  <2>1. PICK e \in {INVALID_FILENAME, 1} : Answer(c, e)
    BY <1>4
  <2>2. e \in Nat /\ e # 0 /\ UNCHANGED disk
    BY <2>1 DEF INVALID_FILENAME, Answer
  <2>3. cpc[c] # "dead" => AnswerTrue(c, Ack(0, e))'
    BY <1>2, <1>3, <2>2, AckSays DEF AnswerTrue
  <2>4. InStep(c)'
    BY <1>2, <1>3, <2>1, <2>2, <2>3, AckAnswered
  <2>5. Promises(c)'
    BY <1>1, <2>2, ServerTells
  <2>. QED
    BY <2>4, <2>5 DEF OneClient, Promises
<1>5. CASE /\ isValidFilename(m.filename)
           /\ disk' = [disk EXCEPT ![m.filename] = Absent]
           /\ sendResponse(c, Ack(0, 0))
           /\ Return /\ UNCHANGED tcp
  <2>1. disk'[cmd[c].name] = Absent
    BY <1>2, <1>3, <1>5 DEF isValidFilename
  <2>2. cpc[c] # "dead" => AnswerTrue(c, Ack(0, 0))'
    BY <1>2, <1>3, <2>1, AckSays DEF AnswerTrue
  <2>3. /\ Ack(0, 0) \in Datagrams /\ UNCHANGED cpc /\ cpc[c] # "connect"
        /\ conn'[c] = IF cpc[c] = "stream" THEN "reset" ELSE "none"
        /\ pc' = "main" /\ sendResponse(c, Ack(0, 0))
    BY <1>2, <1>3, <1>5, AckType DEF tcp, Return
  <2>4. InStep(c)'
    BY <1>2, <1>3, <2>2, <2>3, Answered
  <2>5. \A n \in Names \ {cmd[c].name, cmd[c].new} : disk'[n] = disk[n]
    BY <1>2, <1>3, <1>5
  <2>6. Promises(c)'
    BY <1>1, <1>2, <2>5, ServerTells
  <2>. QED
    BY <2>4, <2>6 DEF OneClient, Promises
<1>. QED
  BY <1>1, <1>4, <1>5

\* mv: the client is asked for the new name of the file it named.
LEMMA handleRenameFits ==
  ASSUME NEW c, Alone(c), Settled(c), handleRename(c), ~ misread' PROVE OneClient(c)'
<1>1. PICK m \in FirstOf(toServer[c]) :
        /\ Serve(c, m, "RENAME")
        /\ \/ ~ isValidFilename(m.filename) /\ Answer(c, INVALID_FILENAME)
           \/ isValidFilename(m.filename) /\ disk[m.filename] = Absent /\ Answer(c, 1)
           \/ /\ isValidFilename(m.filename) /\ disk[m.filename] # Absent
              /\ pc' = "newName" /\ filename' = m.filename
              /\ filesize' = 0 /\ newFilename' = Absent
              /\ sendResponse(c, CmdMsg("READY_FOR_NEW_NAME", Absent, 0, 0))
              /\ UNCHANGED <<disk, tcp>>
        /\ UNCHANGED <<clients, typed, lost>>
  BY DEF handleRename
<1>2. /\ pc = "main" /\ m.filename = cmd[c].name
      /\ toServer'[c] = << >> /\ toClient[c] = << >>
      /\ result[c] = "none" /\ disk = before[c] /\ conn[c] = "none"
      /\ cpc[c] \in {"rename", "dead"}
  BY <1>1, Served
<1>3. UNCHANGED <<disk, cpc, cmd, result, before>> /\ IInv
  BY <1>1 DEF clients, Settled, Answer
<1>4. Promises(c)'
  BY <1>1, <1>3, ServerTells
<1>5. CASE \E e \in {INVALID_FILENAME, 1} : Answer(c, e)
  <2>1. PICK e \in {INVALID_FILENAME, 1} : Answer(c, e)
    BY <1>5
  <2>2. e \in Nat /\ e # 0
    BY <2>1 DEF INVALID_FILENAME
  <2>3. cpc[c] # "dead" => AnswerTrue(c, Ack(0, e))'
    BY <1>2, <1>3, <2>2, AckSays DEF AnswerTrue
  <2>4. InStep(c)'
    BY <1>2, <1>3, <2>1, <2>2, <2>3, AckAnswered
  <2>. QED
    BY <1>4, <2>4 DEF OneClient, Promises
<1>6. CASE /\ pc' = "newName" /\ filename' = m.filename
           /\ sendResponse(c, CmdMsg("READY_FOR_NEW_NAME", Absent, 0, 0))
           /\ UNCHANGED <<disk, tcp>>
  <2>. DEFINE r == CmdMsg("READY_FOR_NEW_NAME", Absent, 0, 0)
              S == {x \in Datagrams : cpc'[c] = "rename" /\ x.cmd # "ACK"}
  <2>1. r \in Datagrams
    BY CmdMsgType DEF Commands, Codes
  <2>2. cpc[c] # "dead" => r \in S
    BY <1>2, <1>3, <2>1 DEF CmdMsg, Message
  <2>3. Only(toClient'[c], S)
    <3>1. sendResponse(c, r)
      BY <1>6
    <3>. HIDE DEF r, S
    <3>. QED
      BY <1>2, <1>3, <2>1, <2>2, <3>1, AnswerSent
  <2>4. NothingDone(c)' /\ InNewName(c)'
    BY <1>2, <1>3, <1>6, <2>3 DEF NothingDone, InNewName, Only, tcp
  <2>. QED
    BY <1>4, <1>6, <2>4 DEF InStep, OneClient, Promises
<1>. QED
  BY <1>1, <1>5, <1>6

\* rename(2) with the client's names, on a directory d in which at most the
\* target is deleted.
LEMMA RenameFits ==
  ASSUME NEW c, Alone(c), Settled(c), NEW d, NEW n \in Names,
         Rename(c, d, filename, n), n = cmd[c].new, filename = cmd[c].name,
         d \in {disk, [disk EXCEPT ![n] = Absent]},
         pc' = "main", UNCHANGED <<tcp, clients>>, toServer'[c] = << >>,
         toClient[c] = << >>, result[c] = "none", disk = before[c], conn[c] = "none",
         filename \in Names,
         \/ cpc[c] \in {"renameAck", "dead"}
         \/ cpc[c] = "newNameAck" /\ d = disk
  PROVE  OneClient(c)'
<1>1. /\ UNCHANGED <<conn, cpc, cmd, result, before>> /\ IInv
      /\ disk \in [Names -> Contents \cup {Absent, Damaged, Partial}]
  BY DEF tcp, clients, Settled, IInv, DiskOK, Disks
<1>2. Ack(0, 0) \in Datagrams /\ Ack(0, 1) \in Datagrams
  BY AckType
<1>. DEFINE old == cmd[c].name
            new == cmd[c].new
<1>3. old \in Names /\ new \in Names /\ filename = old /\ n = new
  OBVIOUS
<1>4. /\ d \in [Names -> Contents \cup {Absent, Damaged, Partial}]
      /\ d \in {disk, [disk EXCEPT ![new] = Absent]}
  BY <1>1
<1>5. \A k \in Names \ {old, new} : disk'[k] = disk[k]
  BY <1>1, <1>3, <1>4 DEF Rename, Move
<1>6. Promises(c)'
  BY <1>5, ServerTells
<1>7. CASE /\ d[old] # Absent /\ sendResponse(c, Ack(0, 0))
           /\ disk' = IF old = new THEN d ELSE Move(d, old, new)
  <2>1. d[old] = before[c][old]
    BY <1>1, <1>3, <1>4, <1>7
  <2>2. disk'[new] = before[c][old] /\ (new # old => disk'[old] = Absent)
    BY <1>3, <1>4, <1>7, <2>1 DEF Move
  <2>3. Renamed(c)'
    BY <1>1, <2>2 DEF Renamed
  <2>4. cpc[c] # "dead" => AnswerTrue(c, Ack(0, 0))'
    BY <1>1, <2>3, AckSays DEF AnswerTrue
  <2>5. InStep(c)'
    BY <1>1, <1>2, <1>7, <2>4, Answered
  <2>. QED
    BY <1>6, <2>5 DEF OneClient, Promises
<1>8. CASE disk' = d /\ sendResponse(c, Ack(0, 1))
  <2>1. cpc[c] # "dead" => AnswerTrue(c, Ack(0, 1))'
    BY <1>1, <1>8, AckSays DEF AnswerTrue
  <2>2. InStep(c)'
    BY <1>1, <1>2, <1>8, <2>1, Answered
  <2>. QED
    BY <1>6, <2>2 DEF OneClient, Promises
<1>. QED
  BY <1>3, <1>7, <1>8 DEF Rename

\* The new name that arrives is the client's.
LEMMA NewNameArrivesFits ==
  ASSUME NEW c, Alone(c), Settled(c), NewNameArrives(c) PROVE OneClient(c)'
<1>1. PICK m \in FirstOf(toServer[c]) :
        /\ pc = "newName" /\ Receive(c) /\ Read(m)
        /\ \/ ~ isValidFilename(NameIn(m)) /\ Answer(c, INVALID_FILENAME)
           \/ /\ isValidFilename(NameIn(m)) /\ disk[NameIn(m)] # Absent
              /\ pc' = "renameConfirm" /\ newFilename' = NameIn(m)
              /\ sendResponse(c, CmdMsg("FILE_EXISTS", Absent, 0, 0))
              /\ UNCHANGED <<filename, filesize, disk, tcp>>
           \/ /\ isValidFilename(NameIn(m)) /\ disk[NameIn(m)] = Absent
              /\ Rename(c, disk, filename, NameIn(m))
              /\ Return /\ UNCHANGED tcp
        /\ UNCHANGED <<clients, typed, lost>>
  BY DEF NewNameArrives
<1>2. NothingDone(c) /\ InNewName(c) /\ IInv /\ filename \in Names
  BY <1>1 DEF Settled, OneClient, InStep, IInv, HandlerOK
<1>3. /\ NameIn(m) = cmd[c].new /\ toServer'[c] = << >>
      /\ cpc[c] \in {"newNameAck", "dead"}
  <2>. DEFINE S == {x \in ClientDatagrams :
                      /\ cpc[c] \in {"newNameAck", "dead"} /\ x.cmd = "DATA"
                      /\ x.data = cmd[c].new}
  <2>1. Only(toServer[c], S)
    BY <1>2 DEF InNewName
  <2>2. m \in S /\ toServer'[c] = << >>
    <3>. HIDE DEF S
    <3>. QED
      BY <1>1, <2>1, HandlerTakes
  <2>3. cmd[c].new \notin Contents
    BY <1>2 DEF IInv, ClientsOK, Alone
  <2>. QED
    BY <2>2, <2>3 DEF NameIn
<1>4. /\ toClient[c] = << >> /\ conn[c] = "none" /\ result[c] = "none"
      /\ disk = before[c] /\ filename = cmd[c].name
  BY <1>2, <1>3, NothingOnly DEF InNewName, NothingDone
<1>5. UNCHANGED <<cpc, cmd, result, before>>
  BY <1>1 DEF clients
<1>6. CASE Answer(c, INVALID_FILENAME)
  <2>1. UNCHANGED disk /\ INVALID_FILENAME \in Nat /\ INVALID_FILENAME # 0
    BY <1>6 DEF Answer, INVALID_FILENAME
  <2>2. cpc[c] # "dead" => AnswerTrue(c, Ack(0, INVALID_FILENAME))'
    BY <1>3, <1>4, <1>5, <2>1, AckSays DEF AnswerTrue
  <2>3. InStep(c)'
    BY <1>2, <1>3, <1>4, <1>5, <1>6, <2>1, <2>2, AckAnswered
  <2>4. Promises(c)'
    BY <1>1, <2>1, ServerTells
  <2>. QED
    BY <2>3, <2>4 DEF OneClient, Promises
<1>7. CASE /\ pc' = "renameConfirm" /\ newFilename' = NameIn(m)
           /\ sendResponse(c, CmdMsg("FILE_EXISTS", Absent, 0, 0))
           /\ UNCHANGED <<filename, filesize, disk, tcp>>
  <2>. DEFINE r == CmdMsg("FILE_EXISTS", Absent, 0, 0)
              S == {x \in Datagrams : cpc'[c] = "newNameAck" /\ x.cmd = "FILE_EXISTS"}
  <2>1. r \in Datagrams
    BY CmdMsgType DEF Commands, Codes
  <2>2. cpc[c] # "dead" => r \in S
    BY <1>3, <1>5, <2>1 DEF CmdMsg, Message
  <2>3. Only(toClient'[c], S)
    <3>1. sendResponse(c, r)
      BY <1>7
    <3>. HIDE DEF r, S
    <3>. QED
      BY <1>2, <1>4, <2>1, <2>2, <3>1, AnswerSent
  <2>4. NothingDone(c)' /\ InRenameConfirm(c)'
    BY <1>3, <1>4, <1>5, <1>7, <2>3 DEF NothingDone, InRenameConfirm, Only, tcp
  <2>5. Promises(c)'
    BY <1>1, <1>7, ServerTells
  <2>. QED
    BY <1>7, <2>4, <2>5 DEF InStep, OneClient, Promises
<1>8. CASE /\ isValidFilename(NameIn(m)) /\ Rename(c, disk, filename, NameIn(m))
           /\ Return /\ UNCHANGED tcp
  <2>1. PICK n \in Names : n = NameIn(m)
    BY <1>8 DEF isValidFilename
  <2>2. Rename(c, disk, filename, n) /\ pc' = "main" /\ UNCHANGED <<tcp, clients>>
    BY <1>1, <1>8, <2>1 DEF Return
  <2>. QED
    BY <1>2, <1>3, <1>4, <2>1, <2>2, RenameFits
<1>. QED
  BY <1>1, <1>6, <1>7, <1>8

\* The target is deleted for the client that confirmed it, or not at all.
LEMMA RenameAnsweredFits ==
  ASSUME NEW c, Alone(c), Settled(c), RenameAnswered(c) PROVE OneClient(c)'
<1>1. PICK m \in FirstOf(toServer[c]) :
        /\ pc = "renameConfirm" /\ Receive(c)
        /\ \/ ~ Confirmed(m) /\ Answer(c, 2)
           \/ /\ Confirmed(m)
              /\ \E d \in {disk, [disk EXCEPT ![newFilename] = Absent]} :
                   Rename(c, d, filename, newFilename)
              /\ Return /\ UNCHANGED tcp
        /\ UNCHANGED <<clients, typed, lost>>
  BY DEF RenameAnswered
<1>2. /\ NothingDone(c) /\ InRenameConfirm(c) /\ IInv
      /\ filename \in Names /\ newFilename \in Names
  BY <1>1 DEF Settled, OneClient, InStep, IInv, HandlerOK
<1>3. toServer'[c] = << >> /\ cpc[c] \in {"renameAck", "dead"}
  <2>. DEFINE S == {x \in ClientDatagrams :
                      /\ cpc[c] \in {"renameAck", "dead"} /\ x.cmd = "OVERWRITE"
                      /\ x.data \notin Contents}
  <2>1. Only(toServer[c], S)
    BY <1>2 DEF InRenameConfirm
  <2>2. m \in S /\ toServer'[c] = << >>
    <3>. HIDE DEF S
    <3>. QED
      BY <1>1, <2>1, HandlerTakes
  <2>. QED
    BY <2>2
<1>4. /\ toClient[c] = << >> /\ conn[c] = "none" /\ result[c] = "none"
      /\ disk = before[c] /\ filename = cmd[c].name /\ newFilename = cmd[c].new
  BY <1>2, <1>3, NothingOnly DEF InRenameConfirm, NothingDone
<1>5. UNCHANGED <<cpc, cmd, result, before>>
  BY <1>1 DEF clients
<1>6. CASE Answer(c, 2)
  <2>1. UNCHANGED disk
    BY <1>6 DEF Answer
  <2>2. cpc[c] # "dead" => AnswerTrue(c, Ack(0, 2))'
    BY <1>3, <1>4, <1>5, <2>1, AckSays DEF AnswerTrue
  <2>3. InStep(c)'
    BY <1>2, <1>3, <1>4, <1>5, <1>6, <2>2, AckAnswered
  <2>4. Promises(c)'
    BY <1>1, <2>1, ServerTells
  <2>. QED
    BY <2>3, <2>4 DEF OneClient, Promises
<1>7. CASE /\ \E d \in {disk, [disk EXCEPT ![newFilename] = Absent]} :
                Rename(c, d, filename, newFilename)
           /\ Return /\ UNCHANGED tcp
  <2>1. PICK n \in Names : n = newFilename
    BY <1>2
  <2>2. PICK d \in {disk, [disk EXCEPT ![n] = Absent]} : Rename(c, d, filename, n)
    BY <1>7, <2>1
  <2>3. pc' = "main" /\ UNCHANGED <<tcp, clients>>
    BY <1>1, <1>7 DEF Return
  <2>. QED
    BY <1>2, <1>3, <1>4, <2>1, <2>2, <2>3, RenameFits
<1>. QED
  BY <1>1, <1>6, <1>7

\* A shutdown is the last command of its client.
LEMMA handleShutdownFits ==
  ASSUME NEW c, Alone(c), Settled(c), handleShutdown(c), ~ misread' PROVE OneClient(c)'
<1>1. PICK m \in FirstOf(toServer[c]) :
        /\ pc = "main" /\ m.cmd = "SHUTDOWN" /\ Read(m) /\ pc' = "down"
        /\ toServer' = [k \in Clients |-> << >>]
        /\ UNCHANGED <<locals, tcp, disk, clients, typed, lost>>
  BY DEF handleShutdown
<1>2. m \in Request(c)
  BY <1>1, MainTakes DEF Idle, Read
<1>3. /\ cpc[c] \in {"prompt", "dead"} /\ result[c] = "shutdown"
  BY <1>1, <1>2 DEF Request, Starting
<1>4. conn[c] = "none"
  BY <1>1, <1>3 DEF Settled, OneClient, InStep, InMain
<1>5. InDown(c)'
  BY <1>1, <1>3, <1>4 DEF InDown, Alone, tcp, clients
<1>6. Promises(c)'
  BY <1>1, ServerTells
<1>. QED
  BY <1>1, <1>5, <1>6 DEF InStep, OneClient, Promises

\* What the main loop drops was left by a handler that had given up.
LEMMA IgnoreFits ==
  ASSUME NEW c, Alone(c), Settled(c), Ignore(c) PROVE OneClient(c)'
<1>1. PICK m \in FirstOf(toServer[c]) :
        /\ pc = "main" /\ Receive(c)
        /\ m.cmd \notin {"LS", "SEND", "REMOVE", "RENAME", "SHUTDOWN"}
        /\ UNCHANGED <<pc, locals, tcp, disk, toClient, clients, typed, lost>>
  BY DEF Ignore
<1>2. toServer'[c] = Tail(toServer[c]) /\ IdleBut(Tail(toServer[c]), Request(c))
  BY <1>1, ServerTakes, MainTakes DEF Settled
<1>3. UNCHANGED <<pc, conn, disk, toClient, cpc, cmd, result, before>> /\ InMain(c)
  BY <1>1 DEF tcp, clients, Settled, OneClient, InStep
<1>4. \A x : (x \in Request(c) => x \in Request(c)') /\ (x \in Answers(c) => x \in Answers(c)')
  BY <1>3 DEF Request, Starting, Answers, AnswerTrue, UploadKept, Small, Renamed, Files
<1>5. TwoAcks(c) => TwoAcks(c)'
  BY <1>3 DEF TwoAcks, Small
<1>6. IdleBut(toServer'[c], Request(c)')
  BY <1>2, <1>4, IdleMore
<1>7. Only(toClient'[c], Answers(c)') \/ TwoAcks(c)'
  BY <1>3, <1>4, <1>5, OnlyMore DEF InMain
<1>8. InStep(c)'
  BY <1>1, <1>3, <1>6, <1>7 DEF InStep, InMain
<1>9. Promises(c)'
  BY <1>1, ServerTells
<1>. QED
  BY <1>8, <1>9 DEF OneClient, Promises

-----------------------------------------------------------------------------
(* The client's steps.                                                     *)

\* What the client comes to report has to be true; while it reports nothing
\* there is nothing to show.
LEMMA ClientTells ==
  ASSUME NEW c, Alone(c), Settled(c), UNCHANGED <<disk, before>>,
         cmd'[c].name = cmd[c].name, cmd'[c].new = cmd[c].new,
         result'[c] = "completed" => disk[cmd[c].name] \in {cmd'[c].data, Partial},
         result'[c] = "removed" => disk[cmd[c].name] = Absent,
         result'[c] = "renamed" => Renamed(c),
         result'[c] = "listed" => cmd'[c].data = Files,
         \/ result'[c] \in {"cancelled", "notFound"}
         \/ result'[c] = "failed" /\ Small(c)'
         => disk = before[c]
  PROVE  ReportTrue(c)' /\ RefusalKept(c)' /\ OthersKept(c)'
<1>1. Clients = {c} /\ OthersKept(c) /\ Files' = Files
  BY DEF Alone, Settled, OneClient, Files
<1>2. ReportTrue(c)'
  BY <1>1 DEF ReportTrue, Renamed
<1>3. RefusalKept(c)'
  BY <1>1 DEF RefusalKept, Refused
<1>4. OthersKept(c)'
  BY <1>1 DEF OthersKept
<1>. QED
  BY <1>2, <1>3, <1>4

\* A step after which the client still stands by its last report.
LEMMA ClientStands ==
  ASSUME NEW c, Alone(c), Settled(c), UNCHANGED <<disk, before, cmd, result>>
  PROVE  ReportTrue(c)' /\ RefusalKept(c)' /\ OthersKept(c)'
<1>1. /\ ReportTrue(c) /\ RefusalKept(c) /\ OthersKept(c)
      /\ Clients = {c} /\ Files' = Files /\ (Small(c)' <=> Small(c))
  BY DEF Settled, OneClient, Alone, Files, Small
<1>2. ReportTrue(c)'
  BY <1>1 DEF ReportTrue
<1>3. RefusalKept(c)'
  BY <1>1 DEF RefusalKept, Refused
<1>4. OthersKept(c)'
  BY <1>1 DEF OthersKept
<1>. QED
  BY <1>2, <1>3, <1>4

\* Where the client goes, and what it reports.
LEMMA ClientGoes ==
  ASSUME NEW c, Alone(c), IInv
  PROVE  /\ \A where : Goto(c, where) => cpc'[c] = where
         /\ \A o : Report(c, o) => cpc'[c] = "prompt" /\ result'[c] = o
<1>1. /\ c \in Clients
      /\ cpc \in [Clients -> ClientPlaces] /\ result \in [Clients -> Outcomes]
  BY DEF Alone, IInv, ClientsOK
<1>. QED
  BY <1>1 DEF Goto, Report

\* While the main loop's answer is under way nothing for it to serve is: the
\* answer is the client's, or there are two ACKs for a content that came late.
LEMMA MainAnswers ==
  ASSUME NEW c, Alone(c), Settled(c), pc = "main", toClient[c] # << >>
  PROVE  /\ InMain(c) /\ IdleBut(toServer[c], {})
         /\ \/ toClient[c][1] \in Answers(c) /\ Tail(toClient[c]) = << >>
            \/ TwoAcks(c)
<1>1. InMain(c) /\ toClient[c] \in Seq(Datagrams)
  BY DEF Settled, OneClient, InStep, IInv, NetworkOK, Alone
<1>2. IdleBut(toServer[c], {})
  BY <1>1, IdleMore DEF InMain, Request
<1>3. Only(toClient[c], Answers(c)) \/ TwoAcks(c)
  BY <1>1 DEF InMain
<1>. QED
  BY <1>1, <1>2, <1>3, TakenOnly

\* The answers that can be under way while a handler is not done.
LEMMA HandlerAnswers ==
  ASSUME NEW c, Alone(c), Settled(c), pc \notin {"main", "down"}, toClient[c] # << >>
  PROVE  /\ Tail(toClient[c]) = << >>
         /\ \/ pc = "confirm" /\ cpc[c] = "send" /\ toClient[c][1].cmd = "FILE_EXISTS"
            \/ /\ pc = "small" /\ cpc[c] \in {"send", "ready"}
               /\ IsAck(toClient[c][1], 0)
            \/ pc = "newName" /\ cpc[c] = "rename" /\ toClient[c][1].cmd # "ACK"
            \/ /\ pc = "renameConfirm" /\ cpc[c] = "newNameAck"
               /\ toClient[c][1].cmd = "FILE_EXISTS"
            \/ pc = "accept" /\ Expected(c) /\ Offered(c)
<1>1. InStep(c) /\ toClient[c] \in Seq(Datagrams) /\ pc \in ServerPlaces
  BY DEF Settled, OneClient, IInv, NetworkOK, HandlerOK, Alone
<1>2. CASE pc = "confirm"
  <2>. DEFINE S == {m \in Datagrams : cpc[c] = "send" /\ m.cmd = "FILE_EXISTS"}
  <2>1. Only(toClient[c], S)
    BY <1>1, <1>2 DEF InStep, InConfirm
  <2>2. toClient[c][1] \in S /\ Tail(toClient[c]) = << >>
    BY <1>1, <2>1, TakenOnly
  <2>. QED
    BY <1>2, <2>2
<1>3. CASE pc = "small"
  <2>. DEFINE S == {m \in Datagrams : cpc[c] \in {"send", "ready"} /\ IsAck(m, 0)}
  <2>1. Only(toClient[c], S)
    BY <1>1, <1>3 DEF InStep, InSmall
  <2>2. toClient[c][1] \in S /\ Tail(toClient[c]) = << >>
    BY <1>1, <2>1, TakenOnly
  <2>. QED
    BY <1>3, <2>2
<1>4. CASE pc = "newName"
  <2>. DEFINE S == {m \in Datagrams : cpc[c] = "rename" /\ m.cmd # "ACK"}
  <2>1. Only(toClient[c], S)
    BY <1>1, <1>4 DEF InStep, InNewName
  <2>2. toClient[c][1] \in S /\ Tail(toClient[c]) = << >>
    BY <1>1, <2>1, TakenOnly
  <2>. QED
    BY <1>4, <2>2
<1>5. CASE pc = "renameConfirm"
  <2>. DEFINE S == {m \in Datagrams : cpc[c] = "newNameAck" /\ m.cmd = "FILE_EXISTS"}
  <2>1. Only(toClient[c], S)
    BY <1>1, <1>5 DEF InStep, InRenameConfirm
  <2>2. toClient[c][1] \in S /\ Tail(toClient[c]) = << >>
    BY <1>1, <2>1, TakenOnly
  <2>. QED
    BY <1>5, <2>2
<1>6. CASE pc = "accept"
  <2>1. Expected(c) /\ Offered(c)
    BY <1>1, <1>6 DEF InStep, InAccept, Stuck, Connecting, Streaming
  <2>2. Only(toClient[c], Datagrams)
    BY <1>1, <2>1, Taken DEF Offered, Only
  <2>. QED
    BY <1>1, <1>6, <2>1, <2>2, TakenOnly
<1>7. CASE pc = "recv"
  BY <1>1, <1>7 DEF InStep, InRecv, Streaming
<1>. QED
  BY <1>1, <1>2, <1>3, <1>4, <1>5, <1>6, <1>7 DEF ServerPlaces

\* The answer that ends a command comes when the server is back in its main loop.
LEMMA LastAnswer ==
  ASSUME NEW c, Alone(c), Settled(c),
         NEW where \in {"ls", "declined", "smallAck", "largeAck", "remove", "renameAck"},
         ClientReceives(c, where), NEW m \in FirstOf(toClient[c])
  PROVE  /\ pc = "main" /\ InMain(c) /\ m \in Datagrams /\ AnswerTrue(c, m)
         /\ cpc[c] = where /\ toClient'[c] = << >> /\ IdleBut(toServer[c], {})
         /\ conn[c] = "none" /\ UNCHANGED <<pc, disk, conn, before>>
<1>1. /\ toClient[c] # << >> /\ m = toClient[c][1] /\ m \in Datagrams
      /\ toClient'[c] = Tail(toClient[c]) /\ cpc[c] = where
      /\ UNCHANGED <<pc, disk, conn, before>>
  BY ClientTakes DEF Settled, server
<1>2. pc = "main"
  <2>1. pc # "down"
    BY <1>1 DEF Settled, OneClient, InStep, InDown
  <2>. QED
    BY <1>1, <2>1, HandlerAnswers DEF Offered
<1>3. /\ InMain(c) /\ IdleBut(toServer[c], {})
      /\ toClient[c][1] \in Answers(c) /\ Tail(toClient[c]) = << >>
  BY <1>1, <1>2, MainAnswers DEF TwoAcks
<1>. QED
  BY <1>1, <1>2, <1>3 DEF Answers, InMain

\* The client is back at its prompt, and so is the server.
LEMMA Prompted ==
  ASSUME NEW c, Alone(c), Settled(c), pc = "main", IdleBut(toServer[c], {}),
         toClient'[c] = << >>, conn'[c] = "none", cpc'[c] = "prompt",
         UNCHANGED <<pc, toServer>>
  PROVE  InStep(c)' /\ ClientKnows(c)'
<1>1. IdleBut(toServer'[c], Request(c)')
  BY IdleMore
<1>2. Only(toClient'[c], Answers(c)')
  BY DEF Only
<1>3. ClientKnows(c)'
  BY DEF ClientKnows
<1>. QED
  BY <1>1, <1>2, <1>3 DEF InStep, InMain

\* The list is reported as it came; the directory has not changed since.
LEMMA LsAnsweredFits ==
  ASSUME NEW c, Alone(c), Settled(c), LsAnswered(c) PROVE OneClient(c)'
<1>1. PICK m \in FirstOf(toClient[c]) :
        /\ ClientReceives(c, "ls") /\ cmd' = [cmd EXCEPT ![c].data = m.data]
        /\ Report(c, "listed") /\ UNCHANGED toServer
  BY DEF LsAnswered
<1>2. /\ pc = "main" /\ AnswerTrue(c, m) /\ cpc[c] = "ls"
      /\ toClient'[c] = << >> /\ IdleBut(toServer[c], {})
      /\ conn[c] = "none" /\ UNCHANGED <<pc, disk, conn, before>>
  BY <1>1, LastAnswer
<1>3. cpc'[c] = "prompt" /\ result'[c] = "listed"
  BY <1>1, ClientGoes DEF Settled
<1>4. cmd'[c].name = cmd[c].name /\ cmd'[c].new = cmd[c].new /\ cmd'[c].data = m.data
  <2>1. /\ c \in Clients
        /\ cmd \in [Clients -> [op : Commands \cup {"NONE"}, name : Names \cup {Absent},
                                new : Names \cup {Absent}, data : Datum, port : Nat]]
    BY DEF Settled, IInv, ClientsOK, Alone
  <2>. QED
    BY <1>1, <2>1
<1>5. m.data = Files
  BY <1>2 DEF AnswerTrue
<1>6. ReportTrue(c)' /\ RefusalKept(c)' /\ OthersKept(c)'
  BY <1>2, <1>3, <1>4, <1>5, ClientTells
<1>7. InStep(c)' /\ ClientKnows(c)'
  BY <1>1, <1>2, <1>3, Prompted
<1>. QED
  BY <1>6, <1>7 DEF OneClient

\* The other answers that end a command.
LEMMA LastAnswerFits ==
  ASSUME NEW c, Alone(c), Settled(c),
         NEW where \in {"declined", "smallAck", "largeAck", "remove", "renameAck"},
         ClientReceives(c, where), NEW m \in FirstOf(toClient[c]), NEW o, Report(c, o),
         UNCHANGED <<toServer, cmd>>, o # "listed",
         o = "completed" => where \in {"smallAck", "largeAck"} /\ IsAck(m, 0),
         o = "removed" => where = "remove" /\ IsAck(m, 0),
         o = "renamed" => where = "renameAck" /\ IsAck(m, 0),
         o = "notFound" => where = "remove" /\ IsAck(m, 1),
         o = "failed" => where \in {"smallAck", "largeAck"} /\ ~ IsAck(m, 0),
         o = "cancelled" => where = "declined" \/ (where = "renameAck" /\ m.error = 2)
  PROVE  OneClient(c)'
<1>1. /\ pc = "main" /\ AnswerTrue(c, m) /\ cpc[c] = where
      /\ toClient'[c] = << >> /\ IdleBut(toServer[c], {})
      /\ conn[c] = "none" /\ UNCHANGED <<pc, disk, conn, before>>
  BY LastAnswer
<1>2. cpc'[c] = "prompt" /\ result'[c] = o
  BY ClientGoes DEF Settled
<1>3. ClientKnows(c) /\ (Small(c)' <=> Small(c))
  BY DEF Settled, OneClient, Small
<1>4. o = "completed" => disk[cmd[c].name] \in {cmd[c].data, Partial}
  BY <1>1 DEF AnswerTrue, UploadKept
<1>5. o = "removed" => disk[cmd[c].name] = Absent
  BY <1>1 DEF AnswerTrue
<1>6. o = "renamed" => Renamed(c)
  BY <1>1 DEF AnswerTrue
<1>7. o \in {"cancelled", "notFound"} \/ (o = "failed" /\ Small(c)) => disk = before[c]
  <2>1. CASE o = "cancelled"
    BY <1>1, <1>3, <2>1 DEF AnswerTrue, ClientKnows
  <2>2. CASE o = "notFound"
    BY <1>1, <2>2 DEF AnswerTrue, IsAck
  <2>3. CASE o = "failed" /\ Small(c)
    BY <1>1, <1>3, <2>3 DEF AnswerTrue, ClientKnows
  <2>. QED
    BY <2>1, <2>2, <2>3
<1>8. ReportTrue(c)' /\ RefusalKept(c)' /\ OthersKept(c)'
  BY <1>1, <1>2, <1>3, <1>4, <1>5, <1>6, <1>7, ClientTells
<1>9. InStep(c)' /\ ClientKnows(c)'
  BY <1>1, <1>2, Prompted
<1>. QED
  BY <1>8, <1>9 DEF OneClient

\* A declined overwrite, the last ACK of an upload, the answer to rm, and the
\* answer to a confirmed rename are such answers.
LEMMA LastAnswersFit ==
  ASSUME NEW c, Alone(c), Settled(c),
         \/ DeclineAnswered(c) \/ TransferAnswered(c)
         \/ RemoveAnswered(c) \/ RenameOverwriteAnswered(c)
  PROVE  OneClient(c)'
<1>1. CASE DeclineAnswered(c)
  <2>1. PICK m \in FirstOf(toClient[c]) :
          ClientReceives(c, "declined") /\ Report(c, "cancelled") /\ UNCHANGED <<toServer, cmd>>
    BY <1>1 DEF DeclineAnswered
  <2>. QED
    BY <2>1, LastAnswerFits
<1>2. CASE TransferAnswered(c)
  <2>1. PICK m \in FirstOf(toClient[c]), where \in {"smallAck", "largeAck"} :
          /\ ClientReceives(c, where)
          /\ Report(c, IF IsAck(m, 0) THEN "completed" ELSE "failed")
          /\ UNCHANGED <<toServer, cmd>>
    BY <1>2 DEF TransferAnswered
  <2>2. PICK o : o = IF IsAck(m, 0) THEN "completed" ELSE "failed"
    OBVIOUS
  <2>3. Report(c, o)
    BY <2>1, <2>2
  <2>. QED
    BY <2>1, <2>2, <2>3, LastAnswerFits
<1>3. CASE RemoveAnswered(c)
  <2>1. PICK m \in FirstOf(toClient[c]) :
          /\ ClientReceives(c, "remove")
          /\ Report(c, IF IsAck(m, 0) THEN "removed"
                       ELSE IF IsAck(m, 1) THEN "notFound" ELSE "error")
          /\ UNCHANGED <<toServer, cmd>>
    BY <1>3 DEF RemoveAnswered
  <2>2. PICK o : o = IF IsAck(m, 0) THEN "removed"
                     ELSE IF IsAck(m, 1) THEN "notFound" ELSE "error"
    OBVIOUS
  <2>3. Report(c, o)
    BY <2>1, <2>2
  <2>. QED
    BY <2>1, <2>2, <2>3, LastAnswerFits
<1>4. CASE RenameOverwriteAnswered(c)
  <2>1. PICK m \in FirstOf(toClient[c]) :
          /\ ClientReceives(c, "renameAck")
          /\ Report(c, IF m.error = 2 THEN "cancelled"
                       ELSE IF IsAck(m, 0) THEN "renamed" ELSE "error")
          /\ UNCHANGED <<toServer, cmd>>
    BY <1>4 DEF RenameOverwriteAnswered
  <2>2. PICK o : o = IF m.error = 2 THEN "cancelled"
                     ELSE IF IsAck(m, 0) THEN "renamed" ELSE "error"
    OBVIOUS
  <2>3. Report(c, o)
    BY <2>1, <2>2
  <2>. QED
    BY <2>1, <2>2, <2>3, LastAnswerFits
<1>. QED
  BY <1>1, <1>2, <1>3, <1>4

\* A client at its prompt has no answer coming, and nothing of use to the server
\* is under way.
LEMMA AtPrompt ==
  ASSUME NEW c, Alone(c), Settled(c), cpc[c] = "prompt", result[c] # "shutdown"
  PROVE  /\ toClient[c] = << >> /\ conn[c] = "none"
         /\ \/ pc = "main" /\ IdleBut(toServer[c], {})
            \/ pc = "accept" /\ Stuck(c)
<1>1. InStep(c) /\ pc \in ServerPlaces
  BY DEF Settled, OneClient, IInv, HandlerOK
<1>2. CASE pc = "main"
  <2>1. InMain(c) /\ \A m : m \notin Request(c)
    BY <1>1, <1>2 DEF InStep, Request, Starting
  <2>2. IdleBut(toServer[c], {})
    BY <2>1, IdleMore DEF InMain
  <2>3. toClient[c] = << >>
    <3>1. \A m : m \notin Answers(c)
      BY DEF Answers, AnswerTrue
    <3>. QED
      BY <1>2, <3>1, MainAnswers DEF TwoAcks
  <2>. QED
    BY <1>2, <2>1, <2>2, <2>3 DEF InMain
<1>3. CASE pc = "accept"
  BY <1>1, <1>3 DEF InStep, InAccept, Stuck, Offered, Connecting, Streaming
<1>4. pc \in {"main", "accept"}
  BY <1>1 DEF ServerPlaces, InStep, InConfirm, InSmall, InNewName, InRenameConfirm,
              InRecv, Streaming, InDown
<1>. QED
  BY <1>2, <1>3, <1>4 DEF Stuck

\* A command that is typed is behind what the main loop drops, or waits for a
\* server that is stuck.
LEMMA IssueFits ==
  ASSUME NEW c, Alone(c), Settled(c), NEW operation, NEW m \in ClientDatagrams,
         NEW where \in FirstAnswer \cup {"prompt"}, Issue(c, operation, m, where),
         result'[c] = IF where = "prompt" THEN "shutdown" ELSE "none",
         m.filename = operation.name,
         \/ where = "prompt" /\ m.cmd = "SHUTDOWN"
         \/ where = "ls" /\ m.cmd = "LS"
         \/ where = "send" /\ m.cmd = "SEND" /\ m.size = SizeOf[operation.data]
         \/ where = "remove" /\ m.cmd = "REMOVE"
         \/ where = "rename" /\ m.cmd = "RENAME"
  PROVE  OneClient(c)'
<1>1. /\ cpc[c] = "prompt" /\ result[c] # "shutdown"
      /\ cmd' = [cmd EXCEPT ![c] = operation] /\ before' = [before EXCEPT ![c] = disk]
      /\ sendCommand(c, m) /\ Goto(c, where)
      /\ UNCHANGED <<pc, disk, filename, filesize, currentTcpPort, conn, toClient>>
  BY DEF Issue, server, locals
<1>2. /\ IInv /\ Clients = {c} /\ before \in [Clients -> Disks]
      /\ cmd \in [Clients -> [op : Commands \cup {"NONE"}, name : Names \cup {Absent},
                              new : Names \cup {Absent}, data : Datum, port : Nat]]
  BY DEF Settled, IInv, ClientsOK, CountsOK, Alone
<1>3. cmd'[c] = operation /\ before'[c] = disk /\ cpc'[c] = where
  BY <1>1, <1>2, ClientGoes
<1>4. /\ toClient[c] = << >> /\ conn[c] = "none"
      /\ \/ pc = "main" /\ IdleBut(toServer[c], {})
         \/ pc = "accept" /\ Stuck(c)
  BY <1>1, AtPrompt
<1>5. where \notin {"askOverwrite", "declined", "askRename", "smallAck", "connect",
                    "stream", "largeAck", "dead"}
  BY DEF FirstAnswer
<1>6. InStep(c)'
  <2>1. CASE pc = "main" /\ IdleBut(toServer[c], {})
    <3>1. /\ toServer[c] \in Seq(ClientDatagrams)
          /\ toServer'[c] = Append(toServer[c], m)
      BY <1>1, <1>2, <2>1, CommandSent
    <3>2. Starting(c, m)'
      BY <1>3 DEF Starting
    <3>3. m \in Request(c)'
      BY <1>1, <1>3, <1>4, <3>2 DEF Request
    <3>4. IdleBut(toServer'[c], Request(c)')
      BY <2>1, <3>1, <3>3, IdleAppended
    <3>5. Only(toClient'[c], Answers(c)')
      BY <1>1, <1>4 DEF Only
    <3>. QED
      BY <1>1, <1>3, <1>4, <1>5, <2>1, <3>4, <3>5 DEF InStep, InMain
  <2>2. CASE pc = "accept" /\ Stuck(c)
    <3>1. Stuck(c)'
      BY <1>1, <1>3, <2>2 DEF Stuck
    <3>. QED
      BY <1>1, <2>2, <3>1 DEF InStep, InAccept
  <2>. QED
    BY <1>4, <2>1, <2>2
<1>7. ClientKnows(c)'
  BY <1>3, <1>5 DEF ClientKnows
<1>8. ReportTrue(c)' /\ RefusalKept(c)'
  BY <1>2 DEF ReportTrue, RefusalKept, Refused
<1>9. OthersKept(c)'
  BY <1>1, <1>2, <1>3 DEF OthersKept
<1>. QED
  BY <1>6, <1>7, <1>8, <1>9 DEF OneClient

\* ls, send, rm, mv and shutdown are such commands.
LEMMA CommandsFit ==
  ASSUME NEW c, Alone(c), Settled(c),
         ls(c) \/ send(c) \/ remove(c) \/ rename(c) \/ shutdown(c)
  PROVE  OneClient(c)'
<1>1. c \in Clients /\ result \in [Clients -> Outcomes]
  BY DEF Alone, Settled, IInv, ClientsOK
<1>2. Pending(c) => result'[c] = "none"
  BY <1>1 DEF Pending
<1>3. ASSUME NEW k \in Commands, NEW n \in Names \cup {Absent}, NEW s \in Nat,
             k # "OVERWRITE"
      PROVE  /\ CmdMsg(k, n, s, 0) \in ClientDatagrams
             /\ CmdMsg(k, n, s, 0).cmd = k /\ CmdMsg(k, n, s, 0).filename = n
             /\ CmdMsg(k, n, s, 0).size = s
  BY <1>3, CmdMsgType DEF CmdMsg, Message
<1>4. CASE ls(c)
  BY <1>2, <1>3, <1>4, IssueFits DEF ls, Commands, Codes, FirstAnswer, Operation
<1>5. CASE send(c)
  <2>1. PICK n \in ValidNames, d \in Contents :
          /\ Issue(c, Operation("SEND", n, Absent, d), CmdMsg("SEND", n, SizeOf[d], 0), "send")
          /\ Pending(c)
    BY <1>5 DEF send
  <2>2. SizeOf[d] \in Nat /\ n \in Names
    OBVIOUS
  <2>. QED
    BY <1>2, <1>3, <2>1, <2>2, IssueFits DEF Commands, Codes, FirstAnswer, Operation
<1>6. CASE remove(c)
  <2>1. PICK n \in Names :
          /\ Issue(c, Operation("REMOVE", n, Absent, Absent), CmdMsg("REMOVE", n, 0, 0), "remove")
          /\ Pending(c)
    BY <1>6 DEF remove
  <2>. QED
    BY <1>2, <1>3, <2>1, IssueFits DEF Commands, Codes, FirstAnswer, Operation
<1>7. CASE rename(c)
  <2>1. PICK old \in Names, new \in Names :
          /\ Issue(c, Operation("RENAME", old, new, Absent), CmdMsg("RENAME", old, 0, 0), "rename")
          /\ Pending(c)
    BY <1>7 DEF rename
  <2>. QED
    BY <1>2, <1>3, <2>1, IssueFits DEF Commands, Codes, FirstAnswer, Operation
<1>8. CASE shutdown(c)
  <2>1. /\ Issue(c, Operation("SHUTDOWN", Absent, Absent, Absent),
                 CmdMsg("SHUTDOWN", Absent, 0, 0), "prompt")
        /\ result'[c] = "shutdown"
    BY <1>1, <1>8 DEF shutdown
  <2>. QED
    BY <1>3, <2>1, IssueFits DEF Commands, Codes, FirstAnswer, Operation
<1>. QED
  BY <1>4, <1>5, <1>6, <1>7, <1>8

\* What is sent to the main loop instead of an awaited command is dropped there.
LEMMA IdleSent ==
  ASSUME NEW c, Alone(c), Settled(c), pc = "main", IdleBut(toServer[c], {}),
         NEW m \in Idle, sendCommand(c, m)
  PROVE  \A S : IdleBut(toServer'[c], S)
<1>1. m \in ClientDatagrams
  BY DEF Idle
<1>2. toServer[c] \in Seq(ClientDatagrams) /\ toServer'[c] = Append(toServer[c], m)
  BY <1>1, CommandSent DEF Settled
<1>. QED
  BY <1>1, <1>2, IdleAppended

\* The client goes on while the server is in its main loop.
LEMMA GoesOn ==
  ASSUME NEW c, pc' = "main", cpc'[c] # "connect", cpc'[c] # "stream",
         conn'[c] = "none", \A S : IdleBut(toServer'[c], S),
         Only(toClient'[c], Answers(c)')
  PROVE  InStep(c)'
BY DEF InStep, InMain

\* The small file is sent when the server asks for it, or after it has given up.
LEMMA SendContentFits ==
  ASSUME NEW c, Alone(c), Settled(c), NEW where \in {"send", "ready"},
         ClientReceives(c, where), NEW m \in FirstOf(toClient[c]), SendContent(c),
         pc \in {"main", "small"}, Small(c)
  PROVE  OneClient(c)'
<1>1. /\ toClient[c] \in Seq(Datagrams) /\ toClient[c] # << >> /\ cpc[c] = where
      /\ toClient'[c] = Tail(toClient[c])
      /\ UNCHANGED <<pc, filename, filesize, disk, conn, before>>
  BY ClientTakes DEF Settled, server, locals
<1>2. cpc'[c] = "smallAck" /\ UNCHANGED <<cmd, result>>
  BY ClientGoes DEF SendContent, Settled
<1>3. Small(c)' /\ ClientKnows(c)
  BY <1>2 DEF Small, Settled, OneClient
<1>4. ClientKnows(c)'
  BY <1>1, <1>2, <1>3 DEF ClientKnows
<1>5. PICK r \in ClientDatagrams :
        r = DataMsg(cmd[c].data) /\ r.data = cmd[c].data /\ r.data \in Contents
  <2>1. cmd[c].data \in Datum /\ cmd[c].data \in Contents
    BY <1>1 DEF Settled, IInv, ClientsOK, Alone, Uploading, Datum
  <2>2. DataMsg(cmd[c].data) \in ClientDatagrams
    BY <2>1, DataMsgType
  <2>. QED
    BY <2>1, <2>2 DEF DataMsg, Message
<1>6. sendCommand(c, r)
  BY <1>5 DEF SendContent
<1>7. CASE pc = "main"
  <2>1. /\ conn[c] = "none" /\ IdleBut(toServer[c], {})
        /\ Tail(toClient[c]) = << >> \/ TwoAcks(c)
    BY <1>1, <1>7, MainAnswers DEF InMain
  <2>2. r \in Idle
    BY <1>5 DEF Idle
  <2>3. \A S : IdleBut(toServer'[c], S)
    BY <1>6, <1>7, <2>1, <2>2, IdleSent
  <2>4. Only(toClient'[c], Answers(c)')
    <3>1. CASE Tail(toClient[c]) = << >>
      BY <1>1, <3>1 DEF Only
    <3>2. CASE TwoAcks(c)
      <4>1. /\ Len(toClient[c]) = 2 /\ IsAck(toClient[c][2], 1) /\ disk = before[c]
        BY <3>2 DEF TwoAcks
      <4>2. /\ Len(toClient'[c]) = 1 /\ toClient'[c][1] = toClient[c][2]
            /\ toClient[c][2] \in Datagrams
        BY <1>1, <4>1, SecondLeft
      <4>3. PICK a \in Datagrams : a = toClient[c][2]
        BY <4>2
      <4>4. IsAck(a, 1) /\ ~ IsAck(a, 0)
        BY <4>1, <4>3 DEF IsAck
      <4>5. AnswerTrue(c, a)'
        BY <1>1, <1>2, <4>1, <4>4 DEF AnswerTrue
      <4>6. a \in Answers(c)'
        BY <4>5 DEF Answers
      <4>. QED
        BY <4>2, <4>3, <4>6 DEF Only
    <3>. QED
      BY <2>1, <3>1, <3>2
  <2>5. InStep(c)'
    BY <1>1, <1>2, <1>7, <2>1, <2>3, <2>4, GoesOn
  <2>6. ReportTrue(c)' /\ RefusalKept(c)' /\ OthersKept(c)'
    BY <1>1, <1>2, ClientStands
  <2>. QED
    BY <1>4, <2>5, <2>6 DEF OneClient
<1>8. CASE pc = "small"
  <2>1. Tail(toClient[c]) = << >>
    BY <1>1, <1>8, HandlerAnswers
  <2>2. InSmall(c) /\ NothingDone(c)
    BY <1>8 DEF Settled, OneClient, InStep
  <2>3. toServer[c] = << >>
    BY <1>1, <2>2, NothingOnly DEF InSmall
  <2>. DEFINE S == {x \in ClientDatagrams :
                      /\ cpc'[c] \in {"smallAck", "dead"} /\ x.data \in Contents
                      /\ cpc'[c] = "smallAck" => x.data = cmd'[c].data}
  <2>4. r \in S
    BY <1>2, <1>5
  <2>5. Only(toServer'[c], S)
    <3>. HIDE DEF S
    <3>. QED
      BY <1>6, <1>8, <2>3, <2>4, CommandSent DEF Settled
  <2>6. InSmall(c)' /\ NothingDone(c)'
    BY <1>1, <1>2, <1>3, <2>1, <2>2, <2>5 DEF InSmall, NothingDone, Only
  <2>7. InStep(c)'
    BY <1>1, <1>8, <2>6 DEF InStep
  <2>8. ReportTrue(c)' /\ RefusalKept(c)' /\ OthersKept(c)'
    BY <1>1, <1>2, ClientStands
  <2>. QED
    BY <1>4, <2>7, <2>8 DEF OneClient
<1>. QED
  BY <1>7, <1>8

\* The client connects to the port that it is told.
LEMMA ConnectToFits ==
  ASSUME NEW c, Alone(c), Settled(c), NEW where \in {"send", "ready"},
         ClientReceives(c, where), NEW m \in FirstOf(toClient[c]),
         ConnectTo(c, m.size), pc = "accept"
  PROVE  OneClient(c)'
<1>1. /\ toClient[c] # << >> /\ cpc[c] = where /\ m = toClient[c][1]
      /\ toClient'[c] = Tail(toClient[c])
      /\ UNCHANGED <<pc, filename, filesize, currentTcpPort, disk, conn, before>>
  BY ClientTakes DEF Settled, server, locals
<1>2. Expected(c) /\ Offered(c) /\ Tail(toClient[c]) = << >>
  BY <1>1, HandlerAnswers
<1>3. cpc'[c] = "connect" /\ UNCHANGED <<toServer, result>>
  BY ClientGoes DEF ConnectTo, Settled
<1>4. /\ cmd'[c].port = m.size /\ cmd'[c].name = cmd[c].name
      /\ cmd'[c].new = cmd[c].new /\ cmd'[c].data = cmd[c].data
  <2>1. /\ c \in Clients
        /\ cmd \in [Clients -> [op : Commands \cup {"NONE"}, name : Names \cup {Absent},
                                new : Names \cup {Absent}, data : Datum, port : Nat]]
    BY DEF Settled, IInv, ClientsOK, Alone
  <2>. QED
    BY <2>1 DEF ConnectTo
<1>5. ~ Small(c)' /\ ~ Small(c)
  BY <1>1, <1>2, <1>4 DEF Small, Expected
<1>6. Expected(c)' /\ Connecting(c)'
  BY <1>1, <1>2, <1>3, <1>4, <1>5 DEF Expected, Connecting, Offered
<1>7. ClientKnows(c)'
  BY <1>2, <1>3, <1>5 DEF ClientKnows, Expected
<1>8. ReportTrue(c)' /\ RefusalKept(c)' /\ OthersKept(c)'
  BY <1>1, <1>2, <1>3, <1>4, ClientTells DEF Expected
<1>9. InStep(c)'
  BY <1>1, <1>6 DEF InStep, InAccept
<1>. QED
  BY <1>7, <1>8, <1>9 DEF OneClient

\* The answers to the command of an upload: the content is asked for, or was and
\* did not come in time; the port; or the question whether to overwrite.
LEMMA UploadAnswers ==
  ASSUME NEW c, Alone(c), Settled(c), NEW where \in {"send", "ready"},
         ClientReceives(c, where), NEW m \in FirstOf(toClient[c])
  PROVE  \/ pc \in {"main", "small"} /\ m.cmd = "ACK" /\ Small(c)
         \/ pc = "accept" /\ m.cmd = "ACK" /\ ~ Small(c)
         \/ /\ pc \in {"main", "confirm"} /\ where = "send" /\ m.cmd = "FILE_EXISTS"
            /\ disk = before[c] /\ Tail(toClient[c]) = << >>
<1>1. toClient[c] # << >> /\ m = toClient[c][1] /\ cpc[c] = where
  BY ClientTakes DEF Settled
<1>2. InStep(c) /\ pc # "down"
  BY <1>1 DEF Settled, OneClient, InStep, InDown
<1>3. CASE pc = "main"
  <2>1. \/ toClient[c][1] \in Answers(c) /\ Tail(toClient[c]) = << >>
        \/ TwoAcks(c)
    BY <1>1, <1>3, MainAnswers
  <2>2. CASE TwoAcks(c)
    BY <1>1, <1>3, <2>2 DEF TwoAcks, IsAck
  <2>3. CASE m \in Answers(c) /\ Tail(toClient[c]) = << >>
    BY <1>1, <1>3, <2>3 DEF Answers, AnswerTrue, IsAck
  <2>. QED
    BY <1>1, <2>1, <2>2, <2>3
<1>4. CASE pc # "main"
  BY <1>1, <1>2, <1>4, HandlerAnswers
     DEF InStep, InSmall, NothingDone, Expected, Offered, IsAck
<1>. QED
  BY <1>3, <1>4

\* The first answer to send.
LEMMA SendAnsweredFits ==
  ASSUME NEW c, Alone(c), Settled(c), SendAnswered(c) PROVE OneClient(c)'
<1>1. PICK m \in FirstOf(toClient[c]) :
        /\ ClientReceives(c, "send")
        /\ \/ /\ m.cmd = "FILE_EXISTS" /\ Goto(c, "askOverwrite")
              /\ UNCHANGED <<toServer, cmd, result>>
           \/ m.cmd = "ACK" /\ ~ Small(c) /\ ConnectTo(c, m.size)
           \/ m.cmd = "ACK" /\ Small(c) /\ SendContent(c)
           \/ m.cmd \notin {"ACK", "FILE_EXISTS"} /\ SendContent(c)
  BY DEF SendAnswered
<1>2. \/ pc \in {"main", "small"} /\ m.cmd = "ACK" /\ Small(c)
      \/ pc = "accept" /\ m.cmd = "ACK" /\ ~ Small(c)
      \/ /\ pc \in {"main", "confirm"} /\ m.cmd = "FILE_EXISTS"
         /\ disk = before[c] /\ Tail(toClient[c]) = << >>
  BY <1>1, UploadAnswers
<1>3. CASE pc = "accept" /\ ConnectTo(c, m.size)
  BY <1>1, <1>3, ConnectToFits
<1>4. CASE pc \in {"main", "small"} /\ Small(c) /\ SendContent(c)
  BY <1>1, <1>4, SendContentFits
<1>5. CASE /\ pc \in {"main", "confirm"} /\ Goto(c, "askOverwrite")
           /\ UNCHANGED <<toServer, cmd, result>>
           /\ disk = before[c] /\ Tail(toClient[c]) = << >>
  <2>1. /\ toClient[c] # << >> /\ toClient'[c] = << >> /\ cpc[c] = "send"
        /\ UNCHANGED <<pc, filename, disk, conn, before>> /\ cpc'[c] = "askOverwrite"
    BY <1>1, <1>5, ClientTakes, ClientGoes DEF Settled, server, locals
  <2>2. ClientKnows(c)'
    BY <1>5, <2>1 DEF ClientKnows, Settled, OneClient
  <2>3. ReportTrue(c)' /\ RefusalKept(c)' /\ OthersKept(c)'
    BY <1>5, <2>1, ClientStands
  <2>4. CASE pc = "main"
    <3>1. IdleBut(toServer[c], {}) /\ conn[c] = "none"
      BY <2>1, <2>4, MainAnswers DEF InMain
    <3>2. \A S : IdleBut(toServer'[c], S)
      BY <1>5, <3>1, IdleMore
    <3>3. InStep(c)'
      BY <2>1, <2>4, <3>1, <3>2, GoesOn DEF Only
    <3>. QED
      BY <2>2, <2>3, <3>3 DEF OneClient
  <2>5. CASE pc = "confirm"
    <3>1. InConfirm(c) /\ NothingDone(c)
      BY <2>5 DEF Settled, OneClient, InStep
    <3>2. toServer[c] = << >>
      BY <2>1, <3>1, NothingOnly DEF InConfirm
    <3>3. InConfirm(c)' /\ NothingDone(c)'
      BY <1>5, <2>1, <3>1, <3>2 DEF InConfirm, NothingDone, Only
    <3>. QED
      BY <2>1, <2>2, <2>3, <2>5, <3>3 DEF OneClient, InStep
  <2>. QED
    BY <1>5, <2>4, <2>5
<1>. QED
  BY <1>1, <1>2, <1>3, <1>4, <1>5

\* The answer to a confirmed overwrite.
LEMMA ReadyAnsweredFits ==
  ASSUME NEW c, Alone(c), Settled(c), ReadyAnswered(c) PROVE OneClient(c)'
<1>1. PICK m \in FirstOf(toClient[c]) :
        /\ ClientReceives(c, "ready")
        /\ \/ m.cmd # "ACK"
           \/ m.cmd = "ACK" /\ ~ Small(c) /\ ConnectTo(c, m.size)
           \/ m.cmd = "ACK" /\ Small(c) /\ SendContent(c)
  BY DEF ReadyAnswered
<1>2. \/ pc \in {"main", "small"} /\ m.cmd = "ACK" /\ Small(c)
      \/ pc = "accept" /\ m.cmd = "ACK" /\ ~ Small(c)
  BY <1>1, UploadAnswers
<1>3. CASE pc = "accept" /\ ConnectTo(c, m.size)
  BY <1>1, <1>3, ConnectToFits
<1>4. CASE pc \in {"main", "small"} /\ Small(c) /\ SendContent(c)
  BY <1>1, <1>4, SendContentFits
<1>. QED
  BY <1>1, <1>2, <1>3, <1>4

\* While the user is asked no datagram is under way that matters.
LEMMA WhileAsked ==
  ASSUME NEW c, Alone(c), Settled(c), cpc[c] \in {"askOverwrite", "askRename"}
  PROVE  /\ toClient[c] = << >> /\ conn[c] = "none" /\ disk = before[c] /\ result[c] = "none"
         /\ \/ pc = "main" /\ IdleBut(toServer[c], {})
            \/ /\ pc = "confirm" /\ cpc[c] = "askOverwrite" /\ toServer[c] = << >>
               /\ InConfirm(c) /\ NothingDone(c)
            \/ /\ pc = "renameConfirm" /\ cpc[c] = "askRename" /\ toServer[c] = << >>
               /\ InRenameConfirm(c) /\ NothingDone(c)
<1>1. InStep(c) /\ ClientKnows(c) /\ pc \in ServerPlaces
  BY DEF Settled, OneClient, IInv, HandlerOK
<1>2. disk = before[c] /\ result[c] = "none"
  BY <1>1 DEF ClientKnows
<1>3. CASE pc = "main"
  <2>1. InMain(c) /\ \A m : m \notin Request(c)
    BY <1>1, <1>3 DEF InStep, Request, Starting
  <2>2. IdleBut(toServer[c], {})
    BY <2>1, IdleMore DEF InMain
  <2>3. toClient[c] = << >>
    <3>1. \A m : m \notin Answers(c)
      BY DEF Answers, AnswerTrue
    <3>. QED
      BY <1>3, <3>1, MainAnswers DEF TwoAcks
  <2>. QED
    BY <1>2, <1>3, <2>1, <2>2, <2>3 DEF InMain
<1>4. CASE pc = "confirm"
  <2>1. InConfirm(c) /\ NothingDone(c) /\ cpc[c] = "askOverwrite"
    BY <1>1, <1>4 DEF InStep, InConfirm
  <2>2. toClient[c] = << >> /\ toServer[c] = << >>
    BY <2>1, NothingOnly DEF InConfirm
  <2>. QED
    BY <1>2, <1>4, <2>1, <2>2 DEF NothingDone
<1>5. CASE pc = "renameConfirm"
  <2>1. InRenameConfirm(c) /\ NothingDone(c) /\ cpc[c] = "askRename"
    BY <1>1, <1>5 DEF InStep, InRenameConfirm
  <2>2. toClient[c] = << >> /\ toServer[c] = << >>
    BY <2>1, NothingOnly DEF InRenameConfirm
  <2>. QED
    BY <1>2, <1>5, <2>1, <2>2 DEF NothingDone
<1>6. pc \in {"main", "confirm", "renameConfirm"}
  BY <1>1 DEF InStep, InSmall, InNewName, InAccept, Stuck, FirstAnswer, Offered,
              Connecting, InRecv, Streaming, InDown, ServerPlaces
<1>. QED
  BY <1>3, <1>4, <1>5, <1>6

\* The user's answer to the question whether to overwrite goes to the handler that
\* waits for it, or to a main loop that drops it.
LEMMA OverwriteAskedFits ==
  ASSUME NEW c, Alone(c), Settled(c), OverwriteAsked(c) PROVE OneClient(c)'
<1>1. PICK yes \in BOOLEAN :
        /\ cpc[c] = "askOverwrite"
        /\ sendCommand(c, CmdMsg("OVERWRITE", cmd[c].name, SizeOf[cmd[c].data],
                                 IF yes THEN 0 ELSE 1))
        /\ Goto(c, IF yes THEN "ready" ELSE "declined")
        /\ UNCHANGED <<clientOnly, toClient, cmd, result>>
  BY DEF OverwriteAsked
<1>2. /\ UNCHANGED <<pc, filename, disk, conn, before, toClient, cmd, result>>
      /\ cpc'[c] = IF yes THEN "ready" ELSE "declined"
  BY <1>1, ClientGoes DEF Settled, clientOnly, server, locals
<1>3. PICK e \in Nat : e = IF yes THEN 0 ELSE 1
  OBVIOUS
<1>4. PICK r \in ClientDatagrams :
        /\ r = CmdMsg("OVERWRITE", cmd[c].name, SizeOf[cmd[c].data], e)
        /\ r.cmd = "OVERWRITE" /\ r.filename = cmd[c].name
        /\ r.size = SizeOf[cmd[c].data] /\ r.error = e /\ r.data = Absent
  <2>1. cmd[c].name \in ValidNames /\ SizeOf[cmd[c].data] \in Nat
    BY <1>1 DEF Settled, IInv, ClientsOK, Alone, Uploading
  <2>2. CmdMsg("OVERWRITE", cmd[c].name, SizeOf[cmd[c].data], e) \in ClientDatagrams
    BY <2>1, CmdMsgType DEF Commands, Codes, MaybeValid
  <2>. QED
    BY <2>2 DEF CmdMsg, Message
<1>5. sendCommand(c, r)
  BY <1>1, <1>3, <1>4
<1>6. /\ toClient[c] = << >> /\ conn[c] = "none" /\ disk = before[c] /\ result[c] = "none"
      /\ \/ pc = "main" /\ IdleBut(toServer[c], {})
         \/ /\ pc = "confirm" /\ toServer[c] = << >>
            /\ InConfirm(c) /\ NothingDone(c)
  BY <1>1, WhileAsked
<1>7. ClientKnows(c)'
  BY <1>2, <1>6 DEF ClientKnows
<1>8. ReportTrue(c)' /\ RefusalKept(c)' /\ OthersKept(c)'
  BY <1>2, ClientStands
<1>9. CASE pc = "main" /\ IdleBut(toServer[c], {})
  <2>1. \A S : IdleBut(toServer'[c], S)
    BY <1>4, <1>5, <1>9, IdleSent DEF Idle
  <2>2. InStep(c)'
    BY <1>2, <1>6, <1>9, <2>1, GoesOn DEF Only
  <2>. QED
    BY <1>7, <1>8, <2>2 DEF OneClient
<1>10. CASE pc = "confirm" /\ toServer[c] = << >> /\ InConfirm(c) /\ NothingDone(c)
  <2>. DEFINE S == {x \in ClientDatagrams :
                      /\ cpc'[c] \in {"ready", "declined", "dead"} /\ x.cmd = "OVERWRITE"
                      /\ x.data \notin Contents /\ x.filename = cmd'[c].name
                      /\ cpc'[c] = "ready" => x.error = 0 /\ x.size = SizeOf[cmd'[c].data]
                      /\ cpc'[c] = "declined" => x.error # 0}
  <2>1. r \in S
    BY <1>2, <1>3, <1>4
  <2>2. Only(toServer'[c], S)
    <3>. HIDE DEF S
    <3>. QED
      BY <1>5, <1>10, <2>1, CommandSent DEF Settled
  <2>3. InConfirm(c)' /\ NothingDone(c)'
    BY <1>2, <1>6, <1>10, <2>2 DEF InConfirm, NothingDone, Only
  <2>4. InStep(c)'
    BY <1>2, <1>10, <2>3 DEF InStep
  <2>. QED
    BY <1>7, <1>8, <2>4 DEF OneClient
<1>. QED
  BY <1>6, <1>9, <1>10

\* So does the answer to the question whether a rename may replace a file.
LEMMA RenameOverwriteAskedFits ==
  ASSUME NEW c, Alone(c), Settled(c), RenameOverwriteAsked(c) PROVE OneClient(c)'
<1>1. PICK yes \in BOOLEAN :
        /\ cpc[c] = "askRename"
        /\ sendCommand(c, CmdMsg("OVERWRITE", Absent, 0, IF yes THEN 0 ELSE 1))
        /\ Goto(c, "renameAck")
        /\ UNCHANGED <<clientOnly, toClient, cmd, result>>
  BY DEF RenameOverwriteAsked
<1>2. /\ UNCHANGED <<pc, filename, newFilename, disk, conn, before, toClient, cmd, result>>
      /\ cpc'[c] = "renameAck"
  BY <1>1, ClientGoes DEF Settled, clientOnly, server, locals
<1>3. PICK e \in Nat : e = IF yes THEN 0 ELSE 1
  OBVIOUS
<1>4. PICK r \in ClientDatagrams :
        /\ r = CmdMsg("OVERWRITE", Absent, 0, e)
        /\ r.cmd = "OVERWRITE" /\ r.data = Absent
  <2>1. CmdMsg("OVERWRITE", Absent, 0, e) \in ClientDatagrams
    BY CmdMsgType DEF Commands, Codes, MaybeValid
  <2>. QED
    BY <2>1 DEF CmdMsg, Message
<1>5. sendCommand(c, r)
  BY <1>1, <1>3, <1>4
<1>6. /\ toClient[c] = << >> /\ conn[c] = "none" /\ disk = before[c] /\ result[c] = "none"
      /\ \/ pc = "main" /\ IdleBut(toServer[c], {})
         \/ /\ pc = "renameConfirm" /\ toServer[c] = << >>
            /\ InRenameConfirm(c) /\ NothingDone(c)
  BY <1>1, WhileAsked
<1>7. ClientKnows(c)'
  BY <1>2, <1>6 DEF ClientKnows
<1>8. ReportTrue(c)' /\ RefusalKept(c)' /\ OthersKept(c)'
  BY <1>2, ClientStands
<1>9. CASE pc = "main" /\ IdleBut(toServer[c], {})
  <2>1. \A S : IdleBut(toServer'[c], S)
    BY <1>4, <1>5, <1>9, IdleSent DEF Idle
  <2>2. InStep(c)'
    BY <1>2, <1>6, <1>9, <2>1, GoesOn DEF Only
  <2>. QED
    BY <1>7, <1>8, <2>2 DEF OneClient
<1>10. CASE pc = "renameConfirm" /\ toServer[c] = << >> /\ InRenameConfirm(c) /\ NothingDone(c)
  <2>. DEFINE S == {x \in ClientDatagrams :
                      /\ cpc'[c] \in {"renameAck", "dead"} /\ x.cmd = "OVERWRITE"
                      /\ x.data \notin Contents}
  <2>1. r \in S
    BY <1>2, <1>4
  <2>2. Only(toServer'[c], S)
    <3>. HIDE DEF S
    <3>. QED
      BY <1>5, <1>10, <2>1, CommandSent DEF Settled
  <2>3. InRenameConfirm(c)' /\ NothingDone(c)'
    BY <1>2, <1>6, <1>10, <2>2 DEF InRenameConfirm, NothingDone, Only
  <2>4. InStep(c)'
    BY <1>2, <1>10, <2>3 DEF InStep
  <2>. QED
    BY <1>7, <1>8, <2>4 DEF OneClient
<1>. QED
  BY <1>6, <1>9, <1>10

\* A client that is about to connect was told the port at which the server waits
\* for its file.
LEMMA AtConnect ==
  ASSUME NEW c, Alone(c), Settled(c), cpc[c] = "connect"
  PROVE  pc = "accept" /\ Expected(c) /\ Connecting(c)
<1>1. InStep(c) /\ pc \in ServerPlaces
  BY DEF Settled, OneClient, IInv, HandlerOK
<1>2. pc = "accept"
  BY <1>1 DEF ServerPlaces, InStep, InMain, InConfirm, InSmall, InNewName,
              InRenameConfirm, InRecv, Streaming, InDown
<1>3. InAccept(c)
  BY <1>1, <1>2 DEF InStep
<1>. QED
  BY <1>2, <1>3 DEF InAccept, Stuck, FirstAnswer, Offered, Streaming

\* The connection is made, or the server is left waiting for it.
LEMMA ConnectFits ==
  ASSUME NEW c, Alone(c), Settled(c), Connect(c) PROVE OneClient(c)'
<1>1. /\ cpc[c] = "connect"
      /\ UNCHANGED <<pc, filename, filesize, currentTcpPort, disk, toServer, toClient, cmd, before>>
      /\ \/ /\ conn' = [conn EXCEPT ![c] = "open"] /\ Goto(c, "stream") /\ UNCHANGED result
         \/ Report(c, "unreachable") /\ UNCHANGED conn
  BY DEF Connect, tcpOnly, server, locals
<1>2. pc = "accept" /\ Expected(c) /\ Connecting(c)
  BY <1>1, AtConnect
<1>3. ~ Small(c) /\ ~ Small(c)'
  BY <1>1, <1>2 DEF Expected, Small
<1>4. CASE /\ conn' = [conn EXCEPT ![c] = "open"] /\ Goto(c, "stream") /\ UNCHANGED result
  <2>1. cpc'[c] = "stream" /\ conn'[c] = "open"
    BY <1>4, ClientGoes DEF Settled, IInv, TransferOK, Alone
  <2>2. Expected(c)' /\ Streaming(c)'
    BY <1>1, <1>2, <1>3, <1>4, <2>1 DEF Expected, Streaming, Connecting
  <2>3. InStep(c)'
    BY <1>1, <1>2, <2>2 DEF InStep, InAccept
  <2>4. ClientKnows(c)'
    BY <1>2, <1>3, <1>4, <2>1 DEF ClientKnows, Expected
  <2>5. ReportTrue(c)' /\ RefusalKept(c)' /\ OthersKept(c)'
    BY <1>1, <1>4, ClientStands
  <2>. QED
    BY <2>3, <2>4, <2>5 DEF OneClient
<1>5. CASE Report(c, "unreachable") /\ UNCHANGED conn
  <2>1. cpc'[c] = "prompt" /\ result'[c] = "unreachable"
    BY <1>5, ClientGoes DEF Settled
  <2>2. Stuck(c)'
    BY <1>1, <1>2, <1>5, <2>1 DEF Stuck, Connecting
  <2>3. InStep(c)'
    BY <1>1, <1>2, <2>2 DEF InStep, InAccept
  <2>4. ClientKnows(c)'
    BY <2>1 DEF ClientKnows
  <2>5. ReportTrue(c)' /\ RefusalKept(c)' /\ OthersKept(c)'
    BY <1>1, <2>1, ClientTells
  <2>. QED
    BY <2>3, <2>4, <2>5 DEF OneClient
<1>. QED
  BY <1>1, <1>4, <1>5

\* While the file is streamed the server receives it, or has hung up.
LEMMA AtStream ==
  ASSUME NEW c, Alone(c), Settled(c), cpc[c] = "stream"
  PROVE  /\ toClient[c] = << >>
         /\ \/ pc = "main" /\ IdleBut(toServer[c], {}) /\ conn[c] = "reset"
            \/ /\ pc \in {"accept", "recv"} /\ Expected(c) /\ conn[c] = "open"
               /\ pc = "recv" => peer = c
<1>1. InStep(c) /\ pc \in ServerPlaces
  BY DEF Settled, OneClient, IInv, HandlerOK
<1>2. CASE pc = "main"
  <2>1. InMain(c) /\ \A m : m \notin Request(c)
    BY <1>1, <1>2 DEF InStep, Request, Starting
  <2>2. IdleBut(toServer[c], {})
    BY <2>1, IdleMore DEF InMain
  <2>3. toClient[c] = << >>
    <3>1. \A m : m \notin Answers(c)
      BY DEF Answers, AnswerTrue
    <3>. QED
      BY <1>2, <3>1, MainAnswers DEF TwoAcks
  <2>. QED
    BY <1>2, <2>1, <2>2, <2>3 DEF InMain
<1>3. CASE pc = "accept"
  BY <1>1, <1>3 DEF InStep, InAccept, Stuck, FirstAnswer, Offered, Connecting, Streaming
<1>4. CASE pc = "recv"
  BY <1>1, <1>4 DEF InStep, InRecv, Streaming
<1>5. pc \in {"main", "accept", "recv"}
  BY <1>1 DEF ServerPlaces, InStep, InConfirm, InSmall, InNewName, InRenameConfirm, InDown
<1>. QED
  BY <1>2, <1>3, <1>4, <1>5

\* The file is sent whole, or the client finds that the server has hung up.
LEMMA StreamFileFits ==
  ASSUME NEW c, Alone(c), Settled(c), StreamFile(c) PROVE OneClient(c)'
<1>1. /\ toClient[c] = << >>
      /\ \/ pc = "main" /\ IdleBut(toServer[c], {}) /\ conn[c] = "reset"
         \/ /\ pc \in {"accept", "recv"} /\ Expected(c) /\ conn[c] = "open"
            /\ pc = "recv" => peer = c
  BY AtStream DEF StreamFile
<1>2. /\ cpc[c] = "stream"
      /\ UNCHANGED <<pc, filename, filesize, currentTcpPort, peer, disk, toServer, toClient,
                     cmd, before>>
      /\ \/ /\ conn' = [conn EXCEPT ![c] = IF conn[c] = "open" THEN cmd[c].data ELSE "none"]
            /\ Goto(c, "largeAck") /\ UNCHANGED result
         \/ /\ conn[c] = "reset" /\ conn' = [conn EXCEPT ![c] = "none"]
            /\ Report(c, "error")
  BY <1>1 DEF StreamFile, tcpOnly, server, locals
<1>3. /\ ~ Small(c) /\ ~ Small(c)' /\ result[c] = "none"
      /\ c \in Clients /\ conn \in [Clients -> {"none", "open", "reset", "cut"} \cup Contents]
  BY <1>2 DEF Settled, OneClient, ClientKnows, Small, IInv, TransferOK, Alone
<1>4. CASE /\ conn' = [conn EXCEPT ![c] = IF conn[c] = "open" THEN cmd[c].data ELSE "none"]
           /\ Goto(c, "largeAck") /\ UNCHANGED result
  <2>1. cpc'[c] = "largeAck" /\ conn'[c] = IF conn[c] = "open" THEN cmd[c].data ELSE "none"
    BY <1>3, <1>4, ClientGoes DEF Settled
  <2>2. ClientKnows(c)'
    BY <1>3, <1>4, <2>1 DEF ClientKnows
  <2>3. ReportTrue(c)' /\ RefusalKept(c)' /\ OthersKept(c)'
    BY <1>2, <1>4, ClientStands
  <2>4. CASE pc = "main" /\ IdleBut(toServer[c], {}) /\ conn[c] = "reset"
    <3>1. \A S : IdleBut(toServer'[c], S)
      BY <1>2, <2>4, IdleMore
    <3>2. InStep(c)'
      BY <1>2, <1>1, <2>1, <2>4, <3>1, GoesOn DEF Only
    <3>. QED
      BY <2>2, <2>3, <3>2 DEF OneClient
  <2>5. CASE /\ pc \in {"accept", "recv"} /\ Expected(c) /\ conn[c] = "open"
             /\ pc = "recv" => peer = c
    <3>1. Expected(c)' /\ Streaming(c)'
      BY <1>2, <1>1, <1>3, <1>4, <2>1, <2>5 DEF Expected, Streaming
    <3>2. InStep(c)'
      BY <1>2, <2>5, <3>1 DEF InStep, InAccept, InRecv
    <3>. QED
      BY <2>2, <2>3, <3>2 DEF OneClient
  <2>. QED
    BY <1>1, <2>4, <2>5
<1>5. CASE /\ conn[c] = "reset" /\ conn' = [conn EXCEPT ![c] = "none"]
           /\ Report(c, "error")
  <2>1. cpc'[c] = "prompt" /\ result'[c] = "error" /\ conn'[c] = "none"
    BY <1>3, <1>5, ClientGoes DEF Settled
  <2>2. ReportTrue(c)' /\ RefusalKept(c)' /\ OthersKept(c)'
    BY <1>2, <2>1, ClientTells
  <2>3. InStep(c)' /\ ClientKnows(c)'
    BY <1>2, <1>1, <1>5, <2>1, Prompted
  <2>. QED
    BY <2>2, <2>3 DEF OneClient
<1>. QED
  BY <1>2, <1>4, <1>5

\* The first answer to mv: the old name is refused, or the new one is asked for.
LEMMA ReadyForNewNameFits ==
  ASSUME NEW c, Alone(c), Settled(c), ReadyForNewName(c) PROVE OneClient(c)'
<1>1. PICK m \in FirstOf(toClient[c]) :
        /\ ClientReceives(c, "rename")
        /\ \/ /\ m.cmd = "ACK"
              /\ Report(c, IF m.error = 0 THEN "renamed" ELSE "notFound")
              /\ UNCHANGED toServer
           \/ /\ m.cmd # "ACK"
              /\ sendCommand(c, DataMsg(cmd[c].new))
              /\ Goto(c, "newNameAck") /\ UNCHANGED result
        /\ UNCHANGED cmd
  BY DEF ReadyForNewName
<1>2. /\ toClient[c] # << >> /\ m = toClient[c][1] /\ cpc[c] = "rename"
      /\ toClient'[c] = Tail(toClient[c])
      /\ UNCHANGED <<pc, filename, disk, conn, before>>
  BY <1>1, ClientTakes DEF Settled, server, locals
<1>3. InStep(c) /\ ClientKnows(c) /\ result[c] = "none"
  BY <1>2 DEF Settled, OneClient, ClientKnows
<1>4. \/ /\ pc = "main" /\ IdleBut(toServer[c], {}) /\ conn[c] = "none"
         /\ Tail(toClient[c]) = << >> /\ ~ IsAck(m, 0) /\ disk = before[c]
      \/ /\ pc = "newName" /\ m.cmd # "ACK" /\ Tail(toClient[c]) = << >>
         /\ InNewName(c) /\ NothingDone(c) /\ toServer[c] = << >>
  <2>1. CASE pc = "main"
    <3>1. /\ InMain(c) /\ IdleBut(toServer[c], {})
          /\ m \in Answers(c) /\ Tail(toClient[c]) = << >>
      BY <1>2, <2>1, MainAnswers DEF TwoAcks
    <3>2. ~ IsAck(m, 0) /\ disk = before[c]
      BY <1>2, <3>1 DEF Answers, AnswerTrue
    <3>. QED
      BY <1>2, <2>1, <3>1, <3>2 DEF InMain
  <2>2. CASE pc # "main"
    <3>1. pc # "down"
      BY <1>2, <1>3 DEF InStep, InDown
    <3>2. pc = "newName" /\ m.cmd # "ACK" /\ Tail(toClient[c]) = << >>
      BY <1>2, <2>2, <3>1, HandlerAnswers DEF Offered
    <3>3. InNewName(c) /\ NothingDone(c)
      BY <1>3, <3>2 DEF InStep
    <3>4. toServer[c] = << >>
      BY <1>2, <3>3, NothingOnly DEF InNewName
    <3>. QED
      BY <3>2, <3>3, <3>4
  <2>. QED
    BY <2>1, <2>2
<1>5. CASE /\ m.cmd = "ACK" /\ UNCHANGED toServer
           /\ Report(c, IF m.error = 0 THEN "renamed" ELSE "notFound")
  <2>1. m.error # 0 /\ pc = "main" /\ disk = before[c]
    BY <1>4, <1>5 DEF IsAck
  <2>2. cpc'[c] = "prompt" /\ result'[c] = "notFound"
    BY <1>5, <2>1, ClientGoes DEF Settled
  <2>3. ReportTrue(c)' /\ RefusalKept(c)' /\ OthersKept(c)'
    BY <1>1, <1>2, <2>1, <2>2, ClientTells
  <2>4. InStep(c)' /\ ClientKnows(c)'
    BY <1>2, <1>4, <1>5, <2>1, <2>2, Prompted
  <2>. QED
    BY <2>3, <2>4 DEF OneClient
<1>6. CASE /\ sendCommand(c, DataMsg(cmd[c].new))
           /\ Goto(c, "newNameAck") /\ UNCHANGED result
  <2>1. cpc'[c] = "newNameAck" /\ UNCHANGED cmd
    BY <1>1, <1>6, ClientGoes DEF Settled
  <2>2. ClientKnows(c)'
    BY <1>3, <1>6, <2>1 DEF ClientKnows
  <2>3. ReportTrue(c)' /\ RefusalKept(c)' /\ OthersKept(c)'
    BY <1>2, <1>6, <2>1, ClientStands
  <2>4. PICK r \in ClientDatagrams :
          r = DataMsg(cmd[c].new) /\ r.cmd = "DATA" /\ r.data = cmd[c].new
    <3>1. cmd[c].new \in Datum /\ cmd[c].new \notin Contents
      BY DEF Settled, IInv, ClientsOK, Alone, Datum
    <3>2. DataMsg(cmd[c].new) \in ClientDatagrams
      BY <3>1, DataMsgType
    <3>. QED
      BY <3>1, <3>2 DEF DataMsg, Message
  <2>5. sendCommand(c, r)
    BY <1>6, <2>4
  <2>6. CASE /\ pc = "main" /\ IdleBut(toServer[c], {}) /\ conn[c] = "none"
             /\ Tail(toClient[c]) = << >>
    <3>1. \A S : IdleBut(toServer'[c], S)
      BY <2>4, <2>5, <2>6, IdleSent DEF Idle
    <3>2. InStep(c)'
      BY <1>2, <2>1, <2>6, <3>1, GoesOn DEF Only
    <3>. QED
      BY <2>2, <2>3, <3>2 DEF OneClient
  <2>7. CASE /\ pc = "newName" /\ Tail(toClient[c]) = << >>
             /\ InNewName(c) /\ NothingDone(c) /\ toServer[c] = << >>
    <3>. DEFINE S == {x \in ClientDatagrams :
                        /\ cpc'[c] \in {"newNameAck", "dead"} /\ x.cmd = "DATA"
                        /\ x.data = cmd'[c].new}
    <3>1. r \in S
      BY <2>1, <2>4
    <3>2. Only(toServer'[c], S)
      <4>. HIDE DEF S
      <4>. QED
        BY <2>5, <2>7, <3>1, CommandSent DEF Settled
    <3>3. InNewName(c)' /\ NothingDone(c)'
      BY <1>2, <1>6, <2>1, <2>7, <3>2 DEF InNewName, NothingDone, Only
    <3>4. InStep(c)'
      BY <1>2, <2>7, <3>3 DEF InStep
    <3>. QED
      BY <2>2, <2>3, <3>4 DEF OneClient
  <2>. QED
    BY <1>4, <2>6, <2>7
<1>. QED
  BY <1>1, <1>5, <1>6

\* The answer to the new name: the rename's outcome, or the question whether it
\* may replace a file.
LEMMA NewNameAnsweredFits ==
  ASSUME NEW c, Alone(c), Settled(c), NewNameAnswered(c) PROVE OneClient(c)'
<1>1. PICK m \in FirstOf(toClient[c]) :
        /\ ClientReceives(c, "newNameAck")
        /\ \/ m.cmd = "FILE_EXISTS" /\ Goto(c, "askRename") /\ UNCHANGED result
           \/ /\ m.cmd # "FILE_EXISTS"
              /\ Report(c, IF IsAck(m, 0) THEN "renamed"
                           ELSE IF IsAck(m, 1) THEN "notFound" ELSE "error")
        /\ UNCHANGED <<toServer, cmd>>
  BY DEF NewNameAnswered
<1>2. /\ toClient[c] # << >> /\ m = toClient[c][1] /\ cpc[c] = "newNameAck"
      /\ toClient'[c] = Tail(toClient[c])
      /\ UNCHANGED <<pc, filename, newFilename, disk, conn, before>>
  BY <1>1, ClientTakes DEF Settled, server, locals
<1>3. InStep(c) /\ ClientKnows(c) /\ result[c] = "none"
  BY <1>2 DEF Settled, OneClient, ClientKnows
<1>4. \/ /\ pc = "main" /\ IdleBut(toServer[c], {}) /\ conn[c] = "none"
         /\ Tail(toClient[c]) = << >>
         /\ IF IsAck(m, 0) THEN Renamed(c) ELSE disk = before[c]
      \/ /\ pc = "renameConfirm" /\ m.cmd = "FILE_EXISTS" /\ Tail(toClient[c]) = << >>
         /\ InRenameConfirm(c) /\ NothingDone(c) /\ toServer[c] = << >>
  <2>1. CASE pc = "main"
    <3>1. /\ InMain(c) /\ IdleBut(toServer[c], {})
          /\ m \in Answers(c) /\ Tail(toClient[c]) = << >>
      BY <1>2, <2>1, MainAnswers DEF TwoAcks
    <3>2. IF IsAck(m, 0) THEN Renamed(c) ELSE disk = before[c]
      BY <1>2, <3>1 DEF Answers, AnswerTrue
    <3>. QED
      BY <1>2, <2>1, <3>1, <3>2 DEF InMain
  <2>2. CASE pc # "main"
    <3>1. pc # "down"
      BY <1>2, <1>3 DEF InStep, InDown
    <3>2. pc = "renameConfirm" /\ m.cmd = "FILE_EXISTS" /\ Tail(toClient[c]) = << >>
      BY <1>2, <2>2, <3>1, HandlerAnswers DEF Offered
    <3>3. InRenameConfirm(c) /\ NothingDone(c)
      BY <1>3, <3>2 DEF InStep
    <3>4. toServer[c] = << >>
      BY <1>2, <3>3, NothingOnly DEF InRenameConfirm
    <3>. QED
      BY <3>2, <3>3, <3>4
  <2>. QED
    BY <2>1, <2>2
<1>5. CASE m.cmd = "FILE_EXISTS" /\ Goto(c, "askRename") /\ UNCHANGED result
  <2>1. cpc'[c] = "askRename" /\ disk = before[c] /\ UNCHANGED <<cmd, toServer>>
    BY <1>1, <1>4, <1>5, ClientGoes DEF Settled, NothingDone, IsAck
  <2>2. ClientKnows(c)'
    BY <1>2, <1>3, <1>5, <2>1 DEF ClientKnows
  <2>3. ReportTrue(c)' /\ RefusalKept(c)' /\ OthersKept(c)'
    BY <1>2, <1>5, <2>1, ClientStands
  <2>4. CASE /\ pc = "main" /\ IdleBut(toServer[c], {}) /\ conn[c] = "none"
             /\ Tail(toClient[c]) = << >>
    <3>1. \A S : IdleBut(toServer'[c], S)
      BY <2>1, <2>4, IdleMore
    <3>2. InStep(c)'
      BY <1>2, <2>1, <2>4, <3>1, GoesOn DEF Only
    <3>. QED
      BY <2>2, <2>3, <3>2 DEF OneClient
  <2>5. CASE /\ pc = "renameConfirm" /\ Tail(toClient[c]) = << >>
             /\ InRenameConfirm(c) /\ NothingDone(c) /\ toServer[c] = << >>
    <3>1. InRenameConfirm(c)' /\ NothingDone(c)'
      BY <1>2, <1>5, <2>1, <2>5 DEF InRenameConfirm, NothingDone, Only
    <3>2. InStep(c)'
      BY <1>2, <2>5, <3>1 DEF InStep
    <3>. QED
      BY <2>2, <2>3, <3>2 DEF OneClient
  <2>. QED
    BY <1>4, <2>4, <2>5
<1>6. CASE /\ m.cmd # "FILE_EXISTS"
           /\ Report(c, IF IsAck(m, 0) THEN "renamed"
                        ELSE IF IsAck(m, 1) THEN "notFound" ELSE "error")
  <2>1. PICK o : o = IF IsAck(m, 0) THEN "renamed"
                     ELSE IF IsAck(m, 1) THEN "notFound" ELSE "error"
    OBVIOUS
  <2>2. cpc'[c] = "prompt" /\ result'[c] = o
    BY <1>6, <2>1, ClientGoes DEF Settled
  <2>3. /\ pc = "main" /\ IdleBut(toServer[c], {}) /\ conn[c] = "none"
        /\ Tail(toClient[c]) = << >>
        /\ IF IsAck(m, 0) THEN Renamed(c) ELSE disk = before[c]
    BY <1>4, <1>6
  <2>4. ReportTrue(c)' /\ RefusalKept(c)' /\ OthersKept(c)'
    BY <1>1, <1>2, <2>1, <2>2, <2>3, ClientTells
  <2>5. InStep(c)' /\ ClientKnows(c)'
    BY <1>1, <1>2, <2>2, <2>3, Prompted
  <2>. QED
    BY <2>4, <2>5 DEF OneClient
<1>. QED
  BY <1>1, <1>5, <1>6

\* A client gives up when nothing can answer it: what it sent is lost or was
\* dropped, or the server waits for a connection that will not come.
LEMMA ClientTimeoutFits ==
  ASSUME NEW c, Alone(c), Settled(c), ClientTimeout(c) PROVE OneClient(c)'
<1>1. /\ cpc[c] \in FirstAnswer \cup LaterAnswer /\ Silent(c)
      /\ Report(c, IF cpc[c] = "declined" THEN "cancelled"
                   ELSE IF cpc[c] \in FirstAnswer THEN "timeout" ELSE "abandoned")
      /\ UNCHANGED <<pc, disk, conn, before, toServer, toClient, cmd>>
  BY DEF ClientTimeout, Alone, clientOnly, server
<1>2. PICK o : o = IF cpc[c] = "declined" THEN "cancelled"
                   ELSE IF cpc[c] \in FirstAnswer THEN "timeout" ELSE "abandoned"
  OBVIOUS
<1>3. cpc'[c] = "prompt" /\ result'[c] = o
  BY <1>1, <1>2, ClientGoes DEF Settled
<1>4. InStep(c) /\ ClientKnows(c) /\ c \in Clients
  BY DEF Settled, OneClient, Alone
<1>5. ReportTrue(c)' /\ RefusalKept(c)' /\ OthersKept(c)'
  <2>1. o \in {"cancelled", "timeout", "abandoned"} /\ (o = "cancelled" => disk = before[c])
    BY <1>2, <1>4 DEF ClientKnows
  <2>. QED
    BY <1>1, <1>3, <2>1, ClientTells
<1>6. toClient[c] = << >> /\ pc \in {"main", "accept", "down"}
  BY <1>1 DEF Silent
<1>7. CASE pc = "main"
  <2>1. toServer[c] = << >>
    BY <1>1, <1>7 DEF Silent
  <2>2. IdleBut(toServer[c], {})
    BY <2>1 DEF IdleBut
  <2>3. conn[c] = "none"
    BY <1>1, <1>4, <1>7 DEF InStep, InMain, FirstAnswer, LaterAnswer
  <2>4. InStep(c)' /\ ClientKnows(c)'
    BY <1>1, <1>3, <1>6, <1>7, <2>2, <2>3, Prompted
  <2>. QED
    BY <1>5, <2>4 DEF OneClient
<1>8. CASE pc = "accept"
  <2>1. conn[c] \in {"none", "reset"}
    BY <1>1, <1>4, <1>8 DEF Silent
  <2>2. ~ Streaming(c)
    <3>1. cpc[c] = "largeAck" => cmd[c].data \in Contents
      BY <1>4 DEF Settled, IInv, ClientsOK, Uploading
    <3>. QED
      BY <1>1, <2>1, <3>1 DEF Streaming, FirstAnswer, LaterAnswer
  <2>3. Stuck(c)
    BY <1>1, <1>4, <1>6, <1>8, <2>2 DEF InStep, InAccept, Offered, Connecting,
                                        FirstAnswer, LaterAnswer
  <2>4. Stuck(c)'
    BY <1>1, <1>2, <1>3, <2>3 DEF Stuck, FirstAnswer
  <2>5. InStep(c)' /\ ClientKnows(c)'
    BY <1>1, <1>3, <1>8, <2>4 DEF InStep, InAccept, ClientKnows
  <2>. QED
    BY <1>5, <2>5 DEF OneClient
<1>9. pc # "down"
  BY <1>1, <1>4 DEF InStep, InDown, FirstAnswer, LaterAnswer
<1>. QED
  BY <1>6, <1>7, <1>8, <1>9

-----------------------------------------------------------------------------
(* The environment, and the invariant.                                     *)

\* A killed client has an unserved command behind it, a datagram that a handler
\* waits for, or a connection that is cut or holds the whole file.
LEMMA CrashFits ==
  ASSUME NEW c, Alone(c), Settled(c), Crash(c) PROVE OneClient(c)'
<1>1. /\ cpc[c] # "dead" /\ Goto(c, "dead")
      /\ toClient' = [toClient EXCEPT ![c] = << >>]
      /\ conn' = [conn EXCEPT ![c] = IF @ = "open" THEN "cut"
                                     ELSE IF @ = "reset" THEN "none" ELSE @]
      /\ UNCHANGED <<pc, filename, filesize, newFilename, currentTcpPort, peer, disk,
                     toServer, cmd, result, before>>
  BY DEF Crash, server, locals
<1>2. /\ c \in Clients /\ pc \in ServerPlaces
      /\ toClient \in [Clients -> Seq(Datagrams)]
      /\ conn \in [Clients -> {"none", "open", "reset", "cut"} \cup Contents]
      /\ cpc[c] = "largeAck" => cmd[c].data \in Contents
  BY DEF Alone, Settled, IInv, HandlerOK, NetworkOK, TransferOK, ClientsOK, Uploading
<1>3. /\ cpc'[c] = "dead" /\ toClient'[c] = << >>
      /\ conn'[c] = IF conn[c] = "open" THEN "cut"
                    ELSE IF conn[c] = "reset" THEN "none" ELSE conn[c]
  BY <1>1, <1>2, ClientGoes DEF Settled
<1>4. InStep(c) /\ ClientKnows(c) /\ pc' = pc
  BY <1>1 DEF Settled, OneClient
<1>5. \A S : Only(toClient'[c], S)
  BY <1>3 DEF Only
<1>. SUFFICES InStep(c)'
  <2>1. ClientKnows(c)'
    BY <1>3 DEF ClientKnows
  <2>2. ReportTrue(c)' /\ RefusalKept(c)' /\ OthersKept(c)'
    BY <1>1, ClientStands
  <2>. QED
    BY <2>1, <2>2 DEF OneClient
<1>6. CASE pc = "main"
  <2>1. InMain(c)
    BY <1>4, <1>6 DEF InStep
  <2>2. \A m : m \in Request(c) => m \in Request(c)'
    <3>1. SUFFICES ASSUME NEW m \in Request(c) PROVE m \in Request(c)'
      OBVIOUS
    <3>2. /\ result[c] = "shutdown" <=> m.cmd = "SHUTDOWN"
          /\ result[c] \in {"none", "shutdown"}
      BY <1>1, <1>4 DEF Request, Starting, ClientKnows
    <3>3. Starting(c, m)'
      BY <1>1, <1>3, <3>2 DEF Starting
    <3>. QED
      BY <1>1, <1>3, <3>3 DEF Request
  <2>3. IdleBut(toServer'[c], Request(c)')
    BY <1>1, <2>1, <2>2, IdleMore DEF InMain
  <2>4. conn'[c] = "none"
    BY <1>3, <2>1 DEF InMain
  <2>. QED
    BY <1>3, <1>4, <1>5, <1>6, <2>3, <2>4 DEF InStep, InMain
<1>7. CASE pc \in {"confirm", "small", "newName", "renameConfirm"}
  <2>1. NothingDone(c)'
    BY <1>1, <1>3, <1>4, <1>7 DEF InStep, NothingDone
  <2>2. pc = "confirm" => InConfirm(c)'
    BY <1>1, <1>3, <1>4, <1>5 DEF InStep, InConfirm, Only
  <2>3. pc = "small" => InSmall(c)'
    BY <1>1, <1>3, <1>4, <1>5 DEF InStep, InSmall, Only
  <2>4. pc = "newName" => InNewName(c)'
    BY <1>1, <1>3, <1>4, <1>5 DEF InStep, InNewName, Only
  <2>5. pc = "renameConfirm" => InRenameConfirm(c)'
    BY <1>1, <1>3, <1>4, <1>5 DEF InStep, InRenameConfirm, Only
  <2>. QED
    BY <1>4, <1>7, <2>1, <2>2, <2>3, <2>4, <2>5 DEF InStep
<1>8. Expected(c) => Expected(c)'
  BY <1>1, <1>3 DEF Expected
<1>9. Streaming(c) => Streaming(c)'
  BY <1>1, <1>2, <1>3 DEF Streaming
<1>10. CASE pc = "accept"
  <2>1. Stuck(c) => Stuck(c)'
    BY <1>1, <1>3 DEF Stuck
  <2>2. Expected(c) /\ (Offered(c) \/ Connecting(c)) => Stuck(c)'
    BY <1>1, <1>3 DEF Stuck, Expected, Offered, Connecting
  <2>. QED
    BY <1>4, <1>8, <1>9, <1>10, <2>1, <2>2 DEF InStep, InAccept
<1>11. CASE pc = "recv"
  <2>1. peer' = peer /\ InRecv(c)
    BY <1>1, <1>4, <1>11 DEF InStep
  <2>. QED
    BY <1>4, <1>8, <1>9, <1>11, <2>1 DEF InStep, InRecv
<1>12. CASE pc = "down"
  <2>1. InDown(c)'
    BY <1>1, <1>3, <1>4, <1>12 DEF InStep, InDown
  <2>. QED
    BY <1>4, <1>12, <2>1 DEF InStep
<1>. QED
  BY <1>2, <1>6, <1>7, <1>10, <1>11, <1>12 DEF ServerPlaces

\* What the server waits for is lost: it was the only datagram, or one of those
\* for the main loop.
LEMMA CommandLost ==
  ASSUME NEW c, Alone(c), Settled(c), toServer[c] # << >>,
         toServer' = [toServer EXCEPT ![c] = Tail(@)],
         UNCHANGED <<server, conn, toClient, clients>>
  PROVE  InStep(c)'
<1>1. /\ UNCHANGED <<pc, filename, filesize, newFilename, currentTcpPort, peer, disk,
                     conn, toClient, cpc, cmd, result, before>>
  BY DEF server, locals, clients
<1>2. /\ pc \in ServerPlaces /\ toServer[c] \in Seq(ClientDatagrams)
      /\ toServer'[c] = Tail(toServer[c])
  BY DEF Alone, Settled, IInv, HandlerOK, NetworkOK
<1>3. InStep(c) /\ (Small(c)' <=> Small(c))
  BY <1>1 DEF Settled, OneClient, Small
<1>4. \A S : Only(toServer[c], S) => toServer'[c] = << >>
  BY <1>2, TakenOnly
<1>5. CASE pc = "main"
  <2>1. IdleBut(Tail(toServer[c]), Request(c))
    BY <1>2, <1>3, <1>5, IdleTaken DEF InStep, InMain
  <2>2. \A m : m \in Request(c) => m \in Request(c)'
    BY <1>1 DEF Request, Starting
  <2>3. \A m : m \in Answers(c) => m \in Answers(c)'
    BY <1>1, <1>3 DEF Answers, AnswerTrue, UploadKept, Renamed, Files
  <2>4. IdleBut(toServer'[c], Request(c)')
    BY <1>2, <2>1, <2>2, IdleMore
  <2>5. Only(toClient'[c], Answers(c)') \/ TwoAcks(c)'
    BY <1>1, <1>3, <1>5, <2>3, OnlyMore DEF InStep, InMain, TwoAcks
  <2>. QED
    BY <1>1, <1>3, <1>5, <2>4, <2>5 DEF InStep, InMain
<1>6. CASE pc \in {"confirm", "small", "newName", "renameConfirm"}
  <2>1. NothingDone(c)'
    BY <1>1, <1>3, <1>6 DEF InStep, NothingDone
  <2>2. toServer'[c] = << >>
    BY <1>3, <1>4, <1>6 DEF InStep, InConfirm, InSmall, InNewName, InRenameConfirm
  <2>3. pc = "confirm" => InConfirm(c)'
    BY <1>1, <1>3, <2>2 DEF InStep, InConfirm, Only
  <2>4. pc = "small" => InSmall(c)'
    BY <1>1, <1>3, <2>2 DEF InStep, InSmall, Only
  <2>5. pc = "newName" => InNewName(c)'
    BY <1>1, <1>3, <2>2 DEF InStep, InNewName, Only
  <2>6. pc = "renameConfirm" => InRenameConfirm(c)'
    BY <1>1, <1>3, <2>2 DEF InStep, InRenameConfirm, Only
  <2>. QED
    BY <1>1, <1>6, <2>1, <2>3, <2>4, <2>5, <2>6 DEF InStep
<1>7. CASE pc = "accept"
  <2>1. Stuck(c)
    BY <1>3, <1>7 DEF InStep, InAccept, Expected
  <2>2. Stuck(c)'
    BY <1>1, <2>1 DEF Stuck
  <2>. QED
    BY <1>1, <1>7, <2>2 DEF InStep, InAccept
<1>8. pc \notin {"recv", "down"}
  BY <1>3 DEF InStep, InRecv, Expected, InDown
<1>. QED
  BY <1>2, <1>5, <1>6, <1>7, <1>8 DEF ServerPlaces

\* What the client waits for is lost: the server goes on without it, but for an
\* offered port, where it waits for good.
LEMMA AnswerLost ==
  ASSUME NEW c, Alone(c), Settled(c), toClient[c] # << >>,
         toClient' = [toClient EXCEPT ![c] = Tail(@)],
         UNCHANGED <<server, conn, toServer, clients>>
  PROVE  InStep(c)'
<1>1. /\ UNCHANGED <<pc, filename, filesize, newFilename, currentTcpPort, peer, disk,
                     conn, toServer, cpc, cmd, result, before>>
  BY DEF server, locals, clients
<1>2. /\ pc \in ServerPlaces /\ toClient[c] \in Seq(Datagrams)
      /\ toClient'[c] = Tail(toClient[c])
  BY DEF Alone, Settled, IInv, HandlerOK, NetworkOK
<1>3. InStep(c) /\ (Small(c)' <=> Small(c))
  BY <1>1 DEF Settled, OneClient, Small
<1>4. CASE pc = "main"
  <2>1. /\ InMain(c) /\ IdleBut(toServer[c], {})
        /\ Tail(toClient[c]) = << >> \/ TwoAcks(c)
    BY <1>4, MainAnswers
  <2>2. IdleBut(toServer'[c], Request(c)')
    BY <1>1, <2>1, IdleMore
  <2>3. Only(toClient'[c], Answers(c)')
    <3>1. CASE Tail(toClient[c]) = << >>
      BY <1>2, <3>1 DEF Only
    <3>2. CASE TwoAcks(c)
      <4>1. /\ Len(toClient[c]) = 2 /\ IsAck(toClient[c][2], 1)
            /\ cpc[c] \in {"send", "ready"} /\ Small(c) /\ disk = before[c]
        BY <3>2 DEF TwoAcks
      <4>2. /\ Len(toClient'[c]) = 1 /\ toClient'[c][1] = toClient[c][2]
            /\ toClient[c][2] \in Datagrams
        <5>1. PICK q \in Seq(Datagrams) : q = toClient[c]
          BY <1>2
        <5>2. Len(Tail(q)) = 1 /\ Tail(q)[1] = q[2] /\ q[2] \in Datagrams
          BY <4>1, <5>1, SecondLeft
        <5>. QED
          BY <1>2, <5>1, <5>2
      <4>3. PICK a \in Datagrams : a = toClient[c][2]
        BY <4>2
      <4>4. AnswerTrue(c, a)'
        BY <1>1, <1>3, <4>1, <4>3 DEF AnswerTrue
      <4>5. a \in Answers(c)'
        BY <4>4 DEF Answers
      <4>. QED
        BY <4>2, <4>3, <4>5 DEF Only
    <3>. QED
      BY <2>1, <3>1, <3>2
  <2>. QED
    BY <1>1, <1>4, <2>1, <2>2, <2>3 DEF InStep, InMain
<1>5. CASE pc \in {"confirm", "small", "newName", "renameConfirm"}
  <2>1. toClient'[c] = << >>
    BY <1>2, <1>5, HandlerAnswers
  <2>2. NothingDone(c)'
    BY <1>1, <1>3, <1>5 DEF InStep, NothingDone
  <2>3. pc = "confirm" => InConfirm(c)'
    BY <1>1, <1>3, <2>1 DEF InStep, InConfirm, Only
  <2>4. pc = "small" => InSmall(c)'
    BY <1>1, <1>3, <2>1 DEF InStep, InSmall, Only
  <2>5. pc = "newName" => InNewName(c)'
    BY <1>1, <1>3, <2>1 DEF InStep, InNewName, Only
  <2>6. pc = "renameConfirm" => InRenameConfirm(c)'
    BY <1>1, <1>3, <2>1 DEF InStep, InRenameConfirm, Only
  <2>. QED
    BY <1>1, <1>5, <2>2, <2>3, <2>4, <2>5, <2>6 DEF InStep
<1>6. CASE pc = "accept"
  <2>1. Expected(c) /\ Offered(c) /\ toClient'[c] = << >>
    BY <1>2, <1>6, HandlerAnswers
  <2>2. Stuck(c)'
    BY <1>1, <2>1 DEF Stuck, Expected, Offered, FirstAnswer
  <2>. QED
    BY <1>1, <1>6, <2>2 DEF InStep, InAccept
<1>7. CASE pc = "down"
  <2>1. InDown(c)'
    BY <1>1, <1>3, <1>7 DEF InStep, InDown
  <2>. QED
    BY <1>1, <1>7, <2>1 DEF InStep
<1>8. pc # "recv"
  BY <1>3 DEF InStep, InRecv, Streaming
<1>. QED
  BY <1>2, <1>4, <1>5, <1>6, <1>7, <1>8 DEF ServerPlaces

\* So the network keeps the two programs in step.
LEMMA LoseFits ==
  ASSUME NEW c, Alone(c), Settled(c), Lose(c) PROVE OneClient(c)'
<1>1. /\ \/ /\ toServer[c] # << >>
            /\ toServer' = [toServer EXCEPT ![c] = Tail(@)] /\ UNCHANGED toClient
         \/ /\ toClient[c] # << >>
            /\ toClient' = [toClient EXCEPT ![c] = Tail(@)] /\ UNCHANGED toServer
      /\ UNCHANGED <<server, conn, clients>>
  BY DEF Lose
<1>2. InStep(c)'
  BY <1>1, CommandLost, AnswerLost
<1>3. Promises(c)'
  BY <1>1, ServerTells DEF server
<1>. QED
  BY <1>2, <1>3 DEF OneClient, Promises

\* When nothing happens all stays as it is.
LEMMA StutterFits ==
  ASSUME NEW c, Alone(c), Settled(c), UNCHANGED vars PROVE OneClient(c)'
<1>1. UNCHANGED <<pc, filename, filesize, newFilename, currentTcpPort, peer, disk, conn,
                  toServer, toClient, cpc, cmd, result, before>>
  BY DEF vars, server, locals, clients
<1>2. InStep(c)'
  <2>1. InStep(c)
    BY DEF Settled, OneClient
  <2>2. Small(c)' <=> Small(c)
    BY <1>1 DEF Small
  <2>3. InMain(c) => InMain(c)'
    <3>1. \A m : m \in Request(c) => m \in Request(c)'
      BY <1>1 DEF Request, Starting
    <3>2. \A m : m \in Answers(c) => m \in Answers(c)'
      BY <1>1, <2>2 DEF Answers, AnswerTrue, UploadKept, Renamed, Files
    <3>3. TwoAcks(c) => TwoAcks(c)'
      BY <1>1, <2>2 DEF TwoAcks
    <3>. QED
      BY <1>1, <3>1, <3>2, <3>3, IdleMore, OnlyMore DEF InMain
  <2>4. (NothingDone(c) => NothingDone(c)') /\ (InConfirm(c) => InConfirm(c)')
    BY <1>1 DEF NothingDone, InConfirm
  <2>5. (InSmall(c) => InSmall(c)') /\ (InNewName(c) => InNewName(c)')
    BY <1>1, <2>2 DEF InSmall, InNewName
  <2>6. (InRenameConfirm(c) => InRenameConfirm(c)') /\ (InDown(c) => InDown(c)')
    BY <1>1 DEF InRenameConfirm, InDown
  <2>7. (InAccept(c) => InAccept(c)') /\ (InRecv(c) => InRecv(c)')
    BY <1>1, <2>2 DEF InAccept, Stuck, Expected, Offered, Connecting, Streaming, InRecv
  <2>8. pc' = pc
    BY <1>1
  <2>. QED
    BY <2>1, <2>3, <2>4, <2>5, <2>6, <2>7, <2>8 DEF InStep
<1>3. Promises(c)'
  BY <1>1, ServerTells DEF clients
<1>. QED
  BY <1>2, <1>3 DEF OneClient, Promises

\* When the programs start the client is at its prompt and the server in its main
\* loop, with no datagram under way.
LEMMA InitFits == ASSUME NEW c, Alone(c), Init PROVE OneClient(c)
<1>. USE DEF Alone
<1>1. /\ pc = "main" /\ toServer[c] = << >> /\ toClient[c] = << >> /\ conn[c] = "none"
      /\ cpc[c] = "prompt" /\ result[c] = "none" /\ before[c] = disk
  BY DEF Init
<1>2. InStep(c)
  BY <1>1 DEF InStep, InMain, IdleBut, Only
<1>3. ClientKnows(c)
  BY <1>1 DEF ClientKnows
<1>4. ReportTrue(c) /\ RefusalKept(c) /\ OthersKept(c)
  BY <1>1 DEF ReportTrue, RefusalKept, Refused, OthersKept
<1>. QED
  BY <1>2, <1>3, <1>4 DEF OneClient

\* Every step of the server, of its one client and of the network keeps them in
\* step, but one that misreads a content.
LEMMA OneClientInductive ==
  ASSUME NEW c, Alone(c), Settled(c), [Next]_vars, ~ misread'
  PROVE  OneClient(c)'
<1>1. Clients = {c} /\ ~ MayDrop
  BY DEF Alone
<1>2. CASE ServerStep
  BY <1>1, <1>2, ConfirmationMissingFits, SmallFileMissingFits, LargeFileEndsFits,
     handleLsFits, handleSendFits, handleRemoveFits, handleRenameFits,
     handleShutdownFits, IgnoreFits, OverwriteAnsweredFits, SmallFileArrivesFits,
     AcceptConnectionFits, NewNameArrivesFits, RenameAnsweredFits DEF ServerStep
<1>3. CASE UserStep(c)
  BY <1>3, CommandsFit, OverwriteAskedFits, RenameOverwriteAskedFits DEF UserStep
<1>4. CASE ClientStep(c)
  BY <1>4, LsAnsweredFits, SendAnsweredFits, LastAnswersFit, ReadyAnsweredFits,
     ConnectFits, StreamFileFits, ReadyForNewNameFits, NewNameAnsweredFits,
     ClientTimeoutFits DEF ClientStep
<1>5. CASE Crash(c) \/ Lose(c)
  BY <1>5, CrashFits, LoseFits
<1>6. CASE UNCHANGED vars
  BY <1>6, StutterFits
<1>. QED
  BY <1>1, <1>2, <1>3, <1>4, <1>5, <1>6 DEF Next, Drop

\* Only the server misreads.
LEMMA ClientsReadNothing ==
  ASSUME [Next]_vars, ~ ServerStep PROVE UNCHANGED misread
<1>1. ASSUME NEW k, ls(k) \/ send(k) \/ remove(k) \/ rename(k) \/ shutdown(k)
      PROVE  UNCHANGED misread
  BY <1>1 DEF ls, send, remove, rename, shutdown, Issue, server
<1>2. ASSUME NEW k, UserStep(k) PROVE UNCHANGED misread
  BY <1>1, <1>2 DEF UserStep, OverwriteAsked, RenameOverwriteAsked, clientOnly, server
<1>3. ASSUME NEW k, ClientStep(k) PROVE UNCHANGED misread
  BY <1>3 DEF ClientStep, LsAnswered, SendAnswered, DeclineAnswered, ReadyAnswered,
     TransferAnswered, Connect, StreamFile, RemoveAnswered, ReadyForNewName,
     NewNameAnswered, RenameOverwriteAnswered, ClientTimeout, ClientReceives,
     tcpOnly, clientOnly, server
<1>4. ASSUME NEW k, Crash(k) \/ Drop(k) \/ Lose(k) PROVE UNCHANGED misread
  BY <1>4 DEF Crash, Drop, Lose, server
<1>. QED
  BY <1>2, <1>3, <1>4 DEF Next, vars, server

\* What is misread stays so.
LEMMA MisreadStays == ASSUME [Next]_vars, misread PROVE misread'
<1>1. CASE ServerStep
  BY <1>1 DEF ServerStep, ConfirmationMissing, SmallFileMissing, LargeFileEnds,
     handleLs, handleSend, handleRemove, handleRename, handleShutdown, Ignore,
     OverwriteAnswered, SmallFileArrives, AcceptConnection, NewNameArrives,
     RenameAnswered, Serve, Read
<1>2. CASE ~ ServerStep
  BY <1>2, ClientsReadNothing
<1>. QED
  BY <1>1, <1>2

\* A content that does not begin with a command's byte is never misread: the main
\* loop drops it, and the other handlers are not sent it.
TextOnly == \A d \in Contents :
  ReadAs[d].cmd \notin {"LS", "SEND", "REMOVE", "RENAME", "SHUTDOWN"}

LEMMA TextIsRead ==
  ASSUME NEW c, Alone(c), Settled(c), TextOnly, [Next]_vars, ~ misread
  PROVE  ~ misread'
<1>1. /\ Clients = {c} /\ IInv /\ \A m \in FirstOf(toServer[c]) : m \in ClientDatagrams
  BY ServerTakes DEF Alone, Settled
<1>2. ASSUME NEW m \in FirstOf(toServer[c]), Read(m), pc = "main",
             m.cmd \in {"LS", "SEND", "REMOVE", "RENAME", "SHUTDOWN"}
      PROVE  ~ misread'
  BY <1>1, <1>2 DEF TextOnly, ClientDatagrams, Read
<1>3. ASSUME NEW m \in FirstOf(toServer[c]), Receive(c), Read(m),
             pc \in {"confirm", "newName", "renameConfirm"}
      PROVE  ~ misread'
  <2>1. toServer[c] \in Seq(ClientDatagrams) /\ toServer[c] # << >> /\ m = toServer[c][1]
    BY <1>1, ServerTakes
  <2>2. Only(toServer[c], {x \in ClientDatagrams : x.data \notin Contents})
    <3>1. cmd[c].new \notin Contents
      BY <1>1 DEF IInv, ClientsOK
    <3>. QED
      BY <1>3, <3>1 DEF Settled, OneClient, InStep, InConfirm, InNewName, InRenameConfirm, Only
  <2>3. m.data \notin Contents
    BY <2>1, <2>2 DEF Only
  <2>. QED
    BY <1>3, <2>3 DEF Read
<1>4. CASE ServerStep
  <2>1. CASE handleLs(c) \/ handleSend(c) \/ handleRemove(c) \/ handleRename(c)
    BY <1>2, <2>1 DEF handleLs, handleSend, handleRemove, handleRename, Serve
  <2>2. CASE handleShutdown(c)
    BY <1>2, <2>2 DEF handleShutdown
  <2>3. CASE OverwriteAnswered(c) \/ NewNameArrives(c) \/ RenameAnswered(c)
    BY <1>3, <2>3 DEF OverwriteAnswered, NewNameArrives, RenameAnswered
  <2>4. CASE ConfirmationMissing \/ SmallFileMissing \/ LargeFileEnds
    BY <2>4 DEF ConfirmationMissing, SmallFileMissing, LargeFileEnds
  <2>5. CASE Ignore(c) \/ SmallFileArrives(c) \/ AcceptConnection(c)
    BY <2>5 DEF Ignore, SmallFileArrives, AcceptConnection
  <2>. QED
    BY <1>1, <1>4, <2>1, <2>2, <2>3, <2>4, <2>5 DEF ServerStep
<1>5. CASE ~ ServerStep
  BY <1>1, <1>5, ClientsReadNothing DEF Next
<1>. QED
  BY <1>4, <1>5

-----------------------------------------------------------------------------
(* What the two programs promise.                                          *)

\* The server and its one client are in step until a content is misread.
InStepUnlessMisread(c) == IInv /\ (misread \/ OneClient(c))

THEOREM ProgramsStayInStep ==
  ASSUME NEW c, Alone(c) PROVE Spec => []InStepUnlessMisread(c)
<1>1. Init => InStepUnlessMisread(c)
  BY InitIInv, InitFits DEF InStepUnlessMisread
<1>2. InStepUnlessMisread(c) /\ [Next]_vars => InStepUnlessMisread(c)'
  <2>1. SUFFICES ASSUME InStepUnlessMisread(c), [Next]_vars
                 PROVE  InStepUnlessMisread(c)'
    OBVIOUS
  <2>2. IInv /\ IInv'
    BY <2>1, NextIInv DEF InStepUnlessMisread
  <2>3. misread' \/ OneClient(c)'
    BY <2>1, <2>2, MisreadStays, OneClientInductive DEF InStepUnlessMisread, Settled
  <2>. QED
    BY <2>2, <2>3 DEF InStepUnlessMisread
<1>. QED
  BY <1>1, <1>2, PTL DEF Spec

\* When no file begins with the byte of a command, which no text does, nothing is
\* misread, and the promises below are kept without exception.
THEOREM TextIsNeverMisread ==
  ASSUME NEW c, Alone(c), TextOnly PROVE Spec => [](~ misread)
<1>1. Init => ~ misread
  BY DEF Init
<1>2. InStepUnlessMisread(c) /\ ~ misread /\ [Next]_vars => ~ misread'
  BY TextIsRead DEF InStepUnlessMisread, Settled
<1>. QED
  BY <1>1, <1>2, ProgramsStayInStep, PTL DEF Spec

\* What send, rm, mv and ls print of the outcome is so until the next command,
\* however many datagrams were lost on the way: after send's "completed" the
\* file is there, whole or as far as the directory took it.
THEOREM ReportsHold == ASSUME NEW c, Alone(c) PROVE Spec => []ReportsAreTrue
<1>1. InStepUnlessMisread(c) => ReportsAreTrue
  BY DEF InStepUnlessMisread, OneClient, ReportsAreTrue, Alone
<1>. QED
  BY <1>1, ProgramsStayInStep, PTL

\* A command that is declined or refused, or a small file that the server could
\* not store, has changed nothing in the directory.
THEOREM RefusalsHold == ASSUME NEW c, Alone(c) PROVE Spec => []RefusedLeavesDisk
<1>1. InStepUnlessMisread(c) => RefusedLeavesDisk
  BY DEF InStepUnlessMisread, OneClient, RefusalKept, RefusedLeavesDisk, Alone
<1>. QED
  BY <1>1, ProgramsStayInStep, PTL

\* What a handler does to the directory, it does under a name of the command the
\* client typed last, answered or not.
THEOREM OthersHold == ASSUME NEW c, Alone(c) PROVE Spec => []OthersUntouched
<1>1. InStepUnlessMisread(c) => OthersUntouched
  BY DEF InStepUnlessMisread, OneClient, OthersUntouched, Alone
<1>. QED
  BY <1>1, ProgramsStayInStep, PTL

\* The handlers answer as often as the client receives, and never after it has
\* given up: no command finds the answer to an earlier one.
THEOREM AnswersAreTaken == ASSUME NEW c, Alone(c) PROVE Spec => []NoStaleAnswer
<1>1. InStepUnlessMisread(c) => NoStaleAnswer
  BY AtPrompt DEF InStepUnlessMisread, Settled, NoStaleAnswer, Alone
<1>. QED
  BY <1>1, ProgramsStayInStep, PTL

\* sendSmallFile is only called with a file that fits its buffer.
THEOREM BufferHolds == ASSUME NEW c, Alone(c) PROVE Spec => []DatagramHoldsFile
<1>1. InStepUnlessMisread(c) => DatagramHoldsFile
  BY DEF InStepUnlessMisread, OneClient, ClientKnows, DatagramHoldsFile, Alone
<1>. QED
  BY <1>1, ProgramsStayInStep, PTL

\* sendLargeFile connects while receiveLargeFile listens, for the same file.
THEOREM ConnectionsMeet == ASSUME NEW c, Alone(c) PROVE Spec => []ConnectFindsListener
<1>1. InStepUnlessMisread(c) => ConnectFindsListener
  <2>1. Settled(c) /\ cpc[c] = "connect" =>
          /\ pc = "accept" /\ currentTcpPort = cmd[c].port
          /\ filename = cmd[c].name /\ filesize = SizeOf[cmd[c].data]
    BY AtConnect DEF Expected, Connecting
  <2>. QED
    BY <2>1 DEF InStepUnlessMisread, Settled, ConnectFindsListener, Alone
<1>. QED
  BY <1>1, ProgramsStayInStep, PTL

=============================================================================
