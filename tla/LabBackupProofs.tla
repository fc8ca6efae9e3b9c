-------------------------- MODULE LabBackupProofs ---------------------------
(***************************************************************************)
(* Theorems about LabBackup, for any names, contents and bounds, and their *)
(* proofs.  Client and server take turns: a request under way is the one   *)
(* of the command the client is busy with, and an answer under way is the  *)
(* only message.  What a rename leaves behind and shutdowns may queue up   *)
(* before a request, but the main loop does nothing to the directory for   *)
(* them.  A content that is taken for a command (misread) is the exception *)
(* throughout: it is under way while the answer to it is awaited, and what *)
(* it makes the server do is nobody's command.                             *)
(***************************************************************************)
EXTENDS LabBackup, SequenceTheorems, TLAPS

Sending == {"send", "askOverwrite", "declined", "ready", "smallAck", "connect", "stream",
            "largeAck"}
Renaming == {"rename", "askRename", "renameAck"}

\* Where the client stands and its command agree.
CommandFits ==
  /\ client_state \in Sending =>
       cmd.op = "SEND" /\ cmd.name \in Names /\ cmd.data \in Contents
  /\ client_state \in {"connect", "stream", "largeAck"} => IsLarge
  /\ client_state = "ready" => agreed = cmd.name
  /\ client_state = "remove" => cmd.op = "REMOVE" /\ cmd.name \in Names
  /\ client_state \in Renaming =>
       /\ cmd.op = "RENAME" /\ cmd.name \in Names /\ cmd.new \in Names
       /\ agreed \in {Absent, cmd.new}
  /\ result \in {"sent", "completed", "removed", "renamed"} => client_state = "prompt"

\* What the main loop does nothing to the directory for.
Idle(m) == m.cmd \in {"DATA", "SHUTDOWN"}

Confirms(m) ==
  /\ m.cmd = "OVERWRITE"
  /\ \/ client_state = "declined" /\ m.error # 0
     \/ /\ client_state = "ready" /\ m.error = 0
        /\ m.filename = cmd.name /\ m.large = IsLarge
     \/ client_state = "renameAck" /\ (m.error = 0 => agreed = cmd.new /\ blind)

\* The request of the command that the client is busy with; a content that is
\* taken for one is under way only while its own answer is awaited.
Current(m) ==
  \/ m.cmd = "LS" /\ client_state = "ls"
  \/ /\ m.cmd = "SEND" /\ client_state = "send"
     /\ m.filename = cmd.name /\ m.large = IsLarge
  \/ m.cmd = "REMOVE" /\ client_state = "remove" /\ m.filename = cmd.name
  \/ /\ m.cmd = "RENAME" /\ client_state = "rename"
     /\ m.filename = cmd.name /\ disk = before
  \/ Confirms(m)
  \/ m.data \in SmallFiles /\ client_state = "smallAck"

\* In the main loop only the last request is current, followed at most by the
\* new name of a rename, and it has no answer yet.
RequestsInLoop ==
  server_state = "loop" =>
    \A i \in 1..Len(toServer) : ~ Idle(toServer[i]) =>
      /\ Current(toServer[i]) /\ toClient = << >>
      /\ IF client_state = "rename"
         THEN /\ i + 1 = Len(toServer)
              /\ toServer[i + 1].cmd = "DATA" /\ toServer[i + 1].data = cmd.new
         ELSE i = Len(toServer)

\* The user's agreement, if the name is taken.
Free == agreed = cmd.name \/ disk[cmd.name] \notin Contents

GoAhead(a) ==
  /\ a.cmd = "ACK" /\ IsLarge /\ server_state = "accept" /\ conn = "none"
  /\ a.port = current_tcp_port /\ filename = cmd.name /\ Free

Renamed == disk[cmd.new] = before[cmd.name] /\ disk[cmd.name] = Absent

\* What an answer says of the directory is so.
Answers(a) ==
  /\ client_state \in Waits /\ (client_state = "smallAck" => misread)
  /\ client_state = "send" => a.cmd \in {"FILE_EXISTS", "ACK"}
  /\ client_state = "ready" => a.cmd = "ACK"
  /\ client_state \in {"send", "ready"} /\ a.cmd = "ACK" =>
       IF IsLarge THEN GoAhead(a) ELSE server_state # "accept"
  /\ client_state = "send" /\ a.cmd = "FILE_EXISTS" => server_state # "accept"
  /\ client_state = "remove" /\ Accepted(a) => disk[cmd.name] = Absent
  /\ client_state = "rename" =>
       /\ a.cmd \in {"FILE_EXISTS", "ACK"}
       /\ a.cmd = "ACK" /\ a.error # 1 => Renamed
  /\ client_state = "renameAck" /\ a.error # 2 => agreed # Absent
  /\ client_state = "largeAck" /\ Accepted(a) => disk[cmd.name] \in {cmd.data, Damaged}

AnswersFit == Len(toClient) <= 1 /\ (toClient # << >> => Answers(toClient[1]))

Quiet == toServer = << >> /\ toClient = << >>

Streaming ==
  /\ Quiet /\ filename = cmd.name
  /\ \/ conn = "open" /\ client_state = "stream"
     \/ conn \in {cmd.data, "cut"} /\ client_state = "largeAck"

\* The server waits for a connection that will not come.
Stuck ==
  /\ toClient = << >> /\ client_state \in Waits \cup {"prompt"}
  /\ lost > 0 \/ blind \/ misread

\* The server is busy with a content that it took for a command.
Misled == client_state = "smallAck" /\ misread

\* Where the server waits and where the client does agree.
PlacesFit ==
  /\ server_state = "small" =>
       Quiet /\ ((client_state = "send" /\ ~ IsLarge) \/ Misled)
  /\ server_state = "newName" =>
       \/ Misled /\ Quiet
       \/ /\ client_state = "rename" /\ toClient = << >>
          /\ filename = cmd.name /\ disk = before
          /\ Len(toServer) <= 1
          /\ toServer # << >> => toServer[1].cmd = "DATA" /\ toServer[1].data = cmd.new
  /\ server_state = "confirm" =>
       /\ client_state \in Renaming /\ filename = cmd.name /\ new_filename = cmd.new
       /\ toClient # << >> =>
            client_state = "rename" /\ toServer = << >> /\ toClient[1].cmd = "FILE_EXISTS"
       /\ Len(toServer) <= 1 /\ (toServer # << >> => Confirms(toServer[1]))
  /\ server_state = "accept" /\ conn = "none" =>
       \/ Stuck
       \/ /\ toServer = << >> /\ toClient # << >> /\ toClient[1].cmd = "ACK"
          /\ toClient[1].port = current_tcp_port /\ toClient[1].error = 0
          /\ client_state \in {"send", "ready", "renameAck", "smallAck"}
          /\ client_state = "renameAck" => blind
          /\ client_state = "smallAck" => misread
       \/ /\ Quiet /\ client_state = "connect" /\ cmd.port = current_tcp_port
          /\ filename = cmd.name /\ Free
  /\ server_state = "accept" /\ conn # "none" => Streaming /\ Free
  /\ server_state = "recv" => Streaming /\ disk[filename] = Damaged
  /\ server_state \notin {"accept", "recv"} =>
       /\ client_state # "connect"
       /\ conn = IF client_state = "stream" THEN "reset" ELSE "none"

IInv ==
  /\ TypeOK /\ CommandFits /\ RequestsInLoop /\ AnswersFit /\ PlacesFit
  /\ ReportsAreTrue

-----------------------------------------------------------------------------
(* Queues and messages.                                                    *)

\* What taking the first message leaves.
LEMMA TailOf ==
  ASSUME NEW T, NEW q \in Seq(T), q # << >>
  PROVE  /\ Len(q) \in Nat /\ Len(q) > 0 /\ Head(q) = q[1] /\ q[1] \in T
         /\ Tail(q) \in Seq(T) /\ Len(Tail(q)) = Len(q) - 1
         /\ \A i \in 1..Len(Tail(q)) : Tail(q)[i] = q[i + 1]
BY EmptySeq

\* A queue of one message.
LEMMA OnlyOne ==
  ASSUME NEW T, NEW a \in T
  PROVE  /\ Append(<< >>, a) \in Seq(T) /\ Append(<< >>, a) # << >>
         /\ Len(Append(<< >>, a)) = 1 /\ Append(<< >>, a)[1] = a
OBVIOUS

\* A queue without elements.
LEMMA NoneLeft ==
  ASSUME NEW T, NEW q \in Seq(T)
  PROVE  q = << >> <=> Len(q) = 0
BY EmptySeq

\* One or two messages behind those of a queue.
LEMMA Queued ==
  ASSUME NEW T, NEW q \in Seq(T), NEW ms \in Seq(T)
  PROVE  /\ q \o ms \in Seq(T) /\ Len(q \o ms) = Len(q) + Len(ms)
         /\ \A i \in 1..Len(q) : (q \o ms)[i] = q[i]
         /\ \A i \in 1..Len(ms) : (q \o ms)[Len(q) + i] = ms[i]
BY ConcatProperties

\* What FirstOf offers is the head of the queue.
LEMMA First ==
  ASSUME NEW q, NEW m \in FirstOf(q)
  PROVE  q # << >> /\ m = Head(q)
BY DEF FirstOf

\* Messages are of their type.
LEMMA MessageTypes ==
  ASSUME NEW c \in Commands, NEW n \in Names \cup {Absent}, NEW l \in BOOLEAN, NEW e \in Nat
  PROVE  CmdMsg(c, n, l, e) \in Datagrams
BY DEF CmdMsg, Message, Datagrams, Datum

LEMMA DataTypes ==
  ASSUME NEW d \in Datum
  PROVE  DataMsg(d) \in Datagrams
BY DEF DataMsg, Message, Datagrams, Commands

LEMMA ContentTypes ==
  ASSUME NEW d \in SmallFiles
  PROVE  /\ ContentMsg(d) \in Datagrams /\ ContentMsg(d).data = d
         /\ ContentMsg(d).cmd = ReadAs[d].cmd
<1>1. ReadAs[d] \in Readings /\ d \in Datum
  BY LabAssumption DEF Datum, Contents
<1>. QED
  BY <1>1 DEF ContentMsg, Message, Readings, Datagrams, Commands

LEMMA AckTypes ==
  ASSUME NEW e \in Nat
  PROVE  Ack(e) \in Datagrams
BY MessageTypes DEF Ack, Commands

LEMMA PortTypes ==
  ASSUME current_tcp_port \in Nat
  PROVE  PortAck \in Datagrams
BY DEF PortAck, Message, Datagrams, Datum, Commands

-----------------------------------------------------------------------------
(* The server.                                                             *)

ServerOK ==
  /\ server_state \in ServerPlaces
  /\ filename \in Names \cup {Absent} /\ new_filename \in Names \cup {Absent}
  /\ server_state \in {"small", "accept", "recv"} => filename # Absent
  /\ current_tcp_port \in Nat /\ disk \in Disks /\ misread \in BOOLEAN
  /\ conn \in {"none", "open", "cut", "reset"} \cup LargeFiles

QueuesOK == toServer \in Seq(Datagrams) /\ toClient \in Seq(Datagrams)

ClientOK ==
  /\ client_state \in ClientPlaces /\ agreed \in Names \cup {Absent}
  /\ cmd \in [op : Commands \cup {"NONE"}, name : Names \cup {Absent},
              new : Names \cup {Absent}, data : Contents \cup {Absent}, port : Nat]
  /\ result \in Outcomes /\ before \in Disks /\ blind \in BOOLEAN
  /\ typed \in Nat /\ lost \in Nat

LEMMA TypeParts == TypeOK <=> ServerOK /\ QueuesOK /\ ClientOK
BY DEF TypeOK, ServerOK, QueuesOK, ClientOK

\* What the server leaves alone.
LEMMA ClientStays ==
  ASSUME UNCHANGED serverOnly
  PROVE  /\ UNCHANGED <<client_state, cmd, agreed, result, before, blind, typed, lost>>
         /\ ClientOK => ClientOK'
BY DEF serverOnly, client, ClientOK

\* What was once taken for a command remains so.
Noted == misread' \in BOOLEAN /\ (misread => misread')

LEMMA ReadNoted ==
  ASSUME IInv, NEW m, Read(m)
  PROVE  Noted /\ (m.data \in SmallFiles => misread')
<1>1. misread \in BOOLEAN
  BY DEF IInv, TypeOK
<1>2. misread' = (misread \/ m.data \in SmallFiles)
  BY DEF Read
<1>. QED
  BY <1>1, <1>2 DEF Noted

LEMMA StillNoted ==
  ASSUME IInv, UNCHANGED misread
  PROVE  Noted
BY DEF IInv, TypeOK, Noted

\* The parts of the invariant that speak of the client hold on while the server
\* does not touch the directory, or the client is busy.
LEMMA ServerKeeps ==
  ASSUME IInv, UNCHANGED serverOnly, Noted, client_state # "prompt" \/ UNCHANGED disk
  PROVE  CommandFits' /\ ReportsAreTrue'
<1>1. UNCHANGED <<client_state, cmd, agreed, result, before, blind, typed, lost>>
  BY ClientStays
<1>2. CommandFits'
  BY <1>1 DEF IInv, CommandFits, IsLarge
<1>3. ReportsAreTrue'
  BY <1>1 DEF IInv, CommandFits, ReportsAreTrue, Noted
<1>. QED
  BY <1>2, <1>3

\* A request in the main loop is the client's current one, and nothing but the
\* new name of a rename comes behind it.
LEMMA LoopHead ==
  ASSUME IInv, NEW m \in FirstOf(toServer), server_state = "loop", ~ Idle(m)
  PROVE  /\ m \in Datagrams /\ Current(m) /\ toClient = << >>
         /\ Tail(toServer) \in Seq(Datagrams)
         /\ client_state # "rename" => Tail(toServer) = << >>
         /\ client_state = "rename" => /\ Len(Tail(toServer)) = 1
                                       /\ Tail(toServer)[1].cmd = "DATA"
                                       /\ Tail(toServer)[1].data = cmd.new
<1>1. toServer \in Seq(Datagrams) /\ toServer # << >> /\ m = Head(toServer)
  BY First DEF IInv, TypeOK
<1>2. /\ Len(toServer) \in Nat /\ Len(toServer) > 0 /\ m = toServer[1] /\ m \in Datagrams
      /\ Tail(toServer) \in Seq(Datagrams) /\ Len(Tail(toServer)) = Len(toServer) - 1
      /\ \A i \in 1..Len(Tail(toServer)) : Tail(toServer)[i] = toServer[i + 1]
  BY <1>1, TailOf
<1>3. /\ Current(m) /\ toClient = << >>
      /\ IF client_state = "rename"
         THEN Len(toServer) = 2 /\ toServer[2].cmd = "DATA" /\ toServer[2].data = cmd.new
         ELSE Len(toServer) = 1
  <2>1. 1 \in 1..Len(toServer) /\ ~ Idle(toServer[1])
    BY <1>2
  <2>2. /\ Current(toServer[1]) /\ toClient = << >>
        /\ IF client_state = "rename"
           THEN /\ 1 + 1 = Len(toServer)
                /\ toServer[1 + 1].cmd = "DATA" /\ toServer[1 + 1].data = cmd.new
           ELSE 1 = Len(toServer)
    BY <2>1 DEF IInv, RequestsInLoop
  <2>. QED
    BY <1>2, <2>2
<1>4. Tail(toServer) = << >> <=> Len(Tail(toServer)) = 0
  BY <1>2, NoneLeft
<1>. QED
  BY <1>2, <1>3, <1>4

\* The first message of an idle queue leaves an idle queue.
LEMMA TailKept ==
  ASSUME IInv, toServer # << >>, toServer' = Tail(toServer), server_state = "loop",
         UNCHANGED <<client_state, cmd, agreed, before, blind, disk, toClient>>
  PROVE  RequestsInLoop'
<1>1. toServer \in Seq(Datagrams)
  BY DEF IInv, TypeOK
<1>2. /\ Len(toServer) \in Nat /\ Len(toServer) > 0
      /\ Len(toServer') = Len(toServer) - 1
      /\ \A i \in 1..Len(toServer') : toServer'[i] = toServer[i + 1]
  BY <1>1, TailOf
<1>3. \A m : Current(m) => Current(m)'
  BY DEF Current, Confirms, IsLarge
<1>4. SUFFICES ASSUME NEW i \in 1..Len(toServer'), ~ Idle(toServer'[i])
               PROVE  /\ Current(toServer[i])' /\ toClient' = << >>
                      /\ IF client_state' = "rename"
                         THEN /\ i + 1 = Len(toServer')
                              /\ toServer'[i + 1].cmd = "DATA"
                              /\ toServer'[i + 1].data = cmd'.new
                         ELSE i = Len(toServer')
  BY DEF RequestsInLoop, Idle
<1>5. i + 1 \in 1..Len(toServer) /\ toServer'[i] = toServer[i + 1]
  BY <1>2
<1>6. /\ Current(toServer[i + 1]) /\ toClient = << >>
      /\ IF client_state = "rename"
         THEN /\ i + 2 = Len(toServer)
              /\ toServer[i + 2].cmd = "DATA" /\ toServer[i + 2].data = cmd.new
         ELSE i + 1 = Len(toServer)
  BY <1>4, <1>5 DEF IInv, RequestsInLoop
<1>7. client_state = "rename" =>
        i + 1 \in 1..Len(toServer') /\ toServer'[i + 1] = toServer[i + 2]
  BY <1>2, <1>6
<1>8. Current(toServer[i])'
  BY <1>3, <1>5, <1>6 DEF Current, Confirms, IsLarge
<1>9. /\ toClient' = << >>
      /\ IF client_state' = "rename"
         THEN /\ i + 1 = Len(toServer')
              /\ toServer'[i + 1].cmd = "DATA" /\ toServer'[i + 1].data = cmd'.new
         ELSE i = Len(toServer')
  <2>1. /\ i \in Int /\ toClient' = toClient /\ cmd' = cmd
        /\ client_state' = client_state
    BY <1>2
  <2> DEFINE n == Len(toServer)
  <2>n. n \in Nat /\ Len(toServer') = n - 1
    BY <1>2
  <2>2. CASE client_state = "rename"
    <3>0. i + 2 = n
      BY <2>2, <1>6
    <3>1. i + 1 = Len(toServer')
      BY ONLY <2>1, <2>n, <3>0
    <3>2. toServer'[i + 1].cmd = "DATA" /\ toServer'[i + 1].data = cmd.new
      BY <2>2, <1>6, <1>7
    <3>. QED
      BY <2>1, <2>2, <3>1, <3>2, <1>5, <1>6
  <2>3. CASE client_state # "rename"
    <3>0. i + 1 = n
      BY <2>3, <1>6
    <3>1. i = Len(toServer')
      BY ONLY <2>1, <2>n, <3>0
    <3>. QED
      BY <2>1, <2>3, <3>1, <1>5, <1>6
  <2>. QED
    BY <2>2, <2>3
<1>. QED
  BY <1>8, <1>9

\* Back in the main loop, answered or not.
LEMMA BackInLoop ==
  ASSUME IInv, UNCHANGED serverOnly, Noted, client_state # "prompt",
         server_state \notin {"accept", "recv"}, UNCHANGED conn,
         server_state' = "loop", ServerOK', QueuesOK', AnswersFit',
         \A i \in 1..Len(toServer') : Idle(toServer'[i])
  PROVE  IInv'
<1>1. UNCHANGED <<client_state, cmd, agreed, result, before, blind, typed, lost>>
      /\ ClientOK'
  BY ClientStays, TypeParts DEF IInv
<1>2. CommandFits' /\ ReportsAreTrue'
  BY ServerKeeps
<1>3. TypeOK'
  BY <1>1 DEF TypeOK, ServerOK, QueuesOK, ClientOK
<1>4. RequestsInLoop'
  BY DEF RequestsInLoop, Idle
<1>5. PlacesFit'
  BY <1>1 DEF IInv, PlacesFit
<1>. QED
  BY <1>2, <1>3, <1>4, <1>5 DEF IInv

\* What messages carry.
LEMMA Fields ==
  /\ \A e : Ack(e).cmd = "ACK" /\ Ack(e).error = e
  /\ PortAck.cmd = "ACK" /\ PortAck.error = 0 /\ PortAck.port = current_tcp_port
  /\ \A c, n, l, e : /\ CmdMsg(c, n, l, e).cmd = c /\ CmdMsg(c, n, l, e).filename = n
                     /\ CmdMsg(c, n, l, e).large = l /\ CmdMsg(c, n, l, e).error = e
  /\ \A d : DataMsg(d).cmd = "DATA" /\ DataMsg(d).data = d
BY DEF Ack, PortAck, CmdMsg, DataMsg, Message

\* The only answer under way is the one that was just sent.
LEMMA SentAlone ==
  ASSUME NEW a \in Datagrams, toClient = << >>, sendto(a)
  PROVE  /\ toClient' \in Seq(Datagrams) /\ toClient' # << >>
         /\ Len(toClient') = 1 /\ toClient'[1] = a
BY OnlyOne DEF sendto

\* An empty queue has no request.
LEMMA NoRequest ==
  ASSUME NEW q, q = << >>
  PROVE  \A i \in 1..Len(q) : Idle(q[i])
OBVIOUS

\* LS: the list is sent.
LEMMA LsKept ==
  ASSUME IInv, ProcessLs
  PROVE  IInv'
<1>1. PICK m \in FirstOf(toServer) :
        /\ Serve(m, "LS") /\ sendto(DataMsg(Files))
        /\ UNCHANGED <<own, conn, serverOnly>>
  BY DEF ProcessLs
<1>2. server_state = "loop" /\ ~ Idle(m) /\ m.cmd = "LS" /\ toServer' = Tail(toServer)
  BY <1>1 DEF Serve, Idle
<1>3. Current(m) /\ toClient = << >> /\ toServer' = << >>
  BY <1>2, LoopHead DEF Current, Confirms
<1>a. Noted /\ (m.data \in SmallFiles => misread')
  BY <1>1, ReadNoted DEF Serve
<1>4. client_state = "ls" \/ (client_state = "smallAck" /\ misread')
  BY <1>2, <1>3, <1>a DEF Current, Confirms
<1>5. DataMsg(Files) \in Datagrams
  BY DataTypes DEF Files, Datum
<1>6. toClient' \in Seq(Datagrams) /\ Len(toClient') = 1
  BY <1>1, <1>3, <1>5, SentAlone
<1>7. UNCHANGED <<server_state, filename, new_filename, current_tcp_port, disk, conn>>
      /\ UNCHANGED serverOnly
  BY <1>1 DEF own, locals
<1>8. client_state' = "ls" \/ (client_state' = "smallAck" /\ misread')
  BY <1>4, <1>7, ClientStays
<1>9. ServerOK' /\ QueuesOK'
  BY <1>3, <1>6, <1>7, <1>a, TypeParts DEF IInv, ServerOK, QueuesOK, Noted
<1>10. AnswersFit'
  BY <1>6, <1>8 DEF AnswersFit, Answers, Waits
<1>11. \A i \in 1..Len(toServer') : Idle(toServer'[i])
  BY <1>3, NoRequest
<1>. QED
  BY <1>2, <1>4, <1>7, <1>a, <1>9, <1>10, <1>11, BackInLoop

\* Behind a request comes at most what the main loop does nothing for.
LEMMA LoopRest ==
  ASSUME IInv, NEW m \in FirstOf(toServer), server_state = "loop", ~ Idle(m),
         toServer' = Tail(toServer)
  PROVE  /\ client_state # "prompt" /\ toServer' \in Seq(Datagrams)
         /\ \A i \in 1..Len(toServer') : Idle(toServer'[i])
<1>1. Current(m) /\ toServer' \in Seq(Datagrams)
  BY LoopHead
<1>2. \A i \in 1..Len(toServer') : Idle(toServer'[i])
  <2>1. CASE client_state = "rename"
    <3>1. Len(toServer') = 1 /\ toServer'[1].cmd = "DATA"
      BY <2>1, LoopHead
    <3>. QED
      BY <3>1 DEF Idle
  <2>2. CASE client_state # "rename"
    <3>1. toServer' = << >>
      BY <2>2, LoopHead
    <3>. QED
      BY <3>1, NoRequest
  <2>. QED
    BY <2>1, <2>2
<1>3. client_state # "prompt"
  BY <1>1 DEF Current, Confirms
<1>. QED
  BY <1>1, <1>2, <1>3

\* An answer to a request of the main loop, after which it goes on.
LEMMA AnsweredInLoop ==
  ASSUME IInv, NEW m \in FirstOf(toServer), server_state = "loop", ~ Idle(m),
         toServer' = Tail(toServer), NEW a \in Datagrams, sendto(a), Return,
         UNCHANGED <<current_tcp_port, conn, serverOnly>>, Noted,
         disk' \in Disks,
         toClient' # << >> /\ toClient'[1] = a => Answers(toClient[1])'
  PROVE  IInv'
<1>1. Current(m) /\ toClient = << >> /\ toServer' \in Seq(Datagrams)
  BY LoopHead
<1>2. client_state # "prompt" /\ \A i \in 1..Len(toServer') : Idle(toServer'[i])
  BY LoopRest
<1>3. toClient' \in Seq(Datagrams) /\ toClient' # << >> /\ Len(toClient') = 1
      /\ toClient'[1] = a
  BY <1>1, SentAlone
<1>4. AnswersFit'
  BY <1>3 DEF AnswersFit
<1>5. ServerOK' /\ QueuesOK'
  BY <1>1, <1>3, TypeParts DEF IInv, ServerOK, QueuesOK, Return, ServerPlaces, Noted
<1>. QED
  BY <1>2, <1>4, <1>5, BackInLoop DEF Return

\* A request of the main loop that is not answered.
LEMMA SilentInLoop ==
  ASSUME IInv, NEW m \in FirstOf(toServer), server_state = "loop", ~ Idle(m),
         toServer' = Tail(toServer), Return,
         UNCHANGED <<toClient, disk, current_tcp_port, conn, serverOnly>>, Noted
  PROVE  IInv'
<1>1. toClient = << >> /\ toServer' \in Seq(Datagrams)
  BY LoopHead
<1>2. client_state # "prompt" /\ \A i \in 1..Len(toServer') : Idle(toServer'[i])
  BY LoopRest
<1>3. AnswersFit'
  BY <1>1 DEF AnswersFit
<1>4. ServerOK' /\ QueuesOK'
  BY <1>1, TypeParts DEF IInv, ServerOK, QueuesOK, Return, ServerPlaces, Noted
<1>. QED
  BY <1>2, <1>3, <1>4, BackInLoop DEF Return

\* A transfer is offered to the client that asked for it, or to the one whose
\* confirmation was not set.
LEMMA ListenKept ==
  ASSUME IInv, NEW m \in FirstOf(toServer), server_state = "loop", ~ Idle(m),
         toServer' = Tail(toServer), client_state # "rename",
         NEW n \in Names, Listen(n), UNCHANGED serverOnly, Noted,
         \/ client_state \in {"send", "ready"} /\ IsLarge /\ n = cmd.name /\ Free
         \/ client_state = "renameAck" /\ blind /\ agreed # Absent
         \/ client_state = "smallAck" /\ misread'
  PROVE  IInv'
<1>1. CASE Return /\ UNCHANGED <<toClient, disk, current_tcp_port, conn>>
  BY <1>1, SilentInLoop
<1>2. CASE /\ server_state' = "accept" /\ filename' = n /\ new_filename' = Absent
           /\ sendto(PortAck) /\ UNCHANGED <<disk, current_tcp_port, conn>>
  <2>1. toClient = << >> /\ toServer' = << >>
    BY LoopHead
  <2>2. PortAck \in Datagrams
    BY PortTypes DEF IInv, TypeOK
  <2>3. /\ toClient' \in Seq(Datagrams) /\ toClient' # << >>
        /\ Len(toClient') = 1 /\ toClient'[1] = PortAck
    BY <1>2, <2>1, <2>2, SentAlone
  <2>4. UNCHANGED <<client_state, cmd, agreed, result, before, blind, typed, lost>>
        /\ ClientOK'
    BY ClientStays, TypeParts DEF IInv
  <2>a. Absent \notin Names
    BY LabAssumption
  <2>5. ServerOK' /\ QueuesOK'
    BY <1>2, <2>1, <2>3, <2>a, TypeParts DEF IInv, ServerOK, QueuesOK, ServerPlaces, Noted
  <2>6. TypeOK'
    BY <2>4, <2>5 DEF TypeOK, ServerOK, QueuesOK, ClientOK
  <2>7. CommandFits' /\ ReportsAreTrue'
    BY <1>2, ServerKeeps
  <2>8. conn = "none"
    BY DEF IInv, PlacesFit
  <2>9. PortAck.cmd = "ACK" /\ PortAck.error = 0 /\ PortAck.port = current_tcp_port
    BY Fields
  <2>10. Answers(toClient[1])'
    BY <1>2, <2>3, <2>4, <2>8, <2>9 DEF Answers, GoAhead, Free, Accepted, IsLarge, Waits
  <2>11. AnswersFit'
    BY <2>3, <2>10 DEF AnswersFit
  <2>12. PlacesFit'
    BY <1>2, <2>1, <2>3, <2>4, <2>8, <2>9 DEF PlacesFit
  <2>. QED
    BY <1>2, <2>6, <2>7, <2>11, <2>12 DEF IInv, RequestsInLoop
<1>. QED
  BY <1>1, <1>2 DEF Listen

\* The types of what messages carry.
LEMMA DatagramFields ==
  ASSUME NEW m \in Datagrams
  PROVE  /\ m.cmd \in Commands /\ m.filename \in Names \cup {Absent} /\ m.large \in BOOLEAN
         /\ m.port \in Nat /\ m.error \in Nat /\ m.data \in Datum
BY DEF Datagrams

\* SEND: refused, offered a connection, or the content awaited.
LEMMA SendKept ==
  ASSUME IInv, ProcessSend
  PROVE  IInv'
<1>1. PICK m \in FirstOf(toServer) :
        /\ Serve(m, "SEND")
        /\ \/ /\ IsThere(m.filename)
              /\ Return /\ sendto(CmdMsg("FILE_EXISTS", Absent, m.large, 0))
              /\ UNCHANGED <<disk, current_tcp_port, conn>>
           \/ /\ ~ IsThere(m.filename) /\ ~ m.large
              /\ server_state' = "small" /\ filename' = m.filename /\ new_filename' = Absent
              /\ UNCHANGED <<toClient, disk, current_tcp_port, conn>>
           \/ ~ IsThere(m.filename) /\ m.large /\ Listen(m.filename)
        /\ UNCHANGED serverOnly
  BY DEF ProcessSend
<1>2. server_state = "loop" /\ ~ Idle(m) /\ m.cmd = "SEND" /\ toServer' = Tail(toServer)
  BY <1>1 DEF Serve, Idle
<1>3. m \in Datagrams /\ Current(m) /\ toClient = << >> /\ toServer' = << >>
  BY <1>2, LoopHead DEF Current, Confirms
<1>a. Noted /\ (m.data \in SmallFiles => misread')
  BY <1>1, ReadNoted DEF Serve
<1>4. /\ \/ /\ client_state = "send" /\ m.filename = cmd.name /\ m.large = IsLarge
            /\ cmd.name \in Names
         \/ client_state = "smallAck" /\ misread'
      /\ m.large \in BOOLEAN /\ m.filename \in Names \cup {Absent}
  BY <1>2, <1>3, <1>a, DatagramFields DEF Current, Confirms, IInv, CommandFits, Sending
<1>5. CASE /\ IsThere(m.filename)
           /\ Return /\ sendto(CmdMsg("FILE_EXISTS", Absent, m.large, 0))
           /\ UNCHANGED <<disk, current_tcp_port, conn>>
  <2>1. CmdMsg("FILE_EXISTS", Absent, m.large, 0) \in Datagrams
    BY <1>4, MessageTypes DEF Commands
  <2>2. CmdMsg("FILE_EXISTS", Absent, m.large, 0).cmd = "FILE_EXISTS"
    BY Fields
  <2>3. /\ server_state' = "loop"
        /\ client_state' = "send" \/ (client_state' = "smallAck" /\ misread')
    BY <1>1, <1>4, <1>5, ClientStays DEF Return
  <2>4. disk' \in Disks
    BY <1>5 DEF IInv, TypeOK
  <2>5. toClient' # << >> /\ toClient'[1] = CmdMsg("FILE_EXISTS", Absent, m.large, 0)
          => Answers(toClient[1])'
    BY <2>2, <2>3 DEF Answers, Waits
  <2>. QED
    BY <1>1, <1>2, <1>a, <1>5, <2>1, <2>4, <2>5, AnsweredInLoop
<1>6. CASE /\ ~ IsThere(m.filename) /\ ~ m.large
           /\ server_state' = "small" /\ filename' = m.filename /\ new_filename' = Absent
           /\ UNCHANGED <<toClient, disk, current_tcp_port, conn>>
  <2>1. UNCHANGED <<client_state, cmd, agreed, result, before, blind, typed, lost>>
        /\ ClientOK'
    BY <1>1, ClientStays, TypeParts DEF IInv
  <2>2. ServerOK' /\ QueuesOK'
    BY <1>3, <1>4, <1>a, <1>6, TypeParts
    DEF IInv, ServerOK, QueuesOK, ServerPlaces, IsThere, Noted
  <2>3. TypeOK'
    BY <2>1, <2>2 DEF TypeOK, ServerOK, QueuesOK, ClientOK
  <2>4. CommandFits' /\ ReportsAreTrue'
    BY <1>1, <1>a, <1>6, ServerKeeps
  <2>5. PlacesFit'
    BY <1>2, <1>3, <1>4, <1>6, <2>1 DEF IInv, PlacesFit, IsLarge, Quiet, Misled
  <2>. QED
    BY <1>3, <1>6, <2>3, <2>4, <2>5 DEF IInv, RequestsInLoop, AnswersFit
<1>7. CASE ~ IsThere(m.filename) /\ m.large /\ Listen(m.filename)
  <2>1. Absent \notin Contents
    BY LabAssumption
  <2>2. m.filename \in Names /\ (client_state = "send" => IsLarge /\ Free)
    BY <1>4, <1>7, <2>1 DEF Free, IsThere
  <2>. QED
    BY <1>1, <1>2, <1>4, <1>a, <1>7, <2>2, ListenKept
<1>. QED
  BY <1>1, <1>5, <1>6, <1>7

\* OVERWRITE: refused, answered, offered a connection, or passed over.
LEMMA OverwriteKept ==
  ASSUME IInv, ProcessOverwrite
  PROVE  IInv'
<1>1. PICK m \in FirstOf(toServer) :
        /\ Serve(m, "OVERWRITE")
        /\ \/ m.error # 0 /\ Answer(2)
           \/ /\ m.error = 0 /\ m.filename = Absent
              /\ Return /\ UNCHANGED <<toClient, disk, current_tcp_port, conn>>
           \/ m.error = 0 /\ m.filename # Absent /\ m.large /\ Listen(m.filename)
           \/ m.error = 0 /\ m.filename # Absent /\ ~ m.large /\ Answer(0)
        /\ UNCHANGED serverOnly
  BY DEF ProcessOverwrite
<1>2. /\ server_state = "loop" /\ ~ Idle(m) /\ m.cmd = "OVERWRITE"
      /\ toServer' = Tail(toServer)
  BY <1>1 DEF Serve, Idle
<1>3. m \in Datagrams /\ Current(m)
  BY <1>2, LoopHead
<1>a. Noted /\ (m.data \in SmallFiles => misread')
  BY <1>1, ReadNoted DEF Serve
<1>4. /\ Confirms(m) \/ (client_state = "smallAck" /\ misread')
      /\ m.filename \in Names \cup {Absent} /\ client_state # "rename"
  BY <1>2, <1>3, <1>a, DatagramFields DEF Current, Confirms
<1>5. UNCHANGED <<client_state, cmd, agreed>>
  BY <1>1, ClientStays
<1>6. disk \in Disks /\ Absent \notin Names
  BY LabAssumption DEF IInv, TypeOK
<1>7. client_state = "renameAck" /\ m.error = 0 => blind /\ agreed # Absent
  BY <1>4, <1>6 DEF Confirms, IInv, CommandFits, Renaming
<1>8. CASE m.error # 0 /\ Answer(2)
  <2>1. Ack(2) \in Datagrams /\ Ack(2).cmd = "ACK" /\ Ack(2).error = 2
    BY AckTypes, Fields
  <2>2. /\ client_state' \in {"declined", "renameAck", "smallAck"}
        /\ client_state' = "smallAck" => misread'
    BY <1>4, <1>5, <1>8 DEF Confirms
  <2>3. toClient' # << >> /\ toClient'[1] = Ack(2) => Answers(toClient[1])'
    BY <2>1, <2>2 DEF Answers, Waits
  <2>. QED
    BY <1>1, <1>2, <1>6, <1>a, <1>8, <2>1, <2>3, AnsweredInLoop DEF Answer
<1>9. CASE /\ m.error = 0 /\ m.filename = Absent
           /\ Return /\ UNCHANGED <<toClient, disk, current_tcp_port, conn>>
  BY <1>1, <1>2, <1>a, <1>9, SilentInLoop
<1>10. CASE m.error = 0 /\ m.filename # Absent /\ m.large /\ Listen(m.filename)
  <2>1. client_state = "ready" => m.filename = cmd.name /\ IsLarge /\ Free
    BY <1>4, <1>10 DEF Confirms, Free, IInv, CommandFits
  <2>2. \/ client_state \in {"ready", "renameAck"}
        \/ client_state = "smallAck" /\ misread'
    BY <1>4, <1>10 DEF Confirms
  <2>. QED
    BY <1>1, <1>2, <1>4, <1>7, <1>a, <1>10, <2>1, <2>2, ListenKept
<1>11. CASE m.error = 0 /\ m.filename # Absent /\ ~ m.large /\ Answer(0)
  <2>1. Ack(0) \in Datagrams /\ Ack(0).cmd = "ACK" /\ Ack(0).error = 0
    BY AckTypes, Fields
  <2>2. client_state = "ready" => ~ IsLarge
    BY <1>4, <1>11 DEF Confirms
  <2>3. \/ client_state \in {"ready", "renameAck"}
        \/ client_state = "smallAck" /\ misread'
    BY <1>4, <1>11 DEF Confirms
  <2>4. server_state' = "loop"
    BY <1>11 DEF Answer, Return
  <2>5. toClient' # << >> /\ toClient'[1] = Ack(0) => Answers(toClient[1])'
    BY <1>5, <1>7, <1>11, <2>1, <2>2, <2>3, <2>4 DEF Answers, Waits, IsLarge
  <2>. QED
    BY <1>1, <1>2, <1>6, <1>a, <1>11, <2>1, <2>5, AnsweredInLoop DEF Answer
<1>. QED
  BY <1>1, <1>8, <1>9, <1>10, <1>11

\* REMOVE: the file is gone when that is answered.
LEMMA RemoveKept ==
  ASSUME IInv, ProcessRemove
  PROVE  IInv'
<1>1. PICK m \in FirstOf(toServer) :
        /\ Serve(m, "REMOVE")
        /\ \/ Answer(1)
           \/ m.filename = Absent /\ Files = {} /\ Answer(0)
           \/ /\ m.filename \in Files
              /\ disk' = [disk EXCEPT ![m.filename] = Absent]
              /\ Return /\ sendto(Ack(0)) /\ UNCHANGED <<current_tcp_port, conn>>
        /\ UNCHANGED serverOnly
  BY DEF ProcessRemove
<1>2. server_state = "loop" /\ ~ Idle(m) /\ m.cmd = "REMOVE" /\ toServer' = Tail(toServer)
  BY <1>1 DEF Serve, Idle
<1>3. m \in Datagrams /\ Current(m)
  BY <1>2, LoopHead
<1>a. Noted /\ (m.data \in SmallFiles => misread')
  BY <1>1, ReadNoted DEF Serve
<1>4. \/ client_state = "remove" /\ m.filename = cmd.name /\ cmd.name \in Names
      \/ client_state = "smallAck" /\ misread'
  BY <1>2, <1>3, <1>a DEF Current, Confirms, IInv, CommandFits
<1>5. UNCHANGED <<client_state, cmd, agreed>>
  BY <1>1, ClientStays
<1>6. disk \in Disks
  BY DEF IInv, TypeOK
<1>7. CASE Answer(1)
  <2>1. Ack(1) \in Datagrams /\ Ack(1).cmd = "ACK" /\ Ack(1).error = 1
    BY AckTypes, Fields
  <2>2. toClient' # << >> /\ toClient'[1] = Ack(1) => Answers(toClient[1])'
    BY <1>4, <1>5, <2>1 DEF Answers, Waits, Accepted
  <2>. QED
    BY <1>1, <1>2, <1>6, <1>a, <1>7, <2>1, <2>2, AnsweredInLoop DEF Answer
<1>8. CASE /\ m.filename \in Files /\ disk' = [disk EXCEPT ![m.filename] = Absent]
           /\ Return /\ sendto(Ack(0)) /\ UNCHANGED <<current_tcp_port, conn>>
  <2>1. Ack(0) \in Datagrams
    BY AckTypes
  <2>2. disk' \in Disks /\ (client_state = "remove" => disk'[cmd.name] = Absent)
    BY <1>4, <1>6, <1>8 DEF Disks, Files
  <2>3. toClient' # << >> /\ toClient'[1] = Ack(0) => Answers(toClient[1])'
    BY <1>4, <1>5, <2>2 DEF Answers, Waits
  <2>. QED
    BY <1>1, <1>2, <1>a, <1>8, <2>1, <2>2, <2>3, AnsweredInLoop
<1>9. CASE m.filename = Absent /\ Answer(0)
  <2>1. client_state = "smallAck" /\ misread'
    BY <1>4, <1>9, LabAssumption
  <2>2. Ack(0) \in Datagrams
    BY AckTypes
  <2>3. toClient' # << >> /\ toClient'[1] = Ack(0) => Answers(toClient[1])'
    BY <1>5, <2>1 DEF Answers, Waits
  <2>. QED
    BY <1>1, <1>2, <1>6, <1>a, <1>9, <2>2, <2>3, AnsweredInLoop DEF Answer
<1>. QED
  BY <1>1, <1>7, <1>8, <1>9

\* RENAME: a file that is not there is told of, or the new name awaited.
LEMMA RenameKept ==
  ASSUME IInv, ProcessRename
  PROVE  IInv'
<1>1. PICK m \in FirstOf(toServer) :
        /\ Serve(m, "RENAME")
        /\ \/ ~ IsThere(m.filename) /\ Answer(1)
           \/ /\ IsThere(m.filename)
              /\ server_state' = "newName" /\ filename' = m.filename
              /\ new_filename' = Absent
              /\ UNCHANGED <<toClient, disk, current_tcp_port, conn>>
        /\ UNCHANGED serverOnly
  BY DEF ProcessRename
<1>2. server_state = "loop" /\ ~ Idle(m) /\ m.cmd = "RENAME" /\ toServer' = Tail(toServer)
  BY <1>1 DEF Serve, Idle
<1>3. /\ m \in Datagrams /\ Current(m) /\ toClient = << >>
      /\ toServer' \in Seq(Datagrams) /\ m.filename \in Names \cup {Absent}
      /\ client_state # "rename" => toServer' = << >>
      /\ client_state = "rename" =>
           /\ Len(toServer') = 1
           /\ toServer'[1].cmd = "DATA" /\ toServer'[1].data = cmd.new
  BY <1>2, LoopHead, DatagramFields
<1>a. Noted /\ (m.data \in SmallFiles => misread')
  BY <1>1, ReadNoted DEF Serve
<1>4. \/ /\ client_state = "rename" /\ m.filename = cmd.name /\ cmd.name \in Names
         /\ disk = before
      \/ client_state = "smallAck" /\ misread'
  BY <1>2, <1>3, <1>a DEF Current, Confirms, IInv, CommandFits, Renaming
<1>5. UNCHANGED <<client_state, cmd, agreed, result, before, blind, typed, lost>>
      /\ ClientOK'
  BY <1>1, ClientStays, TypeParts DEF IInv
<1>6. CASE Answer(1)
  <2>1. Ack(1) \in Datagrams /\ Ack(1).cmd = "ACK" /\ Ack(1).error = 1
    BY AckTypes, Fields
  <2>2. toClient' # << >> /\ toClient'[1] = Ack(1) => Answers(toClient[1])'
    BY <1>4, <1>5, <2>1 DEF Answers, Waits
  <2>3. disk' \in Disks
    BY <1>6 DEF Answer, IInv, TypeOK
  <2>. QED
    BY <1>1, <1>2, <1>a, <1>6, <2>1, <2>2, <2>3, AnsweredInLoop DEF Answer
<1>7. CASE /\ server_state' = "newName" /\ filename' = m.filename /\ new_filename' = Absent
           /\ UNCHANGED <<toClient, disk, current_tcp_port, conn>>
  <2>1. ServerOK' /\ QueuesOK'
    BY <1>3, <1>a, <1>7, TypeParts DEF IInv, ServerOK, QueuesOK, ServerPlaces, Noted
  <2>2. TypeOK'
    BY <1>5, <2>1 DEF TypeOK, ServerOK, QueuesOK, ClientOK
  <2>3. CommandFits' /\ ReportsAreTrue'
    BY <1>1, <1>a, <1>7, ServerKeeps
  <2>4. PlacesFit'
    BY <1>2, <1>3, <1>4, <1>5, <1>7 DEF IInv, PlacesFit, Misled, Quiet
  <2>. QED
    BY <1>3, <1>7, <2>2, <2>3, <2>4 DEF IInv, RequestsInLoop, AnswersFit
<1>. QED
  BY <1>1, <1>6, <1>7

\* The main loop does nothing to the directory, or ends.
LEMMA PassedOver ==
  ASSUME IInv, server_state = "loop", server_state' \in {"loop", "down"},
         toServer' \in Seq(Datagrams), RequestsInLoop',
         UNCHANGED <<locals, disk, current_tcp_port, toClient, conn, serverOnly>>, Noted
  PROVE  IInv'
<1>1. UNCHANGED <<client_state, cmd, agreed, result, before, blind, typed, lost>>
      /\ ClientOK'
  BY ClientStays, TypeParts DEF IInv
<1>2. ServerOK' /\ QueuesOK'
  BY TypeParts DEF IInv, ServerOK, QueuesOK, ServerPlaces, locals, Noted
<1>3. TypeOK'
  BY <1>1, <1>2 DEF TypeOK, ServerOK, QueuesOK, ClientOK
<1>4. CommandFits' /\ ReportsAreTrue'
  BY ServerKeeps
<1>5. toClient # << >> => Answers(toClient[1])'
  BY <1>1 DEF IInv, AnswersFit, Answers, GoAhead, Accepted, Renamed, IsLarge, Noted
<1>6. AnswersFit' /\ PlacesFit'
  BY <1>1, <1>5 DEF IInv, AnswersFit, PlacesFit
<1>. QED
  BY <1>3, <1>4, <1>6 DEF IInv

LEMMA ShutdownKept ==
  ASSUME IInv, ProcessShutdown
  PROVE  IInv'
<1>1. PICK m \in FirstOf(toServer) :
      /\ Read(m) /\ server_state = "loop" /\ server_state' = "down" /\ toServer' = << >>
      /\ UNCHANGED <<locals, disk, current_tcp_port, toClient, conn, serverOnly>>
  BY DEF ProcessShutdown
<1>2. toServer' \in Seq(Datagrams) /\ RequestsInLoop'
  BY <1>1 DEF RequestsInLoop
<1>. QED
  BY <1>1, <1>2, ReadNoted, PassedOver

LEMMA UnknownKept ==
  ASSUME IInv, UnknownCommand
  PROVE  IInv'
<1>1. PICK m \in FirstOf(toServer) :
        /\ server_state = "loop" /\ toServer' = Tail(toServer)
        /\ server_state' \in {"loop", "down"}
        /\ UNCHANGED <<locals, disk, current_tcp_port, toClient, conn, misread, serverOnly>>
  BY DEF UnknownCommand
<1>2. server_state = "loop" /\ toServer' = Tail(toServer) /\ toServer # << >>
  BY <1>1, First
<1>3. Tail(toServer) \in Seq(Datagrams)
  BY <1>2, TailOf DEF IInv, TypeOK
<1>4. UNCHANGED <<client_state, cmd, agreed, before, blind, disk, toClient>>
  BY <1>1, ClientStays
<1>5. RequestsInLoop'
  BY <1>2, <1>4, TailKept
<1>. QED
  BY <1>1, <1>2, <1>3, <1>5, StillNoted, PassedOver

\* An answer to a client that waits, from outside the main loop.
LEMMA AnsweredElsewhere ==
  ASSUME IInv, client_state # "prompt", toClient = << >>, toServer' = << >>,
         server_state \notin {"accept", "recv"},
         NEW a \in Datagrams, sendto(a), Return, disk' \in Disks,
         UNCHANGED <<current_tcp_port, conn, serverOnly>>, Noted,
         toClient' # << >> /\ toClient'[1] = a => Answers(toClient[1])'
  PROVE  IInv'
<1>1. toClient' \in Seq(Datagrams) /\ toClient' # << >> /\ Len(toClient') = 1
      /\ toClient'[1] = a
  BY SentAlone
<1>2. AnswersFit'
  BY <1>1 DEF AnswersFit
<1>3. ServerOK' /\ QueuesOK'
  BY <1>1, TypeParts DEF IInv, ServerOK, QueuesOK, Return, ServerPlaces, Noted
<1>4. \A i \in 1..Len(toServer') : Idle(toServer'[i])
  BY NoRequest
<1>. QED
  BY <1>2, <1>3, <1>4, BackInLoop DEF Return

\* Nothing that the handler of a small file receives has been sent.
LEMMA SmallKept ==
  ASSUME IInv, SmallFileReceive
  PROVE  IInv'
<1>1. PICK m \in FirstOf(toServer) \cup {Absent}, opens \in BOOLEAN :
        /\ server_state = "small"
        /\ toServer' = IF m = Absent THEN toServer ELSE Tail(toServer)
        /\ disk' \in IF m # Absent /\ opens
                      THEN {[disk EXCEPT ![filename] = w] : w \in Written(m.data)}
                      ELSE {disk}
        /\ sendto(Ack(IF m # Absent /\ opens THEN 0 ELSE 1)) /\ Return
        /\ UNCHANGED <<current_tcp_port, conn, misread, serverOnly>>
  BY DEF SmallFileReceive
<1>2. /\ toServer = << >> /\ toClient = << >>
      /\ \/ client_state = "send" /\ ~ IsLarge
         \/ client_state = "smallAck" /\ misread
  BY <1>1 DEF IInv, PlacesFit, Quiet, Misled
<1>3. m = Absent
  BY <1>2, First
<1>4. toServer' = << >> /\ disk' = disk /\ sendto(Ack(1))
  BY <1>1, <1>2, <1>3
<1>5. Ack(1) \in Datagrams /\ Ack(1).cmd = "ACK"
  BY AckTypes, Fields
<1>6. UNCHANGED <<client_state, cmd, misread>> /\ server_state' = "loop"
  BY <1>1, <1>2, ClientStays DEF Return
<1>7. toClient' # << >> /\ toClient'[1] = Ack(1) => Answers(toClient[1])'
  BY <1>2, <1>5, <1>6 DEF Answers, Waits, IsLarge
<1>8. disk' \in Disks
  BY <1>4 DEF IInv, TypeOK
<1>. QED
  BY <1>1, <1>2, <1>4, <1>5, <1>7, <1>8, StillNoted, AnsweredElsewhere

\* The connection is the one of the client that sends the file.
LEMMA AcceptKept ==
  ASSUME IInv, AcceptConnection
  PROVE  IInv'
<1>1. /\ server_state = "accept" /\ conn # "none"
      /\ UNCHANGED <<current_tcp_port, toServer, toClient, misread, serverOnly>>
  BY DEF AcceptConnection
<1>2. Streaming /\ Quiet
  BY <1>1 DEF IInv, PlacesFit, Streaming
<1>3. filename = cmd.name /\ cmd.name \in Names /\ cmd.data \in LargeFiles
      /\ client_state \in {"stream", "largeAck"}
      /\ (client_state = "stream" => conn = "open")
      /\ (client_state = "largeAck" => conn \in {cmd.data, "cut"})
  BY <1>2 DEF IInv, CommandFits, Streaming, Sending, IsLarge
<1>4. UNCHANGED <<client_state, cmd, agreed, result, before, blind, typed, lost>>
      /\ ClientOK'
  BY <1>1, ClientStays, TypeParts DEF IInv
<1>5. CommandFits' /\ ReportsAreTrue'
  BY <1>1, <1>3, StillNoted, ServerKeeps
<1>6. CASE /\ server_state' = "recv" /\ disk' = [disk EXCEPT ![filename] = Damaged]
           /\ UNCHANGED <<locals, conn>>
  <2>1. disk' \in Disks /\ disk'[filename] = Damaged
    BY <1>3, <1>6 DEF IInv, TypeOK, Disks
  <2>2. ServerOK' /\ QueuesOK'
    BY <1>1, <1>6, <2>1, TypeParts
    DEF IInv, ServerOK, QueuesOK, ServerPlaces, locals
  <2>3. TypeOK'
    BY <1>4, <2>2 DEF TypeOK, ServerOK, QueuesOK, ClientOK
  <2>4. filename' = filename /\ conn' = conn
    BY <1>6 DEF locals
  <2>5. Streaming'
    BY <1>1, <1>2, <1>4, <2>4 DEF Streaming, Quiet
  <2>6. PlacesFit'
    BY <1>6, <2>1, <2>4, <2>5 DEF PlacesFit
  <2>. QED
    BY <1>1, <1>2, <1>5, <1>6, <2>3, <2>6 DEF IInv, RequestsInLoop, AnswersFit, Quiet
<1>7. CASE /\ Return /\ conn' = IF conn = "open" THEN "reset" ELSE "none"
           /\ UNCHANGED disk
  <2>1. ServerOK' /\ QueuesOK'
    BY <1>1, <1>7, TypeParts DEF IInv, ServerOK, QueuesOK, ServerPlaces, Return
  <2>2. TypeOK'
    BY <1>4, <2>1 DEF TypeOK, ServerOK, QueuesOK, ClientOK
  <2>3. cmd.data # "open"
    BY <1>3, LabAssumption DEF Contents
  <2>4. client_state' # "connect"
        /\ conn' = IF client_state' = "stream" THEN "reset" ELSE "none"
    BY <1>3, <1>4, <1>7, <2>3
  <2>5. PlacesFit'
    BY <1>7, <2>4 DEF PlacesFit, Return
  <2>6. toServer' = << >> /\ toClient' = << >>
    BY <1>1, <1>2 DEF Quiet
  <2>7. RequestsInLoop'
    BY <2>6, NoRequest DEF RequestsInLoop
  <2>. QED
    BY <1>5, <2>2, <2>5, <2>6, <2>7 DEF IInv, AnswersFit
<1>. QED
  BY <1>6, <1>7 DEF AcceptConnection

\* The file that is stored is the one that was sent, or a part of it.
LEMMA LargeKept ==
  ASSUME IInv, LargeFileEnds
  PROVE  IInv'
<1>1. /\ server_state = "recv" /\ conn # "open"
      /\ conn' = "none" /\ current_tcp_port' = current_tcp_port + 1
      /\ Return /\ sendto(Ack(0)) /\ UNCHANGED <<toServer, misread, serverOnly>>
  BY DEF LargeFileEnds
<1>w. PICK w \in Written(conn) : disk' = [disk EXCEPT ![filename] = w]
  BY DEF LargeFileEnds
<1>2. toServer = << >> /\ toClient = << >> /\ filename = cmd.name
      /\ conn \in {cmd.data, "cut"} /\ client_state = "largeAck"
  BY <1>1 DEF IInv, PlacesFit, Streaming, Quiet
<1>3. cmd.name \in Names /\ cmd.data \in LargeFiles
  BY <1>2 DEF IInv, CommandFits, Sending, IsLarge
<1>4. UNCHANGED <<client_state, cmd, agreed, result, before, blind, typed, lost>>
      /\ ClientOK'
  BY <1>1, ClientStays, TypeParts DEF IInv
<1>5. CommandFits' /\ ReportsAreTrue'
  BY <1>1, <1>2, StillNoted, ServerKeeps
<1>6. Ack(0) \in Datagrams
  BY AckTypes
<1>7. /\ toClient' \in Seq(Datagrams) /\ Len(toClient') = 1
  BY <1>1, <1>2, <1>6, SentAlone
<1>8. disk' \in Disks /\ disk'[cmd.name] \in {cmd.data, Damaged}
  <2>1. w \in {cmd.data, Damaged}
    BY <1>w, <1>2, LabAssumption DEF Written, Contents
  <2>2. w \in Contents \cup {Absent, Damaged}
    BY <1>3, <2>1 DEF Contents
  <2>. QED
    BY <1>w, <1>2, <1>3, <2>1, <2>2 DEF IInv, TypeOK, Disks
<1>9. ServerOK' /\ QueuesOK'
  BY <1>1, <1>2, <1>7, <1>8, TypeParts DEF IInv, ServerOK, QueuesOK, ServerPlaces, Return
<1>10. TypeOK'
  BY <1>4, <1>9 DEF TypeOK, ServerOK, QueuesOK, ClientOK
<1>11. AnswersFit'
  BY <1>2, <1>4, <1>7, <1>8 DEF AnswersFit, Answers, Waits
<1>12. PlacesFit'
  BY <1>1, <1>2, <1>4 DEF PlacesFit, Return
<1>13. RequestsInLoop'
  BY <1>1, <1>2, NoRequest DEF RequestsInLoop
<1>. QED
  BY <1>5, <1>10, <1>11, <1>12, <1>13 DEF IInv

\* What a rename makes of the directory.
LEMMA MoveIsARename ==
  ASSUME NEW d \in Disks, NEW old \in Names, NEW new \in Names
  PROVE  /\ Move(d, old, new) \in Disks
         /\ old # new => /\ Move(d, old, new)[new] = d[old]
                         /\ Move(d, old, new)[old] = Absent
BY DEF Move, Disks

\* A handler whose next datagram has not come gives up: what is to come will be
\* read by the main loop.
LEMMA NotYetKept ==
  ASSUME IInv, NotYetCome
  PROVE  IInv'
<1>1. /\ server_state \in {"newName", "confirm"} /\ Return
      /\ UNCHANGED <<toServer, toClient, disk, current_tcp_port, conn, misread, serverOnly>>
  BY DEF NotYetCome
<1>2. /\ client_state \in Renaming \/ (client_state = "smallAck" /\ toClient = << >>)
      /\ toClient # << >> => client_state = "rename" /\ toServer = << >>
      /\ Len(toServer) <= 1
      /\ toServer # << >> => Idle(toServer[1]) \/ Confirms(toServer[1])
  <2>1. CASE Misled /\ Quiet
    BY <2>1 DEF Misled, Quiet
  <2>2. CASE ~ (Misled /\ Quiet)
    BY <1>1, <2>2 DEF IInv, PlacesFit, Renaming, Idle
  <2>. QED
    BY <2>1, <2>2
<1>3. UNCHANGED <<client_state, cmd, agreed, result, before, blind, typed, lost>>
      /\ ClientOK'
  BY <1>1, ClientStays, TypeParts DEF IInv
<1>4. ServerOK' /\ QueuesOK'
  BY <1>1, TypeParts DEF IInv, ServerOK, QueuesOK, ServerPlaces, Return
<1>5. TypeOK'
  BY <1>3, <1>4 DEF TypeOK, ServerOK, QueuesOK, ClientOK
<1>6. CommandFits' /\ ReportsAreTrue'
  BY <1>1, StillNoted, ServerKeeps DEF Renaming
<1>7. toClient # << >> => Answers(toClient[1])'
  BY <1>1, <1>2, <1>3 DEF IInv, AnswersFit, Answers, Renamed
<1>8. AnswersFit'
  BY <1>1, <1>7 DEF IInv, AnswersFit
<1>9. conn' = "none" /\ client_state' # "connect" /\ client_state' # "stream"
  BY <1>1, <1>2, <1>3 DEF IInv, PlacesFit, Renaming
<1>10. PlacesFit'
  BY <1>1, <1>9 DEF PlacesFit, Return
<1>11. ASSUME NEW i \in 1..Len(toServer), ~ Idle(toServer[i])
       PROVE  /\ i = Len(toServer) /\ toClient = << >> /\ client_state # "rename"
              /\ toServer[i].cmd = "OVERWRITE" /\ Confirms(toServer[i])'
  <2>1. Len(toServer) \in Nat /\ (toServer = << >> <=> Len(toServer) = 0)
    BY LenProperties, NoneLeft DEF IInv, TypeOK
  <2>2. i = 1 /\ Len(toServer) = 1 /\ toServer # << >>
    <3>1. Len(toServer) <= 1
      BY <1>2
    <3>2. i = 1 /\ Len(toServer) = 1
      BY <1>11, <2>1, <3>1
    <3>. QED
      BY <2>1, <3>2
  <2>3. Confirms(toServer[1]) /\ toClient = << >>
    BY <1>2, <1>11, <2>2
  <2>4. toServer[1].cmd = "OVERWRITE" /\ client_state # "rename"
    BY <2>3 DEF Confirms
  <2>. QED
    BY <1>1, <1>3, <2>2, <2>3, <2>4 DEF Confirms, IsLarge
<1>12. RequestsInLoop'
  BY <1>1, <1>3, <1>11 DEF RequestsInLoop, Idle, Current, Confirms
<1>. QED
  BY <1>5, <1>6, <1>8, <1>10, <1>12 DEF IInv

\* The new name is free and the file gets it, or it is taken and the user asked.
LEMMA NewNameKept ==
  ASSUME IInv, NewNameCame
  PROVE  IInv'
<1>1. PICK m \in FirstOf(toServer), n \in Names :
        /\ server_state = "newName" /\ toServer' = Tail(toServer) /\ Read(m)
        /\ n \in NamesIn(m.data)
        /\ \/ /\ n \in Files
              /\ server_state' = "confirm" /\ new_filename' = n
              /\ sendto(CmdMsg("FILE_EXISTS", Absent, FALSE, 0))
              /\ UNCHANGED <<filename, disk>>
           \/ n \notin Files /\ Rename(disk, filename, n) /\ Return
        /\ UNCHANGED <<current_tcp_port, conn, serverOnly>>
  BY DEF NewNameCame, NamesIn
<1>2. /\ toServer \in Seq(Datagrams) /\ toServer # << >> /\ m = Head(toServer)
  BY <1>1, First DEF IInv, TypeOK
<1>3. /\ Len(toServer) \in Nat /\ Len(toServer) > 0 /\ m = toServer[1]
      /\ Tail(toServer) \in Seq(Datagrams) /\ Len(Tail(toServer)) = Len(toServer) - 1
  BY <1>2, TailOf
<1>4. /\ client_state = "rename" /\ toClient = << >> /\ filename = cmd.name
      /\ disk = before /\ Len(toServer) <= 1 /\ m.data = cmd.new
  BY <1>1, <1>2, <1>3 DEF IInv, PlacesFit, Quiet
<1>a. Noted /\ n = cmd.new
  <2>1. cmd.new \in Names
    BY <1>4 DEF IInv, CommandFits, Renaming
  <2>. QED
    BY <1>1, <1>4, <2>1, ReadNoted DEF NamesIn
<1>5. Tail(toServer) = << >>
  <2>1. Len(Tail(toServer)) = 0
    BY <1>3, <1>4
  <2>. QED
    BY <1>3, <2>1, NoneLeft
<1>6. cmd.name \in Names /\ cmd.new \in Names /\ disk \in Disks
  BY <1>4 DEF IInv, CommandFits, Renaming, TypeOK
<1>7. UNCHANGED <<client_state, cmd, agreed, result, before, blind, typed, lost>>
      /\ ClientOK'
  BY <1>1, ClientStays, TypeParts DEF IInv
<1>8. CASE /\ server_state' = "confirm" /\ new_filename' = n
           /\ sendto(CmdMsg("FILE_EXISTS", Absent, FALSE, 0))
           /\ UNCHANGED <<filename, disk>>
  <2>1. CmdMsg("FILE_EXISTS", Absent, FALSE, 0) \in Datagrams
        /\ CmdMsg("FILE_EXISTS", Absent, FALSE, 0).cmd = "FILE_EXISTS"
    <3>1. CmdMsg("FILE_EXISTS", Absent, FALSE, 0) \in Datagrams
      BY DEF CmdMsg, Message, Datagrams, Datum, Commands
    <3>2. CmdMsg("FILE_EXISTS", Absent, FALSE, 0).cmd = "FILE_EXISTS"
      BY DEF CmdMsg, Message
    <3>. QED
      BY <3>1, <3>2
  <2>2. /\ toClient' \in Seq(Datagrams) /\ Len(toClient') = 1
        /\ toClient'[1].cmd = "FILE_EXISTS"
    BY <1>4, <1>8, <2>1, SentAlone
  <2>3. toServer' = << >>
    BY <1>1, <1>5
  <2>4. ServerOK' /\ QueuesOK'
    BY <1>1, <1>a, <1>4, <1>6, <1>8, <2>2, <2>3, TypeParts
    DEF IInv, ServerOK, QueuesOK, ServerPlaces, Noted
  <2>5. TypeOK'
    BY <1>7, <2>4 DEF TypeOK, ServerOK, QueuesOK, ClientOK
  <2>6. CommandFits' /\ ReportsAreTrue'
    BY <1>1, <1>a, <1>4, ServerKeeps
  <2>7. AnswersFit'
    BY <1>4, <1>7, <2>2 DEF AnswersFit, Answers, Waits
  <2>8. Len(toServer') <= 1
    BY <2>3
  <2>9. PlacesFit'
    BY <1>1, <1>a, <1>4, <1>7, <1>8, <2>2, <2>3, <2>8 DEF IInv, PlacesFit, Renaming
  <2>. QED
    BY <1>8, <2>5, <2>6, <2>7, <2>9 DEF IInv, RequestsInLoop
<1>9. CASE n \notin Files /\ Rename(disk, filename, n) /\ Return
  <2>1. CASE disk[filename] # Absent /\ disk' = Move(disk, filename, n)
             /\ sendto(Ack(0))
    <3>1. filename # n
      BY <1>a, <1>4, <1>6, <1>9, <2>1 DEF Files
    <3>2. disk' \in Disks /\ disk'[cmd.new] = before[cmd.name] /\ disk'[cmd.name] = Absent
      BY <1>a, <1>4, <1>6, <2>1, <3>1, MoveIsARename
    <3>3. Ack(0) \in Datagrams /\ Ack(0).cmd = "ACK"
      BY AckTypes, Fields
    <3>4. toClient' # << >> /\ toClient'[1] = Ack(0) => Answers(toClient[1])'
      BY <1>4, <1>7, <3>2, <3>3 DEF Answers, Waits, Renamed
    <3>. QED
      BY <1>1, <1>a, <1>4, <1>5, <1>9, <2>1, <3>2, <3>3, <3>4, AnsweredElsewhere
  <2>2. CASE disk' = disk /\ sendto(Ack(1))
    <3>1. Ack(1) \in Datagrams /\ Ack(1).cmd = "ACK" /\ Ack(1).error = 1
      BY AckTypes, Fields
    <3>2. toClient' # << >> /\ toClient'[1] = Ack(1) => Answers(toClient[1])'
      BY <1>4, <1>7, <3>1 DEF Answers, Waits
    <3>. QED
      BY <1>1, <1>a, <1>4, <1>5, <1>6, <1>9, <2>2, <3>1, <3>2, AnsweredElsewhere
  <2>. QED
    BY <1>9, <2>1, <2>2 DEF Rename
<1>. QED
  BY <1>1, <1>8, <1>9

\* The user's confirmation of a rename is obeyed.
LEMMA ConfirmedKept ==
  ASSUME IInv, ConfirmationCame
  PROVE  IInv'
<1>1. PICK m \in FirstOf(toServer) :
        /\ server_state = "confirm" /\ toServer' = Tail(toServer) /\ Read(m)
        /\ \/ /\ m.cmd = "OVERWRITE" /\ m.error = 0
              /\ \E d \in {disk, [disk EXCEPT ![new_filename] = Absent]} :
                   Rename(d, filename, new_filename)
              /\ Return /\ UNCHANGED <<current_tcp_port, conn>>
           \/ ~ (m.cmd = "OVERWRITE" /\ m.error = 0) /\ Answer(2)
        /\ UNCHANGED serverOnly
  BY DEF ConfirmationCame
<1>2. /\ toServer \in Seq(Datagrams) /\ toServer # << >> /\ m = Head(toServer)
  BY <1>1, First DEF IInv, TypeOK
<1>3. /\ Len(toServer) \in Nat /\ Len(toServer) > 0 /\ m = toServer[1]
      /\ Tail(toServer) \in Seq(Datagrams) /\ Len(Tail(toServer)) = Len(toServer) - 1
  BY <1>2, TailOf
<1>4. /\ client_state \in Renaming /\ toClient = << >> /\ filename = cmd.name
      /\ new_filename = cmd.new /\ Len(toServer) <= 1 /\ Confirms(m)
  BY <1>1, <1>2, <1>3 DEF IInv, PlacesFit
<1>a. Noted
  BY <1>1, ReadNoted
<1>5. Tail(toServer) = << >>
  <2>1. Len(Tail(toServer)) = 0
    BY <1>3, <1>4
  <2>. QED
    BY <1>3, <2>1, NoneLeft
<1>6. /\ cmd.name \in Names /\ cmd.new \in Names /\ disk \in Disks
      /\ client_state = "renameAck" /\ (m.error = 0 => agreed = cmd.new)
      /\ Absent \notin Names
  BY <1>4, LabAssumption DEF IInv, CommandFits, Renaming, TypeOK, Confirms
<1>7. UNCHANGED <<client_state, cmd, agreed, result, before, blind, typed, lost>>
  BY <1>1, ClientStays
<1>8. \A e \in Nat : e = 2 \/ agreed # Absent =>
        (toClient' # << >> /\ toClient'[1] = Ack(e) => Answers(toClient[1])')
  <2>1. \A e \in Nat : Ack(e).cmd = "ACK" /\ Ack(e).error = e
    BY Fields
  <2>. QED
    BY <1>6, <1>7, <2>1 DEF Answers, Waits
<1>9. CASE /\ m.error = 0
           /\ \E d \in {disk, [disk EXCEPT ![new_filename] = Absent]} :
                Rename(d, filename, new_filename)
           /\ Return /\ UNCHANGED <<current_tcp_port, conn>>
  <2>1. PICK d \in {disk, [disk EXCEPT ![new_filename] = Absent]} :
          Rename(d, filename, new_filename)
    BY <1>9
  <2>2. d \in Disks
    BY <1>4, <1>6, <2>1 DEF Disks
  <2>3. agreed # Absent
    BY <1>6, <1>9
  <2>4. CASE disk' = Move(d, filename, new_filename) /\ sendto(Ack(0))
    <3>1. disk' \in Disks
      BY <1>4, <1>6, <2>2, <2>4, MoveIsARename
    <3>2. Ack(0) \in Datagrams
      BY AckTypes
    <3>. QED
      BY <1>1, <1>4, <1>5, <1>6, <1>8, <1>9, <2>3, <2>4, <3>1, <3>2,
         <1>a, AnsweredElsewhere
  <2>5. CASE disk' = d /\ sendto(Ack(1))
    <3>1. Ack(1) \in Datagrams
      BY AckTypes
    <3>. QED
      BY <1>1, <1>4, <1>5, <1>6, <1>8, <1>9, <2>2, <2>3, <2>5, <3>1, <1>a, AnsweredElsewhere
  <2>. QED
    BY <2>1, <2>4, <2>5 DEF Rename
<1>10. CASE Answer(2)
  <2>1. Ack(2) \in Datagrams
    BY AckTypes
  <2>. QED
    BY <1>1, <1>4, <1>5, <1>6, <1>8, <1>10, <2>1, <1>a, AnsweredElsewhere DEF Answer
<1>. QED
  BY <1>1, <1>9, <1>10

-----------------------------------------------------------------------------
(* The client.                                                             *)

\* What the client leaves alone.
LEMMA ServerStays ==
  ASSUME IInv, UNCHANGED server, conn' \in {"none", "open", "cut", "reset"} \cup LargeFiles
  PROVE  /\ UNCHANGED <<server_state, filename, new_filename, current_tcp_port, disk,
                        misread>>
         /\ ServerOK'
BY TypeParts DEF IInv, ServerOK, server, own, locals

\* A client that does not wait has no answer under way.
LEMMA NoAnswer ==
  ASSUME IInv, client_state \notin Waits
  PROVE  toClient = << >>
BY DEF IInv, AnswersFit, Answers

\* In the main loop the queue is idle when the client sends nothing, or has its
\* answer.
LEMMA QueueIdle ==
  ASSUME IInv, server_state = "loop",
         \/ client_state \notin {"ls", "send", "remove", "rename", "declined", "ready",
                                 "renameAck", "smallAck"}
         \/ toClient # << >>
  PROVE  \A i \in 1..Len(toServer) : Idle(toServer[i])
BY DEF IInv, RequestsInLoop, Current, Confirms

\* A client at the prompt, or asking its user, finds the server in one of these
\* places.
LEMMA AtRest ==
  ASSUME IInv, client_state \in {"prompt", "askOverwrite", "askRename"}
  PROVE  /\ toClient = << >> /\ conn = "none"
         /\ server_state \in {"loop", "down", "accept", "confirm"}
         /\ server_state = "accept" => Stuck /\ client_state = "prompt"
         /\ server_state = "confirm" => client_state = "askRename" /\ toServer = << >>
<1>1. toClient = << >>
  BY NoAnswer DEF Waits
<1>2. server_state \in ServerPlaces
  BY DEF IInv, TypeOK
<1>3. server_state # "recv" /\ (server_state = "accept" => conn = "none")
  BY DEF IInv, PlacesFit, Streaming
<1>4. server_state = "accept" => Stuck /\ client_state = "prompt"
  BY <1>1, <1>3 DEF IInv, PlacesFit, Stuck, Waits
<1>5. server_state = "confirm" => client_state = "askRename" /\ toServer = << >>
  BY DEF IInv, PlacesFit, Renaming, Confirms
<1>6. server_state \notin {"small", "newName"} /\ conn = "none"
  BY <1>3 DEF IInv, PlacesFit, Misled
<1>. QED
  BY <1>1, <1>2, <1>3, <1>4, <1>5, <1>6 DEF ServerPlaces

\* One message, and two.
LEMMA OneMessage ==
  ASSUME NEW a \in Datagrams
  PROVE  <<a>> \in Seq(Datagrams) /\ Len(<<a>>) = 1 /\ <<a>>[1] = a
OBVIOUS

LEMMA TwoMessages ==
  ASSUME NEW a \in Datagrams, NEW b \in Datagrams
  PROVE  /\ <<a, b>> \in Seq(Datagrams) /\ Len(<<a, b>>) = 2
         /\ <<a, b>>[1] = a /\ <<a, b>>[2] = b
OBVIOUS

\* What the client sends comes to an idle queue as its current request.
LEMMA SentToLoop ==
  ASSUME IInv, NEW ms \in Seq(Datagrams), sendCommand(ms), server_state' = server_state,
         server_state = "loop" => \A i \in 1..Len(toServer) : Idle(toServer[i]),
         toClient' = << >>, Len(ms) \in {1, 2},
         ~ Idle(ms[1]) => Current(ms[1])',
         ~ Idle(ms[1]) /\ client_state' = "rename" =>
           Len(ms) = 2 /\ ms[2].cmd = "DATA" /\ ms[2].data = cmd'.new,
         ~ Idle(ms[1]) /\ client_state' # "rename" => Len(ms) = 1,
         Len(ms) = 2 => Idle(ms[2])
  PROVE  toServer' \in Seq(Datagrams) /\ RequestsInLoop'
<1>1. toServer \in Seq(Datagrams)
  BY DEF IInv, TypeOK
<1>2. /\ toServer \o ms \in Seq(Datagrams) /\ Len(toServer \o ms) = Len(toServer) + Len(ms)
      /\ \A i \in 1..Len(toServer) : (toServer \o ms)[i] = toServer[i]
      /\ \A i \in 1..Len(ms) : (toServer \o ms)[Len(toServer) + i] = ms[i]
  BY <1>1, Queued
<1>3. toServer' \in Seq(Datagrams)
  BY <1>2 DEF sendCommand
<1>4. CASE server_state = "loop"
  <2> DEFINE n == Len(toServer)
  <2>1. n \in Nat
    BY <1>1, LenProperties
  <2>2. toServer' = toServer \o ms
    BY <1>4 DEF sendCommand
  <2>3. Len(toServer') = n + Len(ms)
    BY <1>2, <2>2
  <2>4. \A i \in 1..n : Idle(toServer'[i])
    BY <1>2, <1>4, <2>2
  <2>5. toServer'[n + 1] = ms[1] /\ (Len(ms) = 2 => toServer'[n + 2] = ms[2])
    BY <1>2, <2>2
  <2>6. SUFFICES ASSUME NEW i \in 1..Len(toServer'), ~ Idle(toServer'[i])
                 PROVE  /\ i = n + 1
                        /\ Current(ms[1])'
                        /\ IF client_state' = "rename"
                           THEN Len(ms) = 2 /\ ms[2].cmd = "DATA" /\ ms[2].data = cmd'.new
                           ELSE Len(ms) = 1
    <3>1. ASSUME NEW i \in 1..Len(toServer'), ~ Idle(toServer'[i]),
                 i = n + 1, Current(ms[1])',
                 IF client_state' = "rename"
                 THEN Len(ms) = 2 /\ ms[2].cmd = "DATA" /\ ms[2].data = cmd'.new
                 ELSE Len(ms) = 1
          PROVE  /\ toServer'[i] = ms[1]
                 /\ IF client_state' = "rename"
                    THEN /\ i + 1 = Len(toServer')
                         /\ toServer'[i + 1].cmd = "DATA"
                         /\ toServer'[i + 1].data = cmd'.new
                    ELSE i = Len(toServer')
      <4>1. toServer'[i] = ms[1] /\ i + 1 = n + 2
        BY <2>1, <2>5, <3>1
      <4>2. Len(toServer') = n + Len(ms)
        BY <2>3
      <4>3. CASE client_state' = "rename"
        <5>1. toServer'[i + 1] = ms[2] /\ i + 1 = Len(toServer')
          BY <2>5, <3>1, <4>1, <4>2, <4>3
        <5>. QED
          BY <3>1, <4>1, <4>3, <5>1
      <4>4. CASE client_state' # "rename"
        BY <3>1, <4>1, <4>2, <4>4
      <4>. QED
        BY <4>3, <4>4
    <3>2. RequestsInLoop' <=>
            (server_state' = "loop" =>
              \A i \in 1..Len(toServer') : ~ Idle(toServer'[i]) =>
                /\ Current(toServer[i])' /\ toClient' = << >>
                /\ IF client_state' = "rename"
                   THEN /\ i + 1 = Len(toServer')
                        /\ toServer'[i + 1].cmd = "DATA"
                        /\ toServer'[i + 1].data = cmd'.new
                   ELSE i = Len(toServer'))
      BY DEF RequestsInLoop, Idle
    <3>. QED
      BY <1>3, <2>6, <3>1, <3>2 DEF Current, Confirms, IsLarge
  <2>7. i \notin 1..n
    BY <2>4, <2>6
  <2>8. Len(ms) = 2 => i # n + 2
    BY <2>5, <2>6
  <2>9. i = n + 1
    <3> DEFINE k == Len(ms)
    <3>1. i \in 1..(n + k)
      BY <2>3
    <3>2. k = 1 \/ (k = 2 /\ i # n + 2)
      BY <2>8
    <3> HIDE DEF n, k
    <3>. QED
      BY ONLY <2>1, <2>7, <3>1, <3>2
  <2>. QED
    BY <2>5, <2>6, <2>9
<1>5. CASE server_state # "loop"
  BY <1>3, <1>5 DEF RequestsInLoop
<1>. QED
  BY <1>4, <1>5

\* A command is typed and its request sent.
LEMMA IssueKept ==
  ASSUME IInv, NEW operation, NEW ms \in Seq(Datagrams),
         NEW where \in {"ls", "send", "remove", "rename", "prompt"},
         Issue(operation, ms, where), result' \in {"none", "shutdown"},
         operation \in [op : Commands \cup {"NONE"}, name : Names \cup {Absent},
                        new : Names \cup {Absent}, data : Contents \cup {Absent}, port : Nat],
         CommandFits', Len(ms) \in {1, 2},
         ~ Idle(ms[1]) =>
           /\ Current(ms[1])'
           /\ IF where = "rename"
              THEN Len(ms) = 2 /\ ms[2].cmd = "DATA" /\ ms[2].data = cmd'.new
              ELSE Len(ms) = 1,
         Len(ms) = 2 => Idle(ms[2])
  PROVE  IInv'
<1>1. /\ client_state = "prompt" /\ client_state' = where /\ typed' = typed + 1
      /\ cmd' = operation /\ agreed' = Absent /\ before' = disk /\ sendCommand(ms)
      /\ UNCHANGED <<server, toClient, conn, blind, lost>>
  BY DEF Issue
<1>2. /\ toClient = << >> /\ conn = "none"
      /\ server_state \in {"loop", "down", "accept"}
      /\ server_state = "accept" => Stuck
  BY <1>1, AtRest
<1>3. UNCHANGED <<server_state, filename, new_filename, current_tcp_port, disk,
                  misread>>
      /\ ServerOK'
  BY <1>1, ServerStays DEF IInv, TypeOK
<1>4. server_state = "loop" => \A i \in 1..Len(toServer) : Idle(toServer[i])
  BY <1>1, QueueIdle
<1>5. toServer' \in Seq(Datagrams) /\ RequestsInLoop'
  BY <1>1, <1>2, <1>3, <1>4, SentToLoop
<1>6. toClient' = << >> /\ toClient' \in Seq(Datagrams)
  BY <1>1, <1>2
<1>7. ClientOK'
  BY <1>1, TypeParts DEF IInv, TypeOK, ClientOK, ClientPlaces, Waits, Outcomes
<1>8. TypeOK'
  BY <1>3, <1>5, <1>6, <1>7 DEF TypeOK, ServerOK, QueuesOK, ClientOK
<1>9. AnswersFit'
  BY <1>6 DEF AnswersFit
<1>10. ReportsAreTrue'
  BY DEF ReportsAreTrue
<1>11. server_state' = "accept" => Stuck'
  BY <1>1, <1>2, <1>3 DEF Stuck, Waits
<1>12. PlacesFit'
  BY <1>1, <1>2, <1>3, <1>11 DEF PlacesFit
<1>. QED
  BY <1>5, <1>8, <1>9, <1>10, <1>12 DEF IInv

LEMMA LsTyped ==
  ASSUME IInv, ls
  PROVE  IInv'
<1> DEFINE operation == Operation("LS", Absent, Absent, Absent)
           a == CmdMsg("LS", Absent, FALSE, 0)
           ms == <<a>>
<1>1. Issue(operation, ms, "ls") /\ result' = "none"
  BY DEF ls, Pending
<1>2. cmd' = operation /\ client_state' = "ls" /\ UNCHANGED toClient
  BY <1>1 DEF Issue
<1>3. a \in Datagrams /\ a.cmd = "LS"
  BY DEF CmdMsg, Message, Datagrams, Datum, Commands
<1>4. operation \in [op : Commands \cup {"NONE"}, name : Names \cup {Absent},
                     new : Names \cup {Absent}, data : Contents \cup {Absent}, port : Nat]
  BY DEF Operation, Commands
<1>5. CommandFits'
  BY <1>1, <1>2 DEF CommandFits, Sending, Renaming
<1>6. ms \in Seq(Datagrams) /\ Len(ms) = 1 /\ ms[1] = a
  BY <1>3, OneMessage
<1> HIDE DEF a, ms, operation
<1>7. Current(ms[1])'
  BY <1>2, <1>3, <1>6 DEF Current
<1>. QED
  BY <1>1, <1>3, <1>4, <1>5, <1>6, <1>7, IssueKept

LEMMA SendTyped ==
  ASSUME IInv, send
  PROVE  IInv'
<1>1. PICK n \in Names, d \in Contents :
        /\ Issue(Operation("SEND", n, Absent, d),
                 <<CmdMsg("SEND", n, d \in LargeFiles, 0)>>, "send")
        /\ result' = "none"
  BY DEF send, Pending
<1> DEFINE operation == Operation("SEND", n, Absent, d)
           a == CmdMsg("SEND", n, d \in LargeFiles, 0)
           ms == <<a>>
<1>2. cmd' = operation /\ client_state' = "send"
  BY <1>1 DEF Issue
<1>3. /\ a \in Datagrams /\ a.cmd = "SEND" /\ a.filename = n
      /\ a.large = (d \in LargeFiles)
  BY DEF CmdMsg, Message, Datagrams, Datum, Commands
<1>4. /\ operation \in [op : Commands \cup {"NONE"}, name : Names \cup {Absent},
                        new : Names \cup {Absent}, data : Contents \cup {Absent},
                        port : Nat]
      /\ operation.op = "SEND" /\ operation.name = n /\ operation.data = d
  BY DEF Operation, Commands
<1>5. ms \in Seq(Datagrams) /\ Len(ms) = 1 /\ ms[1] = a
  BY <1>3, OneMessage
<1>6. Issue(operation, ms, "send")
  BY <1>1
<1> HIDE DEF a, ms, operation
<1>7. CommandFits'
  BY <1>1, <1>2, <1>4 DEF CommandFits, Sending, Renaming
<1>8. Current(ms[1])'
  BY <1>2, <1>3, <1>4, <1>5 DEF Current, IsLarge
<1>. QED
  BY <1>1, <1>3, <1>4, <1>5, <1>6, <1>7, <1>8, IssueKept

LEMMA RemoveTyped ==
  ASSUME IInv, remove
  PROVE  IInv'
<1>1. PICK n \in Names :
        /\ Issue(Operation("REMOVE", n, Absent, Absent),
                 <<CmdMsg("REMOVE", n, FALSE, 0)>>, "remove")
        /\ result' = "none"
  BY DEF remove, Pending
<1> DEFINE operation == Operation("REMOVE", n, Absent, Absent)
           a == CmdMsg("REMOVE", n, FALSE, 0)
           ms == <<a>>
<1>2. cmd' = operation /\ client_state' = "remove"
  BY <1>1 DEF Issue
<1>3. a \in Datagrams /\ a.cmd = "REMOVE" /\ a.filename = n
  BY DEF CmdMsg, Message, Datagrams, Datum, Commands
<1>4. /\ operation \in [op : Commands \cup {"NONE"}, name : Names \cup {Absent},
                        new : Names \cup {Absent}, data : Contents \cup {Absent},
                        port : Nat]
      /\ operation.op = "REMOVE" /\ operation.name = n
  BY DEF Operation, Commands
<1>5. ms \in Seq(Datagrams) /\ Len(ms) = 1 /\ ms[1] = a
  BY <1>3, OneMessage
<1>6. Issue(operation, ms, "remove")
  BY <1>1
<1> HIDE DEF a, ms, operation
<1>7. CommandFits'
  BY <1>1, <1>2, <1>4 DEF CommandFits, Sending, Renaming
<1>8. Current(ms[1])'
  BY <1>2, <1>3, <1>4, <1>5 DEF Current
<1>. QED
  BY <1>1, <1>3, <1>4, <1>5, <1>6, <1>7, <1>8, IssueKept

\* The new name follows the request.
LEMMA RenameTyped ==
  ASSUME IInv, rename
  PROVE  IInv'
<1>1. PICK old \in Names, new \in Names :
        /\ Issue(Operation("RENAME", old, new, Absent),
                 <<CmdMsg("RENAME", old, FALSE, 0), DataMsg(new)>>, "rename")
        /\ result' = "none"
  BY DEF rename, Pending
<1> DEFINE operation == Operation("RENAME", old, new, Absent)
           a == CmdMsg("RENAME", old, FALSE, 0)
           b == DataMsg(new)
           ms == <<a, b>>
<1>2. /\ cmd' = operation /\ client_state' = "rename" /\ agreed' = Absent
      /\ before' = disk /\ disk' = disk
  BY <1>1 DEF Issue, server, own
<1>3. a \in Datagrams /\ a.cmd = "RENAME" /\ a.filename = old
  BY DEF CmdMsg, Message, Datagrams, Datum, Commands
<1>4. b \in Datagrams /\ b.cmd = "DATA" /\ b.data = new
  BY DEF DataMsg, Message, Datagrams, Datum, Commands
<1>5. /\ operation \in [op : Commands \cup {"NONE"}, name : Names \cup {Absent},
                        new : Names \cup {Absent}, data : Contents \cup {Absent},
                        port : Nat]
      /\ operation.op = "RENAME" /\ operation.name = old /\ operation.new = new
  BY DEF Operation, Commands
<1>6. Issue(operation, ms, "rename")
  BY <1>1
<1> HIDE DEF a, b, operation
<1>7. ms \in Seq(Datagrams) /\ Len(ms) = 2 /\ ms[1] = a /\ ms[2] = b
  BY <1>3, <1>4, TwoMessages
<1> HIDE DEF ms
<1>8. CommandFits'
  BY <1>1, <1>2, <1>5 DEF CommandFits, Sending, Renaming
<1>9. Current(ms[1])'
  BY <1>2, <1>3, <1>5, <1>7 DEF Current
<1>10. Idle(ms[2])
  BY <1>4, <1>7 DEF Idle
<1>. QED
  BY <1>1, <1>2, <1>3, <1>4, <1>5, <1>6, <1>7, <1>8, <1>9, <1>10, IssueKept

LEMMA ShutdownTyped ==
  ASSUME IInv, shutdown
  PROVE  IInv'
<1> DEFINE operation == Operation("SHUTDOWN", Absent, Absent, Absent)
           a == CmdMsg("SHUTDOWN", Absent, FALSE, 0)
           ms == <<a>>
<1>1. Issue(operation, ms, "prompt") /\ result' = "shutdown"
  BY DEF shutdown
<1>2. cmd' = operation /\ client_state' = "prompt"
  BY <1>1 DEF Issue
<1>3. a \in Datagrams /\ a.cmd = "SHUTDOWN"
  BY DEF CmdMsg, Message, Datagrams, Datum, Commands
<1>4. operation \in [op : Commands \cup {"NONE"}, name : Names \cup {Absent},
                     new : Names \cup {Absent}, data : Contents \cup {Absent}, port : Nat]
  BY DEF Operation, Commands
<1>5. CommandFits'
  BY <1>1, <1>2 DEF CommandFits, Sending, Renaming
<1>6. ms \in Seq(Datagrams) /\ Len(ms) = 1 /\ ms[1] = a
  BY <1>3, OneMessage
<1> HIDE DEF a, ms, operation
<1>7. Idle(ms[1])
  BY <1>3, <1>6 DEF Idle
<1>. QED
  BY <1>1, <1>4, <1>5, <1>6, <1>7, IssueKept

\* The answer that is taken is the only one, and says what it should.
LEMMA AnswerTaken ==
  ASSUME IInv, NEW m \in FirstOf(toClient), NEW where, ClientReceives(where)
  PROVE  /\ client_state = where /\ m = toClient[1] /\ m \in Datagrams /\ Answers(m)
         /\ toClient # << >> /\ toClient' = << >>
         /\ UNCHANGED <<server_state, filename, new_filename, current_tcp_port, disk,
                        misread, conn, before, typed, lost>>
         /\ ServerOK'
         /\ server_state = "loop" => \A i \in 1..Len(toServer) : Idle(toServer[i])
         /\ server_state \notin {"small", "newName", "recv"}
         /\ server_state = "accept" =>
              /\ conn = "none" /\ toServer = << >> /\ m.cmd = "ACK"
              /\ client_state = "renameAck" => blind
              /\ client_state \in {"send", "ready", "renameAck", "smallAck"}
         /\ server_state = "confirm" => client_state = "rename" /\ m.cmd = "FILE_EXISTS"
<1>1. client_state = where /\ toClient' = Tail(toClient) /\ UNCHANGED clientOnly
  BY DEF ClientReceives
<1>2. toClient \in Seq(Datagrams) /\ toClient # << >> /\ m = Head(toClient)
  BY First DEF IInv, TypeOK
<1>3. /\ Len(toClient) \in Nat /\ m = toClient[1] /\ m \in Datagrams
      /\ Tail(toClient) \in Seq(Datagrams) /\ Len(Tail(toClient)) = Len(toClient) - 1
      /\ Len(toClient) > 0
  BY <1>2, TailOf
<1>4. Answers(m) /\ Len(toClient) <= 1
  BY <1>2, <1>3 DEF IInv, AnswersFit
<1>5. Tail(toClient) = << >>
  <2>1. Len(Tail(toClient)) = 0
    BY <1>3, <1>4
  <2>. QED
    BY <1>3, <2>1, NoneLeft
<1>6. /\ UNCHANGED <<server_state, filename, new_filename, current_tcp_port, disk,
                     misread>>
      /\ ServerOK'
  BY <1>1, ServerStays DEF IInv, TypeOK, clientOnly
<1>7. UNCHANGED <<conn, before, typed, lost>>
  BY <1>1 DEF clientOnly
<1>8. server_state = "loop" => \A i \in 1..Len(toServer) : Idle(toServer[i])
  BY <1>2, QueueIdle
<1>9. server_state \notin {"small", "newName", "recv"}
  BY <1>2 DEF IInv, PlacesFit, Quiet, Streaming
<1>10. server_state = "accept" =>
         /\ conn = "none" /\ toServer = << >> /\ m.cmd = "ACK"
         /\ client_state = "renameAck" => blind
         /\ client_state \in {"send", "ready", "renameAck", "smallAck"}
  BY <1>2, <1>3 DEF IInv, PlacesFit, Quiet, Streaming, Stuck
<1>11. server_state = "confirm" => client_state = "rename" /\ m.cmd = "FILE_EXISTS"
  BY <1>2, <1>3 DEF IInv, PlacesFit
<1>12. toClient' = << >>
  BY <1>1, <1>5
<1>. QED
  BY <1>1, <1>2, <1>3, <1>4, <1>6, <1>7, <1>8, <1>9, <1>10, <1>11, <1>12

\* An answer that ends the command: what the client prints must be so.
LEMMA Reported ==
  ASSUME IInv, NEW m \in FirstOf(toClient), NEW where, ClientReceives(where),
         NEW outcome \in Outcomes, Report(outcome),
         UNCHANGED <<toServer, cmd, agreed, blind>>,
         where # "send", where = "ready" => ~ IsLarge,
         where = "rename" => m.cmd # "FILE_EXISTS",
         Answers(m) /\ UNCHANGED <<disk, before, misread>> => ReportsAreTrue'
  PROVE  IInv'
<1>1. /\ client_state = where /\ Answers(m) /\ toClient' = << >>
      /\ UNCHANGED <<server_state, filename, new_filename, current_tcp_port, disk,
                     misread, conn, before, typed, lost>>
      /\ ServerOK'
      /\ server_state = "loop" => \A i \in 1..Len(toServer) : Idle(toServer[i])
      /\ server_state \notin {"small", "newName", "recv"}
      /\ server_state = "accept" =>
           /\ conn = "none" /\ toServer = << >> /\ m.cmd = "ACK"
           /\ client_state = "renameAck" => blind
           /\ client_state \in {"send", "ready", "renameAck", "smallAck"}
      /\ server_state = "confirm" => client_state = "rename" /\ m.cmd = "FILE_EXISTS"
  BY AnswerTaken
<1>2. client_state' = "prompt" /\ result' = outcome
  BY DEF Report
<1>3. ClientOK'
  BY <1>1, <1>2, TypeParts DEF IInv, ClientOK, ClientPlaces
<1>4. QueuesOK'
  BY <1>1, TypeParts DEF IInv, QueuesOK
<1>5. TypeOK'
  BY <1>1, <1>3, <1>4 DEF TypeOK, ServerOK, QueuesOK, ClientOK
<1>6. CommandFits'
  BY <1>2 DEF CommandFits, Sending, Renaming
<1>7. RequestsInLoop'
  BY <1>1 DEF RequestsInLoop, Idle
<1>8. AnswersFit'
  BY <1>1 DEF AnswersFit
<1>9. server_state = "accept" => blind \/ misread
  BY <1>1 DEF Answers
<1>10. server_state # "confirm"
  BY <1>1
<1>11. server_state # "accept" => conn = "none"
  BY <1>1 DEF IInv, PlacesFit, Answers, Waits
<1>12. server_state' = "accept" => Stuck' /\ conn' = "none"
  BY <1>1, <1>2, <1>9 DEF Stuck
<1>13. PlacesFit'
  BY <1>1, <1>2, <1>10, <1>11, <1>12 DEF PlacesFit
<1>. QED
  BY <1>1, <1>5, <1>6, <1>7, <1>8, <1>13 DEF IInv

LEMMA LsReported ==
  ASSUME IInv, LsAnswered
  PROVE  IInv'
<1>1. PICK m \in FirstOf(toClient) :
        /\ ClientReceives("ls") /\ Report("listed")
        /\ UNCHANGED <<toServer, cmd, agreed, blind>>
  BY DEF LsAnswered
<1>2. ReportsAreTrue'
  BY <1>1 DEF Report, ReportsAreTrue
<1>. QED
  BY <1>1, <1>2, Reported DEF Outcomes

LEMMA DeclineReported ==
  ASSUME IInv, DeclineAnswered
  PROVE  IInv'
<1>1. PICK m \in FirstOf(toClient) :
        /\ ClientReceives("declined") /\ Report("cancelled")
        /\ UNCHANGED <<toServer, cmd, agreed, blind>>
  BY DEF DeclineAnswered
<1>2. ReportsAreTrue'
  BY <1>1 DEF Report, ReportsAreTrue
<1>. QED
  BY <1>1, <1>2, Reported DEF Outcomes

\* A small file is not stored when it is answered for.
LEMMA SmallReported ==
  ASSUME IInv, SmallFileAnswered
  PROVE  IInv'
<1>1. PICK m \in FirstOf(toClient) :
        /\ ClientReceives("smallAck")
        /\ Report(IF Accepted(m) THEN "sent" ELSE "failed")
        /\ UNCHANGED <<toServer, cmd, agreed, blind>>
  BY DEF SmallFileAnswered
<1>2. client_state = "smallAck"
  BY <1>1 DEF ClientReceives
<1>3. ASSUME Answers(m), UNCHANGED <<disk, before, misread>>
      PROVE  ReportsAreTrue'
  BY <1>1, <1>2, <1>3 DEF Report, ReportsAreTrue, Answers, Waits
<1>. QED
  BY <1>1, <1>3, Reported DEF Outcomes

\* The file that a client reports as sent is stored, or a part of it.
LEMMA LargeReported ==
  ASSUME IInv, LargeFileAnswered
  PROVE  IInv'
<1>1. PICK m \in FirstOf(toClient) :
        /\ ClientReceives("largeAck")
        /\ Report(IF Accepted(m) THEN "completed" ELSE "failed")
        /\ UNCHANGED <<toServer, cmd, agreed, blind>>
  BY DEF LargeFileAnswered
<1>2. client_state = "largeAck"
  BY <1>1 DEF ClientReceives
<1>3. ASSUME Answers(m), UNCHANGED <<disk, before, misread>>
      PROVE  ReportsAreTrue'
  BY <1>1, <1>2, <1>3 DEF Report, ReportsAreTrue, Answers
<1>. QED
  BY <1>1, <1>3, Reported DEF Outcomes

LEMMA RemoveReported ==
  ASSUME IInv, RemoveAnswered
  PROVE  IInv'
<1>1. PICK m \in FirstOf(toClient) :
        /\ ClientReceives("remove")
        /\ Report(IF Accepted(m) THEN "removed" ELSE "notFound")
        /\ UNCHANGED <<toServer, cmd, agreed, blind>>
  BY DEF RemoveAnswered
<1>2. client_state = "remove"
  BY <1>1 DEF ClientReceives
<1>3. ASSUME Answers(m), UNCHANGED <<disk, before, misread>>
      PROVE  ReportsAreTrue'
  BY <1>1, <1>2, <1>3 DEF Report, ReportsAreTrue, Answers
<1>. QED
  BY <1>1, <1>3, Reported DEF Outcomes

LEMMA RenameOverwriteReported ==
  ASSUME IInv, RenameOverwriteAnswered
  PROVE  IInv'
<1>1. PICK m \in FirstOf(toClient) :
        /\ ClientReceives("renameAck")
        /\ Report(IF m.error = 2 THEN "cancelled" ELSE "renamed")
        /\ UNCHANGED <<toServer, cmd, agreed, blind>>
  BY DEF RenameOverwriteAnswered
<1>2. client_state = "renameAck"
  BY <1>1 DEF ClientReceives
<1>3. ASSUME Answers(m), UNCHANGED <<disk, before, misread>>
      PROVE  ReportsAreTrue'
  BY <1>1, <1>2, <1>3 DEF Report, ReportsAreTrue, Answers
<1>. QED
  BY <1>1, <1>3, Reported DEF Outcomes

\* The client goes on, to a place where it has nothing under way.
LEMMA WentOn ==
  ASSUME IInv, NEW m \in FirstOf(toClient), NEW where, ClientReceives(where),
         ClientOK', CommandFits', toServer' \in Seq(Datagrams), result' = result,
         client_state' \in {"askOverwrite", "smallAck"},
         server_state # "accept", where # "rename", RequestsInLoop'
  PROVE  IInv'
<1>1. /\ client_state = where /\ Answers(m) /\ toClient' = << >>
      /\ UNCHANGED <<server_state, filename, new_filename, current_tcp_port, disk,
                     misread, conn, before, typed, lost>>
      /\ ServerOK'
      /\ server_state \notin {"small", "newName", "recv"}
      /\ server_state = "confirm" => client_state = "rename"
  BY AnswerTaken
<1>2. QueuesOK'
  BY <1>1 DEF QueuesOK
<1>3. TypeOK'
  BY <1>1, <1>2 DEF TypeOK, ServerOK, QueuesOK, ClientOK
<1>4. ReportsAreTrue'
  BY DEF CommandFits, ReportsAreTrue
<1>5. AnswersFit'
  BY <1>1 DEF AnswersFit
<1>6. conn = "none"
  BY <1>1 DEF IInv, PlacesFit, Answers, Waits
<1>7. PlacesFit'
  BY <1>1, <1>6 DEF PlacesFit
<1>. QED
  BY <1>3, <1>4, <1>5, <1>7 DEF IInv

\* The go-ahead for a large file: the port is the one that is listened at.
LEMMA ConnectionAwaited ==
  ASSUME IInv, NEW m \in FirstOf(toClient), NEW where \in {"send", "ready"},
         ClientReceives(where), m.cmd = "ACK", IsLarge, ConnectTo(m),
         UNCHANGED <<agreed, blind>>
  PROVE  IInv'
<1>1. /\ client_state = where /\ m \in Datagrams /\ Answers(m) /\ toClient' = << >>
      /\ toClient # << >>
      /\ UNCHANGED <<server_state, filename, new_filename, current_tcp_port, disk,
                     misread, conn, before, typed, lost>>
      /\ ServerOK'
      /\ server_state = "accept" => toServer = << >>
  BY AnswerTaken
<1>2. /\ cmd' = [cmd EXCEPT !.port = m.port] /\ client_state' = "connect"
      /\ result' = result /\ toServer' = toServer
  BY DEF ConnectTo, Goto
<1>3. GoAhead(m) /\ toServer = << >>
  BY <1>1 DEF Answers, GoAhead
<1>4. /\ cmd' \in [op : Commands \cup {"NONE"}, name : Names \cup {Absent},
                   new : Names \cup {Absent}, data : Contents \cup {Absent}, port : Nat]
      /\ cmd'.op = cmd.op /\ cmd'.name = cmd.name /\ cmd'.data = cmd.data
      /\ cmd'.port = m.port
  BY <1>1, <1>2, DatagramFields DEF IInv, TypeOK
<1>5. ClientOK'
  BY <1>1, <1>2, <1>4, TypeParts DEF IInv, ClientOK, ClientPlaces
<1>6. QueuesOK'
  BY <1>1, <1>2, TypeParts DEF IInv, QueuesOK
<1>7. TypeOK'
  BY <1>1, <1>5, <1>6 DEF TypeOK, ServerOK, QueuesOK, ClientOK
<1>8. CommandFits'
  BY <1>1, <1>2, <1>4 DEF IInv, CommandFits, Sending, Renaming, IsLarge
<1>9. ReportsAreTrue'
  BY <1>2, <1>8 DEF CommandFits, ReportsAreTrue
<1>10. RequestsInLoop' /\ AnswersFit'
  BY <1>1, <1>3 DEF RequestsInLoop, AnswersFit, GoAhead
<1>11. PlacesFit'
  BY <1>1, <1>2, <1>3, <1>4 DEF PlacesFit, GoAhead, Quiet, Free
<1>. QED
  BY <1>7, <1>8, <1>9, <1>10, <1>11 DEF IInv

LEMMA ReadyKept ==
  ASSUME IInv, ReadyAnswered
  PROVE  IInv'
<1>1. PICK m \in FirstOf(toClient) :
        /\ ClientReceives("ready") /\ m.cmd = "ACK"
        /\ \/ IsLarge /\ ConnectTo(m)
           \/ ~ IsLarge /\ Report("none") /\ UNCHANGED <<toServer, cmd>>
        /\ UNCHANGED <<agreed, blind>>
  BY DEF ReadyAnswered
<1>2. CASE IsLarge /\ ConnectTo(m)
  BY <1>1, <1>2, ConnectionAwaited
<1>3. CASE ~ IsLarge /\ Report("none") /\ UNCHANGED <<toServer, cmd>>
  <2>1. ReportsAreTrue'
    BY <1>3 DEF Report, ReportsAreTrue
  <2>. QED
    BY <1>1, <1>3, <2>1, Reported DEF Outcomes
<1>. QED
  BY <1>1, <1>2, <1>3

LEMMA SendGoesOn ==
  ASSUME IInv, SendAnswered
  PROVE  IInv'
<1>1. PICK m \in FirstOf(toClient) :
        /\ ClientReceives("send")
        /\ \/ /\ m.cmd = "FILE_EXISTS" /\ Goto("askOverwrite")
              /\ UNCHANGED <<toServer, cmd>>
           \/ m.cmd = "ACK" /\ IsLarge /\ ConnectTo(m)
           \/ /\ m.cmd = "ACK" /\ ~ IsLarge
              /\ sendCommand(<<ContentMsg(cmd.data)>>) /\ Goto("smallAck")
              /\ UNCHANGED cmd
        /\ UNCHANGED <<agreed, blind>>
  BY DEF SendAnswered
<1>2. /\ client_state = "send" /\ Answers(m) /\ toClient' = << >>
      /\ UNCHANGED <<server_state, before, typed, lost>>
      /\ server_state = "loop" => \A i \in 1..Len(toServer) : Idle(toServer[i])
  BY <1>1, AnswerTaken
<1>3. toServer \in Seq(Datagrams)
  BY DEF IInv, TypeOK
<1>4. ASSUME NEW p \in {"askOverwrite", "smallAck"}, Goto(p), UNCHANGED cmd
      PROVE  /\ client_state' = p /\ result' = result
             /\ ClientOK' /\ CommandFits'
  <2>1. client_state' = p /\ result' = result /\ cmd' = cmd
    BY <1>4 DEF Goto
  <2>2. ClientOK'
    BY <1>1, <1>2, <2>1, TypeParts DEF IInv, ClientOK, ClientPlaces, Waits
  <2>3. CommandFits'
    BY <1>1, <1>2, <2>1 DEF IInv, CommandFits, Sending, Renaming
  <2>. QED
    BY <2>1, <2>2, <2>3
<1>5. CASE m.cmd = "FILE_EXISTS" /\ Goto("askOverwrite") /\ UNCHANGED <<toServer, cmd>>
  <2>1. server_state # "accept"
    BY <1>2, <1>5 DEF Answers
  <2>2. RequestsInLoop'
    BY <1>2, <1>5 DEF RequestsInLoop, Idle
  <2>. QED
    BY <1>1, <1>3, <1>4, <1>5, <2>1, <2>2, WentOn
<1>6. CASE m.cmd = "ACK" /\ IsLarge /\ ConnectTo(m)
  BY <1>1, <1>6, ConnectionAwaited
<1>7. CASE /\ m.cmd = "ACK" /\ ~ IsLarge
           /\ sendCommand(<<ContentMsg(cmd.data)>>) /\ Goto("smallAck")
           /\ UNCHANGED cmd
  <2>1. server_state # "accept"
    BY <1>2, <1>7 DEF Answers
  <2>2. cmd.data \in SmallFiles
    BY <1>2, <1>7 DEF IInv, CommandFits, Sending, Contents, IsLarge
  <2>3. PICK a \in Datagrams : a = ContentMsg(cmd.data) /\ a.data \in SmallFiles
    BY <2>2, ContentTypes
  <2>4. PICK ms \in Seq(Datagrams) : ms = <<a>> /\ Len(ms) = 1 /\ ms[1] = a
    BY <2>3, OneMessage
  <2>4a. Len(ms) = 1 /\ Len(ms) \in {1, 2} /\ Len(ms) # 2
    BY <2>4
  <2>5. sendCommand(ms)
    BY <1>7, <2>3, <2>4
  <2>6. /\ client_state' = "smallAck" /\ client_state' # "rename"
        /\ server_state' = server_state /\ toClient' = << >>
        /\ server_state = "loop" => \A i \in 1..Len(toServer) : Idle(toServer[i])
    BY <1>2, <1>7 DEF Goto
  <2>7. Current(ms[1])'
    <3>1. ms[1].data \in SmallFiles
      BY <2>3, <2>4
    <3>. QED
      BY <2>6, <3>1 DEF Current
  <2>8. toServer' \in Seq(Datagrams) /\ RequestsInLoop'
    BY <2>4a, <2>5, <2>6, <2>7, SentToLoop
  <2>. QED
    BY <1>1, <1>4, <1>7, <2>1, <2>8, WentOn
<1>. QED
  BY <1>1, <1>5, <1>6, <1>7

\* A rename is reported, or the user asked while the server waits for the word.
LEMMA RenameGoesOn ==
  ASSUME IInv, RenameAnswered
  PROVE  IInv'
<1>1. PICK m \in FirstOf(toClient) :
        /\ ClientReceives("rename")
        /\ \/ m.cmd = "FILE_EXISTS" /\ Goto("askRename")
           \/ m.cmd = "ACK" /\ Report(IF m.error = 1 THEN "notFound" ELSE "renamed")
        /\ UNCHANGED <<toServer, cmd, agreed, blind>>
  BY DEF RenameAnswered
<1>2. /\ client_state = "rename" /\ toClient' = << >> /\ toClient # << >> /\ Answers(m)
      /\ UNCHANGED <<server_state, filename, new_filename, current_tcp_port, disk,
                     misread, conn, before, typed, lost>>
      /\ ServerOK'
      /\ server_state = "loop" => \A i \in 1..Len(toServer) : Idle(toServer[i])
      /\ server_state \notin {"small", "newName", "recv"}
      /\ server_state # "accept"
  BY <1>1, AnswerTaken
<1>3. CASE m.cmd = "FILE_EXISTS" /\ Goto("askRename")
  <2>1. client_state' = "askRename" /\ result' = result
    BY <1>3 DEF Goto
  <2>2. ClientOK'
    BY <1>1, <1>2, <2>1, TypeParts DEF IInv, ClientOK, ClientPlaces
  <2>3. QueuesOK'
    BY <1>1, <1>2, TypeParts DEF IInv, QueuesOK
  <2>4. TypeOK'
    BY <1>2, <2>2, <2>3 DEF TypeOK, ServerOK, QueuesOK, ClientOK
  <2>5. CommandFits'
    BY <1>1, <1>2, <2>1 DEF IInv, CommandFits, Sending, Renaming
  <2>6. ReportsAreTrue'
    BY <2>1, <2>5 DEF CommandFits, ReportsAreTrue
  <2>7. RequestsInLoop' /\ AnswersFit'
    BY <1>1, <1>2 DEF RequestsInLoop, Idle, AnswersFit
  <2>8. server_state = "confirm" =>
          toServer = << >> /\ filename = cmd.name /\ new_filename = cmd.new
    BY <1>2 DEF IInv, PlacesFit
  <2>9. conn = "none"
    BY <1>2 DEF IInv, PlacesFit
  <2>10. Len(<< >>) <= 1
    OBVIOUS
  <2>11. PlacesFit'
    BY <1>1, <1>2, <2>1, <2>8, <2>9, <2>10 DEF PlacesFit, Renaming
  <2>. QED
    BY <2>4, <2>5, <2>6, <2>7, <2>11 DEF IInv
<1>4. CASE m.cmd = "ACK" /\ Report(IF m.error = 1 THEN "notFound" ELSE "renamed")
  <2>1. ASSUME Answers(m), UNCHANGED <<disk, before, misread>>
        PROVE  ReportsAreTrue'
    BY <1>1, <1>2, <1>4, <2>1 DEF Report, ReportsAreTrue, Answers, Renamed
  <2>. QED
    BY <1>1, <1>4, <2>1, Reported DEF Outcomes
<1>. QED
  BY <1>1, <1>3, <1>4

\* The user's word on overwriting a file that was to be sent.
LEMMA OverwriteAskedKept ==
  ASSUME IInv, OverwriteAsked
  PROVE  IInv'
<1>1. PICK yes \in BOOLEAN :
        /\ client_state = "askOverwrite"
        /\ sendCommand(<<CmdMsg("OVERWRITE", IF yes THEN cmd.name ELSE Absent,
                                yes /\ IsLarge, IF yes THEN 0 ELSE 1)>>)
        /\ agreed' = IF yes THEN cmd.name ELSE Absent
        /\ Goto(IF yes THEN "ready" ELSE "declined")
        /\ UNCHANGED <<clientOnly, toClient, cmd, blind>>
  BY DEF OverwriteAsked
<1>3. /\ UNCHANGED server /\ UNCHANGED <<conn, before, typed, lost, toClient, cmd, blind>>
      /\ client_state' = (IF yes THEN "ready" ELSE "declined") /\ result' = result
  BY <1>1 DEF clientOnly, Goto
<1>4. toClient = << >> /\ conn = "none" /\ server_state \in {"loop", "down"}
  BY <1>1, AtRest
<1>5. UNCHANGED <<server_state, filename, new_filename, current_tcp_port, disk,
                  misread>>
      /\ ServerOK'
  BY <1>3, ServerStays DEF IInv, TypeOK
<1>6. cmd.op = "SEND" /\ cmd.name \in Names /\ cmd.data \in Contents
  BY <1>1 DEF IInv, CommandFits, Sending
<1>7. PICK a \in Datagrams :
        /\ a = CmdMsg("OVERWRITE", IF yes THEN cmd.name ELSE Absent, yes /\ IsLarge,
                      IF yes THEN 0 ELSE 1)
        /\ a.cmd = "OVERWRITE"
        /\ yes => a.error = 0 /\ a.filename = cmd.name /\ a.large = IsLarge
        /\ ~ yes => a.error = 1
  <2> DEFINE b == CmdMsg("OVERWRITE", IF yes THEN cmd.name ELSE Absent, yes /\ IsLarge,
                         IF yes THEN 0 ELSE 1)
  <2>1. /\ b \in Datagrams /\ b.cmd = "OVERWRITE"
        /\ yes => b.error = 0 /\ b.filename = cmd.name /\ b.large = IsLarge
        /\ ~ yes => b.error = 1
    BY <1>6 DEF CmdMsg, Message, Datagrams, Datum, Commands, IsLarge
  <2>. QED
    BY <2>1
<1>8. PICK ms \in Seq(Datagrams) : ms = <<a>> /\ Len(ms) = 1 /\ ms[1] = a
  BY <1>7, OneMessage
<1>8a. sendCommand(ms)
  BY <1>1, <1>7, <1>8
<1>8b. Len(ms) = 1 /\ Len(ms) \in {1, 2} /\ Len(ms) # 2
  BY <1>8
<1>9. Current(ms[1])'
  BY <1>1, <1>3, <1>7, <1>8 DEF Current, Confirms, IsLarge
<1>10. server_state = "loop" => \A i \in 1..Len(toServer) : Idle(toServer[i])
  BY <1>1, QueueIdle
<1>10a. client_state' # "rename" /\ toClient' = << >> /\ server_state' = server_state
  BY <1>3, <1>4, <1>5
<1>11. toServer' \in Seq(Datagrams) /\ RequestsInLoop'
  BY <1>8a, <1>8b, <1>9, <1>10, <1>10a, SentToLoop
<1>12. ClientOK'
  BY <1>1, <1>3, <1>6, TypeParts DEF IInv, ClientOK, ClientPlaces, Waits
<1>13. TypeOK'
  BY <1>3, <1>5, <1>11, <1>12, TypeParts DEF IInv, TypeOK, ServerOK, QueuesOK, ClientOK
<1>14. CommandFits'
  BY <1>1, <1>3, <1>6 DEF IInv, CommandFits, Sending, Renaming
<1>15. ReportsAreTrue'
  BY <1>3, <1>14 DEF CommandFits, ReportsAreTrue
<1>16. AnswersFit'
  BY <1>3, <1>4 DEF AnswersFit
<1>17. PlacesFit'
  BY <1>3, <1>4, <1>5 DEF PlacesFit
<1>. QED
  BY <1>11, <1>13, <1>14, <1>15, <1>16, <1>17 DEF IInv

\* The user's word on a rename, which the server may still be waiting for.
LEMMA RenameAskedKept ==
  ASSUME IInv, RenameOverwriteAsked
  PROVE  IInv'
<1>1. PICK yes \in BOOLEAN, n \in Names \cup {Absent}, l \in BOOLEAN :
        /\ client_state = "askRename"
        /\ sendCommand(<<CmdMsg("OVERWRITE", n, l, IF yes THEN 0 ELSE 1)>>)
        /\ agreed' = IF yes THEN cmd.new ELSE Absent
        /\ blind' = (blind \/ yes)
        /\ Goto("renameAck")
        /\ UNCHANGED <<clientOnly, toClient, cmd>>
  BY DEF RenameOverwriteAsked
<1> DEFINE a == CmdMsg("OVERWRITE", n, l, IF yes THEN 0 ELSE 1)
           ms == <<a>>
<1>2. sendCommand(ms)
  BY <1>1
<1>3. /\ UNCHANGED server /\ UNCHANGED <<conn, before, typed, lost, toClient, cmd>>
      /\ client_state' = "renameAck" /\ result' = result
  BY <1>1 DEF clientOnly, Goto
<1>4. /\ toClient = << >> /\ conn = "none" /\ server_state \in {"loop", "down", "confirm"}
      /\ server_state = "confirm" => toServer = << >>
  BY <1>1, AtRest
<1>5. UNCHANGED <<server_state, filename, new_filename, current_tcp_port, disk,
                  misread>>
      /\ ServerOK'
  BY <1>3, ServerStays DEF IInv, TypeOK
<1>6. cmd.op = "RENAME" /\ cmd.name \in Names /\ cmd.new \in Names
  BY <1>1 DEF IInv, CommandFits, Renaming
<1>7. a \in Datagrams /\ a.cmd = "OVERWRITE" /\ (a.error = 0 => yes)
  BY DEF CmdMsg, Message, Datagrams, Datum, Commands
<1> HIDE DEF a
<1>8. ms \in Seq(Datagrams) /\ Len(ms) = 1 /\ ms[1] = a
  BY <1>7, OneMessage
<1> HIDE DEF ms
<1>9. yes => agreed' = cmd'.new /\ blind'
  BY <1>1, <1>3
<1>10. Confirms(ms[1])'
  BY <1>3, <1>7, <1>8, <1>9 DEF Confirms
<1>11. server_state = "loop" => \A i \in 1..Len(toServer) : Idle(toServer[i])
  BY <1>1, QueueIdle
<1>12. toServer' \in Seq(Datagrams) /\ RequestsInLoop'
  BY <1>2, <1>3, <1>4, <1>5, <1>7, <1>8, <1>10, <1>11, SentToLoop DEF Current
<1>13. blind' \in BOOLEAN
  BY <1>1 DEF IInv, TypeOK
<1>14. ClientOK'
  BY <1>1, <1>3, <1>6, <1>13, TypeParts DEF IInv, ClientOK, ClientPlaces, Waits
<1>15. TypeOK'
  BY <1>3, <1>5, <1>12, <1>14, TypeParts DEF IInv, TypeOK, ServerOK, QueuesOK, ClientOK
<1>16. CommandFits'
  BY <1>1, <1>3, <1>6 DEF IInv, CommandFits, Sending, Renaming
<1>17. ReportsAreTrue'
  BY <1>3, <1>16 DEF CommandFits, ReportsAreTrue
<1>18. AnswersFit'
  BY <1>3, <1>4 DEF AnswersFit
<1>19. server_state = "confirm" =>
         /\ filename = cmd.name /\ new_filename = cmd.new
         /\ Len(toServer') <= 1 /\ toServer'[1] = ms[1]
  <2>1. server_state = "confirm" => toServer' = << >> \o ms
    BY <1>2, <1>4 DEF sendCommand
  <2>2. << >> \o ms = ms
    BY <1>8
  <2>3. server_state = "confirm" => filename = cmd.name /\ new_filename = cmd.new
    BY DEF IInv, PlacesFit
  <2>4. server_state = "confirm" => toServer' = ms
    BY <2>1, <2>2
  <2>5. Len(ms) <= 1
    BY <1>8
  <2>. QED
    BY <2>3, <2>4, <2>5
<1>20. server_state = "confirm" => Confirms(toServer[1])'
  BY <1>10, <1>19 DEF Confirms, IsLarge
<1>21. PlacesFit'
  BY <1>3, <1>4, <1>5, <1>19, <1>20 DEF PlacesFit, Renaming
<1>. QED
  BY <1>12, <1>15, <1>16, <1>17, <1>18, <1>21 DEF IInv

\* The connection that is made is the one listened for.
LEMMA ConnectKept ==
  ASSUME IInv, Connect
  PROVE  IInv'
<1>1. /\ client_state = "connect"
      /\ \/ /\ server_state = "accept" /\ current_tcp_port = cmd.port
            /\ conn' = "open" /\ Goto("stream") /\ UNCHANGED lost
         \/ /\ lost < MaxLost /\ lost' = lost + 1
            /\ Report("unreachable") /\ UNCHANGED conn
      /\ UNCHANGED server
      /\ UNCHANGED <<toServer, toClient, cmd, agreed, before, blind, typed>>
  BY DEF Connect, tcpOnly
<1>2. toClient = << >>
  BY <1>1, NoAnswer DEF Waits
<1>3. /\ server_state = "accept" /\ conn = "none" /\ toServer = << >>
      /\ filename = cmd.name /\ Free
  BY <1>1, <1>2 DEF IInv, PlacesFit, Streaming, Stuck, Waits, Quiet
<1>4. UNCHANGED <<server_state, filename, new_filename, current_tcp_port, disk,
                  misread>>
      /\ ServerOK'
  BY <1>1, ServerStays DEF IInv, TypeOK
<1>5. lost' \in Nat /\ (lost' = lost \/ lost' > 0)
  BY <1>1 DEF IInv, TypeOK
<1>6. QueuesOK'
  BY <1>1, TypeParts DEF IInv, QueuesOK
<1>7. RequestsInLoop' /\ AnswersFit'
  BY <1>1, <1>2, <1>3, <1>4 DEF RequestsInLoop, AnswersFit
<1>8. CASE conn' = "open" /\ Goto("stream")
  <2>1. client_state' = "stream" /\ result' = result
    BY <1>8 DEF Goto
  <2>2. ClientOK'
    BY <1>1, <1>5, <2>1, TypeParts DEF IInv, ClientOK, ClientPlaces
  <2>3. TypeOK'
    BY <1>4, <1>6, <2>2 DEF TypeOK, ServerOK, QueuesOK, ClientOK
  <2>4. CommandFits'
    BY <1>1, <2>1 DEF IInv, CommandFits, Sending, Renaming, IsLarge
  <2>5. ReportsAreTrue'
    BY <2>1, <2>4 DEF CommandFits, ReportsAreTrue
  <2>6. Streaming' /\ Free'
    BY <1>1, <1>2, <1>3, <1>4, <1>8, <2>1 DEF Streaming, Free, Quiet
  <2>7. PlacesFit'
    BY <1>3, <1>4, <1>8, <2>6 DEF PlacesFit
  <2>. QED
    BY <1>7, <2>3, <2>4, <2>5, <2>7 DEF IInv
<1>9. CASE lost' = lost + 1 /\ Report("unreachable") /\ UNCHANGED conn
  <2>1. client_state' = "prompt" /\ result' = "unreachable" /\ lost' > 0
    BY <1>9 DEF Report, IInv, TypeOK
  <2>2. ClientOK'
    BY <1>1, <1>5, <2>1, TypeParts DEF IInv, ClientOK, ClientPlaces, Outcomes
  <2>3. TypeOK'
    BY <1>4, <1>6, <2>2 DEF TypeOK, ServerOK, QueuesOK, ClientOK
  <2>4. CommandFits' /\ ReportsAreTrue'
    BY <2>1 DEF CommandFits, ReportsAreTrue, Sending, Renaming
  <2>5. PlacesFit'
    BY <1>1, <1>2, <1>3, <1>4, <1>9, <2>1 DEF PlacesFit, Stuck
  <2>. QED
    BY <1>7, <2>3, <2>4, <2>5 DEF IInv
<1>. QED
  BY <1>1, <1>8, <1>9

\* All is written, or the client dies on a connection that was closed.
LEMMA StreamKept ==
  ASSUME IInv, StreamFile
  PROVE  IInv'
<1>1. /\ client_state = "stream"
      /\ \/ conn = "open" /\ conn' \in {cmd.data, "cut"} /\ Goto("largeAck")
         \/ conn = "reset" /\ conn' = "none" /\ (Goto("largeAck") \/ Goto("dead"))
      /\ UNCHANGED server
      /\ UNCHANGED <<toServer, toClient, cmd, agreed, before, blind, typed, lost>>
  BY DEF StreamFile, tcpOnly
<1>2. toClient = << >>
  BY <1>1, NoAnswer DEF Waits
<1>3. cmd.data \in LargeFiles
  BY <1>1 DEF IInv, CommandFits, IsLarge
<1>4. UNCHANGED <<server_state, filename, new_filename, current_tcp_port, disk,
                  misread>>
      /\ ServerOK'
  BY <1>1, <1>3, ServerStays
<1>5. server_state \in {"loop", "down", "accept", "recv"}
  BY <1>1 DEF IInv, PlacesFit, Renaming, TypeOK, ServerPlaces, Misled
<1>6. /\ server_state \in {"accept", "recv"} => Streaming /\ conn = "open"
      /\ server_state = "accept" => Free
      /\ server_state = "recv" => disk[filename] = Damaged
      /\ server_state \in {"loop", "down"} => conn = "reset"
  BY <1>1, <1>2 DEF IInv, PlacesFit, Stuck, Waits, Streaming
<1>7. QueuesOK'
  BY <1>1, TypeParts DEF IInv, QueuesOK
<1>8. server_state = "loop" => \A i \in 1..Len(toServer) : Idle(toServer[i])
  BY <1>1, QueueIdle
<1>9. RequestsInLoop' /\ AnswersFit'
  BY <1>1, <1>2, <1>4, <1>8 DEF RequestsInLoop, Idle, AnswersFit
<1>10. /\ client_state' \in {"largeAck", "dead"} /\ result' = result
       /\ client_state' = "dead" => conn = "reset"
       /\ conn = "open" => conn' \in {cmd.data, "cut"}
       /\ conn = "reset" => conn' = "none"
  BY <1>1 DEF Goto
<1>11. ClientOK'
  BY <1>1, <1>10, TypeParts DEF IInv, ClientOK, ClientPlaces, Waits
<1>12. TypeOK'
  BY <1>4, <1>7, <1>11 DEF TypeOK, ServerOK, QueuesOK, ClientOK
<1>13. CommandFits'
  BY <1>1, <1>10 DEF IInv, CommandFits, Sending, Renaming, IsLarge
<1>14. ReportsAreTrue'
  BY <1>10, <1>13 DEF CommandFits, ReportsAreTrue
<1>15. cmd.data # "none"
  BY <1>3, LabAssumption DEF Contents
<1>16. server_state \in {"accept", "recv"} => Streaming' /\ conn' # "none"
  BY <1>1, <1>4, <1>6, <1>10, <1>15 DEF Streaming, Quiet
<1>17. server_state = "accept" => Free'
  BY <1>1, <1>4, <1>6 DEF Free
<1>18. PlacesFit'
  BY <1>4, <1>5, <1>6, <1>10, <1>16, <1>17 DEF PlacesFit
<1>. QED
  BY <1>9, <1>12, <1>13, <1>14, <1>18 DEF IInv

\* The client gives up when nothing is under way; a server that listens stays.
LEMMA TimeoutKept ==
  ASSUME IInv, ClientTimeout
  PROVE  IInv'
<1>1. PICK outcome \in {"timeout", "renamedUnread", "cancelled"} : Report(outcome)
  BY DEF ClientTimeout
<1>2. /\ client_state \in Waits /\ Silent /\ UNCHANGED <<server, conn>>
      /\ UNCHANGED <<toServer, toClient, cmd, agreed, before, blind, typed, lost>>
  BY DEF ClientTimeout, clientOnly
<1>3. client_state' = "prompt" /\ result' = outcome
  BY <1>1 DEF Report
<1>4. toClient = << >> /\ server_state \in {"loop", "down", "accept"}
  BY <1>2 DEF Silent
<1>5. /\ server_state = "loop" => toServer = << >>
      /\ server_state = "accept" => Stuck /\ conn = "none"
  BY <1>2, <1>4 DEF Silent, IInv, PlacesFit, Waits
<1>6. conn = "none"
  BY <1>2, <1>4, <1>5 DEF IInv, PlacesFit, Waits
<1>7. UNCHANGED <<server_state, filename, new_filename, current_tcp_port, disk,
                  misread>>
      /\ ServerOK'
  BY <1>2, ServerStays DEF IInv, TypeOK
<1>8. ClientOK' /\ QueuesOK'
  BY <1>2, <1>3, TypeParts DEF IInv, ClientOK, QueuesOK, ClientPlaces, Outcomes
<1>9. TypeOK'
  BY <1>7, <1>8 DEF TypeOK, ServerOK, QueuesOK, ClientOK
<1>10. CommandFits' /\ ReportsAreTrue'
  BY <1>3 DEF CommandFits, ReportsAreTrue, Sending, Renaming
<1>11. RequestsInLoop' /\ AnswersFit'
  BY <1>2, <1>4, <1>5, <1>7, NoRequest DEF RequestsInLoop, AnswersFit
<1>12. PlacesFit'
  BY <1>2, <1>3, <1>4, <1>5, <1>6, <1>7 DEF PlacesFit, Stuck
<1>. QED
  BY <1>9, <1>10, <1>11, <1>12 DEF IInv

-----------------------------------------------------------------------------
(* The network, and the whole.                                             *)

LEMMA LossKept ==
  ASSUME IInv, Lose
  PROVE  IInv'
<1>1. /\ lost' = lost + 1
      /\ \/ toServer # << >> /\ toServer' = Tail(toServer) /\ UNCHANGED toClient
         \/ toClient # << >> /\ toClient' = Tail(toClient) /\ UNCHANGED toServer
      /\ UNCHANGED server /\ UNCHANGED conn
      /\ UNCHANGED <<client_state, cmd, agreed, result, before, blind, typed>>
  BY DEF Lose, client
<1>2. UNCHANGED <<server_state, filename, new_filename, current_tcp_port, disk,
                  misread>>
      /\ ServerOK'
  BY <1>1, ServerStays DEF IInv, TypeOK
<1>3. ClientOK' /\ lost' > 0
  BY <1>1, TypeParts DEF IInv, ClientOK
<1>4. toServer \in Seq(Datagrams) /\ toClient \in Seq(Datagrams)
  BY DEF IInv, TypeOK
<1>5. CommandFits' /\ ReportsAreTrue'
  BY <1>1, <1>2 DEF IInv, CommandFits, ReportsAreTrue, IsLarge
<1>6. CASE toServer # << >> /\ toServer' = Tail(toServer) /\ UNCHANGED toClient
  <2>1. /\ toServer' \in Seq(Datagrams) /\ Len(toServer) \in Nat
        /\ Len(toServer') = Len(toServer) - 1
    BY <1>4, <1>6, TailOf
  <2>2. TypeOK'
    BY <1>2, <1>3, <1>4, <1>6, <2>1 DEF TypeOK, ServerOK, ClientOK
  <2>3. RequestsInLoop'
    <3>1. CASE server_state = "loop"
      BY <1>1, <1>2, <1>6, <3>1, TailKept
    <3>2. CASE server_state # "loop"
      BY <1>2, <3>2 DEF RequestsInLoop
    <3>. QED
      BY <3>1, <3>2
  <2>4. AnswersFit'
    BY <1>1, <1>2, <1>6
    DEF IInv, AnswersFit, Answers, GoAhead, Free, Accepted, Renamed, IsLarge
  <2>5. /\ server_state \notin {"small", "recv"}
        /\ server_state = "accept" => Stuck /\ conn = "none"
    BY <1>6 DEF IInv, PlacesFit, Quiet, Streaming
  <2>6. server_state \in {"newName", "confirm"} => toServer' = << >> /\ Len(toServer') <= 1
    <3>1. server_state \in {"newName", "confirm"} => Len(toServer) <= 1
      BY <1>6 DEF IInv, PlacesFit, Quiet
    <3>2. toServer' = << >> <=> Len(toServer') = 0
      BY <2>1, NoneLeft
    <3>3. Len(toServer') \in Nat
      BY <2>1, LenProperties
    <3>. QED
      BY <2>1, <3>1, <3>2, <3>3
  <2>7. Stuck => Stuck'
    BY <1>1, <1>3, <1>6 DEF Stuck
  <2>8. /\ server_state = "newName" =>
             /\ client_state = "rename" /\ toClient = << >>
             /\ filename = cmd.name /\ disk = before
        /\ server_state = "confirm" =>
             /\ client_state \in Renaming /\ filename = cmd.name
             /\ new_filename = cmd.new /\ toClient = << >>
        /\ server_state \notin {"accept", "recv"} =>
             /\ client_state # "connect"
             /\ conn = IF client_state = "stream" THEN "reset" ELSE "none"
    BY <1>6 DEF IInv, PlacesFit, Quiet
  <2>9. PlacesFit'
    BY <1>1, <1>2, <1>6, <2>5, <2>6, <2>7, <2>8 DEF PlacesFit
  <2>. QED
    BY <1>5, <2>2, <2>3, <2>4, <2>9 DEF IInv
<1>7. CASE toClient # << >> /\ toClient' = Tail(toClient) /\ UNCHANGED toServer
  <2>1. /\ toClient' \in Seq(Datagrams) /\ Len(toClient) \in Nat
        /\ Len(toClient') = Len(toClient) - 1 /\ Len(toClient) > 0
    BY <1>4, <1>7, TailOf
  <2>2. toClient' = << >>
    <3>1. Len(toClient) <= 1
      BY DEF IInv, AnswersFit
    <3>2. Len(toClient') = 0
      BY <2>1, <3>1
    <3>. QED
      BY <2>1, <3>2, NoneLeft
  <2>3. TypeOK'
    BY <1>2, <1>3, <1>4, <1>7, <2>1 DEF TypeOK, ServerOK, ClientOK
  <2>4. server_state = "loop" => \A i \in 1..Len(toServer) : Idle(toServer[i])
    BY <1>7, QueueIdle
  <2>5. RequestsInLoop' /\ AnswersFit'
    <3>1. toServer' = toServer
      BY <1>7
    <3>2. RequestsInLoop'
      BY <1>2, <2>4, <3>1 DEF RequestsInLoop, Idle
    <3>3. AnswersFit'
      BY ONLY <2>2 DEF AnswersFit
    <3>. QED
      BY <3>2, <3>3
  <2>6. client_state \in Waits
    BY <1>7 DEF IInv, AnswersFit, Answers
  <2>7. /\ server_state \notin {"small", "newName", "recv"}
        /\ server_state = "accept" => conn = "none"
        /\ server_state = "confirm" =>
             /\ client_state \in Renaming /\ filename = cmd.name
             /\ new_filename = cmd.new /\ toServer = << >>
        /\ server_state # "accept" =>
             /\ client_state # "connect"
             /\ conn = IF client_state = "stream" THEN "reset" ELSE "none"
    BY <1>7 DEF IInv, PlacesFit, Quiet, Streaming
  <2>8. Stuck'
    BY <1>1, <1>3, <2>2, <2>6 DEF Stuck
  <2>9. Len(<< >>) <= 1
    OBVIOUS
  <2>10. PlacesFit'
    BY <1>1, <1>2, <1>7, <2>2, <2>7, <2>8, <2>9 DEF PlacesFit
  <2>. QED
    BY <1>5, <2>3, <2>5, <2>10 DEF IInv
<1>. QED
  BY <1>1, <1>6, <1>7

LEMMA InitOK ==
  ASSUME Init
  PROVE  IInv
<1>1. disk \in Disks /\ before \in Disks
  BY DEF Init, Disks
<1>2. ServerOK
  BY <1>1, LabAssumption DEF Init, ServerOK, ServerPlaces
<1>3. QueuesOK
  BY DEF Init, QueuesOK
<1>4. ClientOK
  BY <1>1 DEF Init, ClientOK, ClientPlaces, Outcomes, Commands
<1>5. TypeOK
  BY <1>2, <1>3, <1>4, TypeParts
<1>6. RequestsInLoop /\ AnswersFit
  BY DEF Init, RequestsInLoop, AnswersFit
<1>7. CommandFits /\ PlacesFit /\ ReportsAreTrue
  BY DEF Init, CommandFits, PlacesFit, ReportsAreTrue, Sending, Renaming
<1>. QED
  BY <1>5, <1>6, <1>7 DEF IInv

LEMMA StutterOK ==
  ASSUME IInv, UNCHANGED vars
  PROVE  IInv'
<1>1. UNCHANGED <<server_state, filename, new_filename, current_tcp_port, disk, toServer,
                  toClient, conn, client_state, cmd, agreed, result, before, blind,
                  misread, typed, lost>>
  BY DEF vars, server, own, locals, client
<1>2. TypeOK'
  BY <1>1 DEF IInv, TypeOK
<1>3. CommandFits' /\ ReportsAreTrue'
  BY <1>1 DEF IInv, CommandFits, ReportsAreTrue, IsLarge
<1>4. RequestsInLoop'
  BY <1>1 DEF IInv, RequestsInLoop, Idle, Current, Confirms, IsLarge
<1>5. AnswersFit'
  BY <1>1 DEF IInv, AnswersFit, Answers, GoAhead, Free, Accepted, Renamed, IsLarge
<1>6. PlacesFit'
  BY <1>1 DEF IInv, PlacesFit, Quiet, Streaming, Stuck, Free, IsLarge, Confirms, Misled
<1>. QED
  BY <1>2, <1>3, <1>4, <1>5, <1>6 DEF IInv

LEMMA NextOK ==
  ASSUME IInv, [Next]_vars
  PROVE  IInv'
<1>1. CASE ServerStep
  BY <1>1, LsKept, SendKept, OverwriteKept, RemoveKept, RenameKept, ShutdownKept,
     UnknownKept, SmallKept, AcceptKept, LargeKept, NotYetKept, NewNameKept,
     ConfirmedKept
  DEF ServerStep
<1>2. CASE UserStep
  BY <1>2, LsTyped, SendTyped, RemoveTyped, RenameTyped, ShutdownTyped,
     OverwriteAskedKept, RenameAskedKept
  DEF UserStep
<1>3. CASE ClientStep
  BY <1>3, LsReported, SendGoesOn, SmallReported, DeclineReported, ReadyKept, ConnectKept, StreamKept,
     LargeReported, RemoveReported, RenameGoesOn, RenameOverwriteReported, TimeoutKept
  DEF ClientStep
<1>4. CASE Lose
  BY <1>4, LossKept
<1>5. CASE UNCHANGED vars
  BY <1>5, StutterOK
<1>. QED
  BY <1>1, <1>2, <1>3, <1>4, <1>5 DEF Next

LEMMA Invariance == Spec => []IInv
<1>. QED
  BY InitOK, NextOK, PTL DEF Spec

\* The variables hold what their declarations say.
THEOREM TypeCorrect == Spec => []TypeOK
<1>1. IInv => TypeOK
  BY DEF IInv
<1>. QED
  BY <1>1, Invariance, PTL

\* What the client prints of a command is so (client.cc): a large file reported
\* sent is stored, whole or cut short, one removed is gone, one renamed has moved.
THEOREM ReportsTrue == Spec => []ReportsAreTrue
<1>1. IInv => ReportsAreTrue
  BY DEF IInv
<1>. QED
  BY <1>1, Invariance, PTL

\* accept() is waited in for a client that is told the port (server.cc), but for
\* losses, confirmations left unset and contents taken for commands.
THEOREM AcceptAwaited == Spec => []AcceptIsAwaited
<1>1. ASSUME IInv, server_state = "accept", conn = "none", lost = 0, ~ blind, ~ misread
      PROVE  \/ \E i \in 1..Len(toClient) : toClient[i].port = current_tcp_port
             \/ client_state = "connect" /\ cmd.port = current_tcp_port
  <2>1. \/ toClient # << >> /\ toClient[1].port = current_tcp_port
        \/ client_state = "connect" /\ cmd.port = current_tcp_port
    BY <1>1 DEF IInv, PlacesFit, Stuck, Quiet
  <2>2. toClient # << >> => 1 \in 1..Len(toClient)
    BY <1>1, NoneLeft, LenProperties DEF IInv, TypeOK
  <2>. QED
    BY <2>1, <2>2
<1>2. IInv => AcceptIsAwaited
  BY <1>1 DEF AcceptIsAwaited, IInv, TypeOK
<1>. QED
  BY <1>2, Invariance, PTL

\* The step of the server that touches a whole file.
LEMMA WholeFileTouched ==
  ASSUME IInv, Next, NEW n \in Names, disk[n] \in Contents, disk'[n] # disk[n]
  PROVE  \/ misread'
         \/ cmd.op \in {"REMOVE", "RENAME"} /\ cmd.name = n
         \/ agreed = n
<1>1. disk \in Disks /\ Absent \notin Contents /\ Damaged \notin Contents
  BY LabAssumption DEF IInv, TypeOK
<1>2. \/ ProcessRemove \/ SmallFileReceive \/ AcceptConnection \/ LargeFileEnds
      \/ NewNameCame \/ ConfirmationCame
  <2>1. ProcessOverwrite => UNCHANGED disk
    BY DEF ProcessOverwrite, Answer, Listen
  <2>2. ProcessSend \/ ProcessLs \/ ProcessRename => UNCHANGED disk
    BY DEF ProcessSend, ProcessLs, ProcessRename, Listen, Answer, own
  <2>3. ProcessShutdown \/ UnknownCommand \/ NotYetCome => UNCHANGED disk
    BY DEF ProcessShutdown, UnknownCommand, NotYetCome
  <2>4. UserStep => UNCHANGED disk
    BY DEF UserStep, ls, send, remove, rename, shutdown, Issue, OverwriteAsked,
           RenameOverwriteAsked, clientOnly, server, own
  <2>5. ClientStep => UNCHANGED disk
    BY DEF ClientStep, LsAnswered, SendAnswered, DeclineAnswered, ReadyAnswered, Connect,
           StreamFile, SmallFileAnswered, LargeFileAnswered, RemoveAnswered, RenameAnswered,
           RenameOverwriteAnswered, ClientTimeout, ClientReceives, clientOnly, tcpOnly,
           server, own
  <2>6. Lose => UNCHANGED disk
    BY DEF Lose, server, own
  <2>. QED
    BY <2>1, <2>2, <2>3, <2>4, <2>5, <2>6 DEF Next, ServerStep
<1>3. CASE ProcessRemove
  <2>1. PICK m \in FirstOf(toServer) :
          /\ Serve(m, "REMOVE")
          /\ disk' = disk \/ disk' = [disk EXCEPT ![m.filename] = Absent]
    BY <1>3 DEF ProcessRemove, Answer
  <2>a. m.data \in SmallFiles => misread'
    BY <2>1, ReadNoted DEF Serve
  <2>2. server_state = "loop" /\ ~ Idle(m) /\ m.cmd = "REMOVE"
    BY <2>1 DEF Serve, Idle
  <2>3. Current(m)
    BY <2>2, LoopHead
  <2>4. misread' \/ (cmd.op = "REMOVE" /\ m.filename = cmd.name)
    BY <2>2, <2>3, <2>a DEF Current, Confirms, IInv, CommandFits
  <2>. QED
    BY <1>1, <2>1, <2>4 DEF Disks
<1>4. CASE SmallFileReceive
  <2>1. server_state = "small"
    BY <1>4 DEF SmallFileReceive
  <2>2. toServer = << >>
    BY <2>1 DEF IInv, PlacesFit, Quiet
  <2>3. \A m \in FirstOf(toServer) : FALSE
    BY <2>2, First
  <2>4. disk' = disk
    BY <1>4, <2>3 DEF SmallFileReceive
  <2>. QED
    BY <2>4
<1>5. CASE AcceptConnection
  <2>1. /\ server_state = "accept" /\ conn # "none"
        /\ disk' = disk \/ disk' = [disk EXCEPT ![filename] = Damaged]
    BY <1>5 DEF AcceptConnection
  <2>2. filename = cmd.name /\ Free
    BY <2>1 DEF IInv, PlacesFit, Streaming
  <2>3. n = cmd.name
    BY <1>1, <2>1, <2>2 DEF Disks
  <2>. QED
    BY <2>2, <2>3 DEF Free
<1>6. CASE LargeFileEnds
  <2>1. PICK w \in Written(conn) :
          server_state = "recv" /\ disk' = [disk EXCEPT ![filename] = w]
    BY <1>6 DEF LargeFileEnds
  <2>2. disk[filename] = Damaged
    BY <2>1 DEF IInv, PlacesFit
  <2>. QED
    BY <1>1, <2>1, <2>2 DEF Disks
<1>7. CASE NewNameCame
  <2>0. SUFFICES ASSUME ~ misread'
                 PROVE  cmd.op \in {"REMOVE", "RENAME"} /\ cmd.name = n
    OBVIOUS
  <2>1. PICK m \in FirstOf(toServer), k \in Names :
          /\ server_state = "newName" /\ Read(m) /\ k \in NamesIn(m.data)
          /\ disk' = disk \/ (k \notin Files /\ disk' = Move(disk, filename, k))
    BY <1>7 DEF NewNameCame, Rename, NamesIn
  <2>a. ~ misread
    BY <2>0, <2>1, ReadNoted DEF Noted
  <2>2. /\ filename = cmd.name /\ client_state = "rename" /\ toServer # << >>
        /\ toServer[1].data = cmd.new /\ m = Head(toServer)
    BY <2>1, <2>a, First DEF IInv, PlacesFit, Misled
  <2>3. Head(toServer) = toServer[1]
    BY <2>2, TailOf DEF IInv, TypeOK
  <2>4. cmd.op = "RENAME" /\ cmd.name \in Names /\ cmd.new \in Names
    BY <2>2 DEF IInv, CommandFits, Renaming
  <2>b. k = cmd.new
    BY <2>1, <2>2, <2>3, <2>4 DEF NamesIn
  <2>5. disk[cmd.new] = Absent /\ disk' = Move(disk, cmd.name, cmd.new)
    BY <2>1, <2>2, <2>4, <2>b DEF Files
  <2>6. n = cmd.name
    BY <1>1, <2>4, <2>5 DEF Move, Disks
  <2>. QED
    BY <2>4, <2>6
<1>8. CASE ConfirmationCame
  <2>1. PICK m \in FirstOf(toServer) :
          /\ server_state = "confirm"
          /\ \/ disk' = disk
             \/ /\ m.error = 0
                /\ \E d \in {disk, [disk EXCEPT ![new_filename] = Absent]} :
                     disk' = d \/ disk' = Move(d, filename, new_filename)
    BY <1>8 DEF ConfirmationCame, Rename, Answer
  <2>2. /\ filename = cmd.name /\ new_filename = cmd.new /\ client_state \in Renaming
        /\ toServer # << >> /\ Confirms(toServer[1]) /\ m = Head(toServer)
    BY <2>1, First DEF IInv, PlacesFit
  <2>3. Head(toServer) = toServer[1]
    BY <2>2, TailOf DEF IInv, TypeOK
  <2>4. cmd.op = "RENAME" /\ cmd.name \in Names /\ cmd.new \in Names
    BY <2>2 DEF IInv, CommandFits
  <2>5. agreed = cmd.new
    BY <2>1, <2>2, <2>3 DEF Confirms, Renaming
  <2>6. n \in {cmd.name, cmd.new}
    BY <1>1, <2>1, <2>2, <2>4 DEF Move, Disks
  <2>. QED
    BY <2>4, <2>5, <2>6
<1>. QED
  BY <1>2, <1>3, <1>4, <1>5, <1>6, <1>7, <1>8

\* A whole file is replaced or goes only in its own removal or rename, or by the
\* user's word (server.cc's OVERWRITE, which knows nothing of the SEND before).
THEOREM OnlyAsked == Spec => OnlyWhatWasAsked
<1> DEFINE Asked ==
      misread' \/ \A n \in Names : disk[n] \in Contents /\ disk'[n] # disk[n] =>
        \/ cmd.op \in {"REMOVE", "RENAME"} /\ cmd.name = n
        \/ agreed = n
<1>1. IInv /\ [Next]_vars => [Asked]_vars
  BY WholeFileTouched
<1>. QED
  BY <1>1, Invariance, PTL DEF OnlyWhatWasAsked, Spec

-----------------------------------------------------------------------------
(* Contents that begin with text.                                          *)

TextOnly == \A d \in SmallFiles : ReadAs[d].cmd = "DATA"

\* No command, if it is a content.
Plain(m) == m.data \in SmallFiles => m.cmd = "DATA"
TextQueued == \A i \in 1..Len(toServer) : Plain(toServer[i])

LEMMA PlainCommands ==
  /\ \A c, n, l, e : Plain(CmdMsg(c, n, l, e))
  /\ \A d : Plain(DataMsg(d))
  /\ TextOnly => \A d \in SmallFiles : Plain(ContentMsg(d))
<1>1. Absent \notin SmallFiles
  BY LabAssumption DEF Contents
<1>2. \A c, n, l, e : CmdMsg(c, n, l, e).data = Absent
  BY DEF CmdMsg, Message
<1>3. TextOnly => \A d \in SmallFiles : Plain(ContentMsg(d))
  BY ContentTypes DEF TextOnly, Plain
<1>. QED
  BY <1>1, <1>2, <1>3, Fields DEF Plain

\* What is sent comes behind.
LEMMA SentPlain ==
  ASSUME IInv, TextQueued, NEW ms \in Seq(Datagrams), sendCommand(ms),
         \A i \in 1..Len(ms) : Plain(ms[i])
  PROVE  TextQueued'
<1> DEFINE q == toServer \o ms
<1>1. toServer \in Seq(Datagrams)
  BY DEF IInv, TypeOK
<1>2. /\ q \in Seq(Datagrams) /\ Len(q) = Len(toServer) + Len(ms)
      /\ \A i \in 1..Len(toServer) : q[i] = toServer[i]
      /\ \A i \in 1..Len(ms) : q[Len(toServer) + i] = ms[i]
  BY <1>1, Queued
<1>3. toServer' = << >> \/ toServer' = q
  BY DEF sendCommand
<1>4. Len(toServer) \in Nat /\ Len(ms) \in Nat
  BY <1>1, LenProperties
<1> HIDE DEF q
<1>5. \A i \in 1..Len(q) : Plain(q[i])
  <2>1. SUFFICES ASSUME NEW i \in 1..Len(q) PROVE Plain(q[i])
    OBVIOUS
  <2>2. CASE i \in 1..Len(toServer)
    BY <1>2, <2>2 DEF TextQueued
  <2>3. CASE i \notin 1..Len(toServer)
    <3> DEFINE j == i - Len(toServer)
    <3>1. j \in 1..Len(ms) /\ i = Len(toServer) + j
      BY <1>2, <1>4, <2>1, <2>3
    <3> HIDE DEF j
    <3>. QED
      BY <1>2, <3>1
  <2>. QED
    BY <2>2, <2>3
<1>. QED
  BY <1>3, <1>5 DEF TextQueued, Plain

LEMMA TakenPlain ==
  ASSUME IInv, TextQueued, toServer # << >>
  PROVE  Plain(Head(toServer)) /\ (toServer' = Tail(toServer) => TextQueued')
<1>1. toServer \in Seq(Datagrams)
  BY DEF IInv, TypeOK
<1>2. /\ Len(toServer) \in Nat /\ Len(toServer) > 0 /\ Head(toServer) = toServer[1]
      /\ Len(Tail(toServer)) = Len(toServer) - 1
      /\ \A i \in 1..Len(Tail(toServer)) : Tail(toServer)[i] = toServer[i + 1]
  BY <1>1, TailOf
<1>3. \A i \in 1..Len(Tail(toServer)) : i + 1 \in 1..Len(toServer)
  BY <1>2
<1>. QED
  BY <1>2, <1>3 DEF TextQueued, Plain

\* The commands that the user types are no contents.
LEMMA TypedPlain ==
  ASSUME IInv, TextQueued, UserStep
  PROVE  TextQueued'
<1>1. ASSUME NEW o, NEW a \in Datagrams, NEW w, Issue(o, <<a>>, w), Plain(a)
      PROVE  TextQueued'
  <2>1. PICK ms \in Seq(Datagrams) : ms = <<a>> /\ Len(ms) = 1 /\ ms[1] = a
    BY OneMessage
  <2>2. sendCommand(ms)
    BY <1>1, <2>1 DEF Issue
  <2>3. \A i \in 1..Len(ms) : Plain(ms[i])
    BY <1>1, <2>1
  <2>. QED
    BY <2>2, <2>3, SentPlain
<1>2. \A c \in Commands, n \in Names \cup {Absent}, l \in BOOLEAN, e \in {0, 1} :
        CmdMsg(c, n, l, e) \in Datagrams /\ Plain(CmdMsg(c, n, l, e))
  BY MessageTypes, PlainCommands
<1>3. CASE ls
  <2>1. CmdMsg("LS", Absent, FALSE, 0) \in Datagrams /\ Plain(CmdMsg("LS", Absent, FALSE, 0))
    BY <1>2 DEF Commands
  <2>. QED
    BY <1>1, <1>3, <2>1 DEF ls
<1>4. CASE send
  <2>1. PICK n \in Names, d \in Contents :
          Issue(Operation("SEND", n, Absent, d),
                <<CmdMsg("SEND", n, d \in LargeFiles, 0)>>, "send")
    BY <1>4 DEF send
  <2>2. CmdMsg("SEND", n, d \in LargeFiles, 0) \in Datagrams
    BY DEF CmdMsg, Message, Datagrams, Datum, Commands
  <2>3. Plain(CmdMsg("SEND", n, d \in LargeFiles, 0))
    BY PlainCommands
  <2>. QED
    BY <1>1, <2>1, <2>2, <2>3
<1>5. CASE remove
  <2>1. PICK n \in Names :
          Issue(Operation("REMOVE", n, Absent, Absent),
                <<CmdMsg("REMOVE", n, FALSE, 0)>>, "remove")
    BY <1>5 DEF remove
  <2>2. CmdMsg("REMOVE", n, FALSE, 0) \in Datagrams /\ Plain(CmdMsg("REMOVE", n, FALSE, 0))
    BY <1>2 DEF Commands
  <2>. QED
    BY <1>1, <2>1, <2>2
<1>6. CASE rename
  <2>1. PICK old \in Names, new \in Names :
          sendCommand(<<CmdMsg("RENAME", old, FALSE, 0), DataMsg(new)>>)
    BY <1>6 DEF rename, Issue
  <2>2. PICK a \in Datagrams : a = CmdMsg("RENAME", old, FALSE, 0) /\ Plain(a)
    BY <1>2 DEF Commands
  <2>3. PICK b \in Datagrams : b = DataMsg(new) /\ Plain(b)
    BY DataTypes, PlainCommands DEF Datum
  <2>4. PICK ms \in Seq(Datagrams) :
          ms = <<a, b>> /\ Len(ms) = 2 /\ ms[1] = a /\ ms[2] = b
    <3>1. /\ <<a, b>> \in Seq(Datagrams) /\ Len(<<a, b>>) = 2
          /\ <<a, b>>[1] = a /\ <<a, b>>[2] = b
      BY TwoMessages
    <3>. QED
      BY <3>1
  <2>4a. ms = <<CmdMsg("RENAME", old, FALSE, 0), DataMsg(new)>>
    <3>1. a = CmdMsg("RENAME", old, FALSE, 0) /\ b = DataMsg(new) /\ ms = <<a, b>>
      BY <2>2, <2>3, <2>4
    <3>. QED
      BY <3>1, Zenon
  <2>5. sendCommand(ms)
    BY <2>1, <2>4a, Zenon
  <2>6. \A i \in 1..Len(ms) : Plain(ms[i])
    <3>1. \A i \in 1..Len(ms) : i = 1 \/ i = 2
      BY <2>4
    <3>. QED
      BY <2>2, <2>3, <2>4, <3>1
  <2>. QED
    BY <2>5, <2>6, SentPlain
<1>7. CASE shutdown
  <2>1. /\ CmdMsg("SHUTDOWN", Absent, FALSE, 0) \in Datagrams
        /\ Plain(CmdMsg("SHUTDOWN", Absent, FALSE, 0))
    BY <1>2 DEF Commands
  <2>. QED
    BY <1>1, <1>7, <2>1 DEF shutdown
<1>8. ASSUME NEW n \in Names \cup {Absent}, NEW l \in BOOLEAN, NEW e \in {0, 1},
             sendCommand(<<CmdMsg("OVERWRITE", n, l, e)>>)
      PROVE  TextQueued'
  <2>1. PICK a \in Datagrams : a = CmdMsg("OVERWRITE", n, l, e) /\ Plain(a)
    BY <1>2 DEF Commands
  <2>2. PICK ms \in Seq(Datagrams) : ms = <<a>> /\ Len(ms) = 1 /\ ms[1] = a
    BY OneMessage
  <2>3. sendCommand(ms)
    BY <1>8, <2>1, <2>2
  <2>4. \A i \in 1..Len(ms) : Plain(ms[i])
    BY <2>1, <2>2
  <2>. QED
    BY <2>3, <2>4, SentPlain
<1>9. CASE OverwriteAsked
  <2>1. PICK yes \in BOOLEAN :
          sendCommand(<<CmdMsg("OVERWRITE", IF yes THEN cmd.name ELSE Absent,
                               yes /\ IsLarge, IF yes THEN 0 ELSE 1)>>)
    BY <1>9 DEF OverwriteAsked
  <2>2. cmd.name \in Names \cup {Absent}
    BY DEF IInv, TypeOK
  <2>3. PICK n \in Names \cup {Absent}, l \in BOOLEAN, e \in {0, 1} :
          /\ n = IF yes THEN cmd.name ELSE Absent
          /\ l = (yes /\ IsLarge) /\ e = IF yes THEN 0 ELSE 1
    BY <2>2
  <2>. QED
    BY <1>8, <2>1, <2>3
<1>10. CASE RenameOverwriteAsked
  <2>1. PICK yes \in BOOLEAN, n \in Names \cup {Absent}, l \in BOOLEAN :
          sendCommand(<<CmdMsg("OVERWRITE", n, l, IF yes THEN 0 ELSE 1)>>)
    BY <1>10 DEF RenameOverwriteAsked
  <2>2. PICK e \in {0, 1} : e = IF yes THEN 0 ELSE 1
    OBVIOUS
  <2>. QED
    BY <1>8, <2>1, <2>2
<1>. QED
  BY <1>3, <1>4, <1>5, <1>6, <1>7, <1>9, <1>10 DEF UserStep

LEMMA PlainKept ==
  ASSUME IInv, TextQueued, TextOnly, [Next]_vars
  PROVE  TextQueued'
<1>1. ASSUME UNCHANGED toServer PROVE TextQueued'
  BY <1>1 DEF TextQueued, Plain
<1>2. ASSUME toServer' = << >> PROVE TextQueued'
  BY <1>2 DEF TextQueued
<1>3. ASSUME NEW m \in FirstOf(toServer), toServer' = Tail(toServer) PROVE TextQueued'
  BY <1>3, First, TakenPlain
<1>4. CASE ServerStep
  <2>1. ASSUME ProcessLs \/ ProcessSend \/ ProcessOverwrite \/ ProcessRemove
               \/ ProcessRename
        PROVE  TextQueued'
    BY <1>3, <2>1 DEF ProcessLs, ProcessSend, ProcessOverwrite, ProcessRemove,
                      ProcessRename, Serve
  <2>2. ASSUME UnknownCommand \/ NewNameCame \/ ConfirmationCame PROVE TextQueued'
    BY <1>3, <2>2 DEF UnknownCommand, NewNameCame, ConfirmationCame
  <2>3. CASE ProcessShutdown
    BY <1>2, <2>3 DEF ProcessShutdown
  <2>4. CASE AcceptConnection \/ LargeFileEnds \/ NotYetCome
    BY <1>1, <2>4 DEF AcceptConnection, LargeFileEnds, NotYetCome
  <2>5. CASE SmallFileReceive
    <3>1. server_state = "small"
      BY <2>5 DEF SmallFileReceive
    <3>2. toServer = << >>
      BY <3>1 DEF IInv, PlacesFit, Quiet
    <3>3. \A m \in FirstOf(toServer) : FALSE
      BY <3>2, First
    <3>4. toServer' = toServer
      BY <2>5, <3>3 DEF SmallFileReceive
    <3>. QED
      BY <1>1, <3>4
  <2>. QED
    BY <1>4, <2>1, <2>2, <2>3, <2>4, <2>5 DEF ServerStep
<1>5. CASE UserStep
  BY <1>5, TypedPlain
<1>6. CASE ClientStep
  <2>1. CASE SendAnswered
    <3>1. \/ UNCHANGED toServer
          \/ client_state = "send" /\ ~ IsLarge /\ sendCommand(<<ContentMsg(cmd.data)>>)
      BY <2>1 DEF SendAnswered, ConnectTo, ClientReceives
    <3>2. CASE client_state = "send" /\ ~ IsLarge /\ sendCommand(<<ContentMsg(cmd.data)>>)
      <4>1. cmd.data \in SmallFiles
        BY <3>2 DEF IInv, CommandFits, Sending, Contents, IsLarge
      <4>2. PICK a \in Datagrams : a = ContentMsg(cmd.data) /\ Plain(a)
        BY <4>1, ContentTypes, PlainCommands
      <4>3. PICK ms \in Seq(Datagrams) : ms = <<a>> /\ Len(ms) = 1 /\ ms[1] = a
        BY OneMessage
      <4>4. sendCommand(ms) /\ \A i \in 1..Len(ms) : Plain(ms[i])
        BY <3>2, <4>2, <4>3
      <4>. QED
        BY <4>4, SentPlain
    <3>. QED
      BY <1>1, <3>1, <3>2
  <2>2. ClientStep /\ ~ SendAnswered => UNCHANGED toServer
    BY DEF ClientStep, LsAnswered, SmallFileAnswered, DeclineAnswered, ReadyAnswered,
           Connect, StreamFile, LargeFileAnswered, RemoveAnswered, RenameAnswered,
           RenameOverwriteAnswered, ClientTimeout, ConnectTo, tcpOnly
  <2>. QED
    BY <1>1, <1>6, <2>1, <2>2
<1>7. CASE Lose
  <2>1. UNCHANGED toServer \/ (toServer # << >> /\ toServer' = Tail(toServer))
    BY <1>7 DEF Lose
  <2>. QED
    BY <1>1, <2>1, TakenPlain
<1>8. CASE UNCHANGED vars
  BY <1>1, <1>8 DEF vars
<1>. QED
  BY <1>4, <1>5, <1>6, <1>7, <1>8 DEF Next

LEMMA NothingMisread ==
  ASSUME IInv, TextQueued, ~ misread, [Next]_vars
  PROVE  ~ misread'
<1>1. ASSUME NEW m \in FirstOf(toServer), m.cmd # "DATA", Read(m)
      PROVE  ~ misread'
  BY <1>1, First, TakenPlain DEF Plain, Read
<1>2. ASSUME ProcessLs \/ ProcessSend \/ ProcessOverwrite \/ ProcessRemove
             \/ ProcessRename \/ ProcessShutdown
      PROVE  ~ misread'
  BY <1>1, <1>2 DEF ProcessLs, ProcessSend, ProcessOverwrite, ProcessRemove,
                    ProcessRename, ProcessShutdown, Serve
<1>3. CASE ConfirmationCame
  <2>1. PICK m \in FirstOf(toServer) : server_state = "confirm" /\ Read(m)
    BY <1>3 DEF ConfirmationCame
  <2>2. toServer # << >> /\ m = Head(toServer) /\ Head(toServer) = toServer[1]
    BY <2>1, First, TailOf DEF IInv, TypeOK
  <2>3. m.cmd = "OVERWRITE"
    BY <2>1, <2>2 DEF IInv, PlacesFit, Confirms
  <2>. QED
    BY <1>1, <2>1, <2>3
<1>4. CASE NewNameCame
  <2>1. PICK m \in FirstOf(toServer) : server_state = "newName" /\ Read(m)
    BY <1>4 DEF NewNameCame
  <2>2. toServer # << >> /\ m = Head(toServer) /\ Head(toServer) = toServer[1]
    BY <2>1, First, TailOf DEF IInv, TypeOK
  <2>3. m.data = cmd.new /\ client_state = "rename"
    BY <2>1, <2>2 DEF IInv, PlacesFit, Misled
  <2>4. m.data \notin SmallFiles
    BY <2>3, LabAssumption DEF IInv, CommandFits, Renaming, Contents
  <2>. QED
    BY <2>1, <2>4 DEF Read
<1>5. UnknownCommand \/ SmallFileReceive \/ AcceptConnection \/ LargeFileEnds \/ NotYetCome
        => UNCHANGED misread
  BY DEF UnknownCommand, SmallFileReceive, AcceptConnection, LargeFileEnds, NotYetCome
<1>6. UserStep => UNCHANGED misread
  BY DEF UserStep, ls, send, remove, rename, shutdown, Issue, OverwriteAsked,
         RenameOverwriteAsked, clientOnly, server
<1>7. ClientStep => UNCHANGED misread
  BY DEF ClientStep, LsAnswered, SendAnswered, SmallFileAnswered, DeclineAnswered,
         ReadyAnswered, Connect, StreamFile, LargeFileAnswered, RemoveAnswered,
         RenameAnswered, RenameOverwriteAnswered, ClientTimeout, ClientReceives,
         clientOnly, tcpOnly, server
<1>8. Lose \/ UNCHANGED vars => UNCHANGED misread
  BY DEF Lose, vars, server
<1>. QED
  BY <1>2, <1>3, <1>4, <1>5, <1>6, <1>7, <1>8 DEF Next, ServerStep

\* When no small file begins with the byte of a command (server.cc's main loop goes
\* by it), no content is ever taken for one: what is promised above but for that is
\* then promised without exception.
THEOREM TextIsTakenForNothing ==
  ASSUME TextOnly PROVE Spec => [](~ misread)
<1>1. Init => TextQueued /\ ~ misread
  BY DEF Init, TextQueued
<1>2. IInv /\ TextQueued /\ ~ misread /\ [Next]_vars => TextQueued' /\ ~ misread'
  BY PlainKept, NothingMisread
<1>. QED
  BY <1>1, <1>2, Invariance, PTL DEF Spec

=============================================================================
