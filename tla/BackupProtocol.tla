--------------------------- MODULE BackupProtocol ---------------------------
(***************************************************************************)
(* The remote backup system: the server's UDP command loop (server.cpp),   *)
(* the clients that talk to it (client.cpp), the datagrams and the TCP     *)
(* connections between them, and the backup directory.  A handler is one   *)
(* action up to each receive, and one action per outcome of the receive.   *)
(*                                                                         *)
(* The server's UDP socket is non-blocking (server.cpp:91-98), so that a   *)
(* receive inside a handler takes a datagram that has already arrived or   *)
(* fails at once; only select() in the main loop and accept() wait.        *)
(*                                                                         *)
(* Datagrams may be lost (up to MaxLost of them) and delayed; those of one *)
(* sender stay in order.  A datagram does not say what it is: each receive *)
(* reads the bytes that come as the structure it expects, whatever was     *)
(* sent.  HTTP requests, which other modules treat, and the console's text *)
(* are left out.                                                           *)
(***************************************************************************)
EXTENDS Naturals, Sequences

CONSTANTS Clients,        \* each with a UDP socket of its own
          Names,          \* the names users type
          ValidNames,     \* those that isValidFilename accepts
          Contents,       \* what a local file holds: no name, no state of conn
          SizeOf,         \* its size
          ReadAs,         \* what its first bytes are as a command, and as a name
          DATA_BUF_LEN,   \* the largest file that travels in a datagram
          Absent,         \* no file, or a field that is not set
          Damaged,        \* a content no client asked to store
          Partial,        \* what a write that fails leaves
          TcpPort,        \* config_.tcpPort
          LastPort,       \* the last TCP port the clients can reach
          MaxCommands,    \* bound: commands typed
          MaxLost,        \* bound: datagrams lost
          MayCrash,       \* whether clients may be killed
          MayDrop,        \* whether TCP connections may break
          LateAnswers     \* whether an answer may come after the client's 5 s

Codes == {"LS", "SEND", "REMOVE", "RENAME", "SHUTDOWN", "OVERWRITE"}
Readings == [cmd : Codes \cup {"DATA"}, filename : Names \cup {Absent},
             size : Nat, error : Nat, text : Names \cup {Absent}]

ASSUME BackupAssumption ==
  /\ ValidNames \subseteq Names
  /\ SizeOf \in [Contents -> Nat]
  /\ ReadAs \in [Contents -> Readings]
  /\ {DATA_BUF_LEN, TcpPort, LastPort, MaxCommands, MaxLost} \subseteq Nat
  /\ {MayCrash, MayDrop, LateAnswers} \subseteq BOOLEAN
  /\ {Absent, Damaged, Partial} \cap (Names \cup Contents) = {}
  /\ Absent \notin {Damaged, Partial}
  /\ Names \cap Contents = {}
  /\ {"none", "open", "reset", "cut"} \cap Contents = {}

VARIABLES
  pc,                  \* where the server waits
  currentClientAddr,   \* the last datagram's sender, and who is answered
  filename, filesize, newFilename,    \* locals of the handler
  currentTcpPort, peer,               \* the transfer port, who is accepted
  disk,                \* the backup directory
  toServer, toClient,  \* datagrams under way, per client
  conn,                \* each client's TCP connection, or what it streamed
  cpc, cmd, result,    \* each client: where it waits, command, last outcome
  before,              \* history: the directory when the command was typed
  misread,             \* history: a content was taken for something else
  typed, lost          \* counts that the bounds cap

locals  == <<filename, filesize, newFilename>>
tcp     == <<currentTcpPort, peer, conn>>
server  == <<pc, currentClientAddr, locals, currentTcpPort, peer, disk, misread>>
clients == <<cpc, cmd, result, before>>
vars == <<server, conn, toServer, toClient, clients, typed, lost>>

Message(c, n, s, e, d) ==
  [cmd |-> c, filename |-> n, size |-> s, error |-> e, data |-> d]
CmdMsg(c, n, s, e) == Message(c, n, s, e, Absent)
Ack(s, e) == CmdMsg("ACK", Absent, s, e)

\* A DataMsg is bytes and nothing else.  Where a CmdMsg is expected, typed names
\* and lists are no command, since they begin with text; a file's content,
\* which the client reads as binary, is the command that its first byte says.
DataMsg(d) ==
  IF d \in Contents
    THEN LET r == ReadAs[d] IN Message(r.cmd, r.filename, r.size, r.error, d)
    ELSE Message("DATA", Absent, 0, 0, d)

\* Where a name is expected, a content is the text it begins with, and a
\* command no name, since it begins with a control character.
NameIn(m) == IF m.data \in Contents THEN ReadAs[m.data].text ELSE m.data

INVALID_FILENAME == 107
isValidFilename(n) == n \in ValidNames
Files == {n \in Names : disk[n] # Absent}

Init ==
  /\ pc = "main" /\ currentClientAddr \in Clients
  /\ filename = Absent /\ filesize = 0 /\ newFilename = Absent
  /\ currentTcpPort = TcpPort /\ peer = Absent
  /\ disk \in [Names -> Contents \cup {Absent}]
  /\ \A n \in Names \ ValidNames : disk[n] = Absent
  /\ toServer = [c \in Clients |-> << >>]
  /\ toClient = [c \in Clients |-> << >>]
  /\ conn = [c \in Clients |-> "none"]
  /\ cpc = [c \in Clients |-> "prompt"]
  /\ cmd = [c \in Clients |-> [op |-> "NONE", name |-> Absent, new |-> Absent,
                               data |-> Absent, port |-> 0]]
  /\ result = [c \in Clients |-> "none"]
  /\ before = [c \in Clients |-> disk]
  /\ typed = 0 /\ lost = 0 /\ misread = FALSE

-----------------------------------------------------------------------------
(* The server.                                                             *)

\* recvfrom: the oldest datagram of some client; its sender is stored in
\* currentClientAddr_, which is also what the handlers answer to.
Receive(c) ==
  /\ toServer' = [toServer EXCEPT ![c] = Tail(@)]
  /\ currentClientAddr' = c

\* The datagram that recvfrom would take from c's, if there is one.
FirstOf(q) == IF q = << >> THEN {} ELSE {Head(q)}

\* A handler's recvfrom that finds no datagram: EAGAIN, at any time, since
\* those under way need not have arrived.
NothingReceived == UNCHANGED <<toServer, currentClientAddr>>

Sent(c, m) == IF cpc[c] = "dead" THEN toClient
                                 ELSE [toClient EXCEPT ![c] = Append(@, m)]
sendResponse(c, m) == toClient' = Sent(c, m)

\* Datagram m is read for what it may not be.
Read(m) == misread' = (misread \/ m.data \in Contents)

Serve(c, m, command) ==
  pc = "main" /\ m.cmd = command /\ Receive(c) /\ Read(m)

\* Back to the main loop: the handler's locals are gone.
Return ==
  /\ pc' = "main"
  /\ filename' = Absent /\ filesize' = 0 /\ newFilename' = Absent

Answer(c, e) ==
  Return /\ sendResponse(c, Ack(0, e)) /\ UNCHANGED <<disk, tcp>>

handleLs(c) ==
  \E m \in FirstOf(toServer[c]) :
    /\ Serve(c, m, "LS")
    /\ sendResponse(c, DataMsg(Files))
    /\ UNCHANGED <<pc, locals, tcp, disk, clients, typed, lost>>

\* mutant: the file is opened before its content has come
BeginSmallTruncates(c, n, s) ==
  /\ s <= DATA_BUF_LEN
  /\ pc' = "small" /\ filename' = n /\ filesize' = s /\ newFilename' = Absent
  /\ sendResponse(c, Ack(0, 0))
  /\ disk' = [disk EXCEPT ![n] = Damaged] /\ UNCHANGED tcp

\* receiveSmallFile up to its receive: the client is asked for the content.
BeginSmall(c, n, s) ==
  /\ s <= DATA_BUF_LEN
  /\ pc' = "small" /\ filename' = n /\ filesize' = s /\ newFilename' = Absent
  /\ sendResponse(c, Ack(0, 0))
  /\ UNCHANGED <<disk, tcp>>

\* mutant: the port of the next transfer is announced
BeginLargeNextPort(c, n, s) ==
  /\ s > DATA_BUF_LEN
  /\ pc' = "accept" /\ filename' = n /\ filesize' = s /\ newFilename' = Absent
  /\ sendResponse(c, Ack(currentTcpPort + 1, 0))
  /\ UNCHANGED <<disk, tcp>>

\* receiveLargeFile up to accept(): the client is told the port.
BeginLarge(c, n, s) ==
  /\ s > DATA_BUF_LEN
  /\ pc' = "accept" /\ filename' = n /\ filesize' = s /\ newFilename' = Absent
  /\ sendResponse(c, Ack(currentTcpPort, 0))
  /\ UNCHANGED <<disk, tcp>>

\* socket(), bind() or listen() failed: the handler returns without a word.
BeginFails(s) ==
  /\ s > DATA_BUF_LEN
  /\ Return /\ UNCHANGED <<toClient, disk, tcp>>

BeginTransfer(c, n, s) ==
  BeginSmall(c, n, s) \/ BeginLarge(c, n, s) \/ BeginFails(s)

handleSend(c) ==
  \E m \in FirstOf(toServer[c]) :
    /\ Serve(c, m, "SEND")
    /\ \/ ~ isValidFilename(m.filename) /\ Answer(c, INVALID_FILENAME)
       \/ /\ isValidFilename(m.filename) /\ disk[m.filename] # Absent
          /\ pc' = "confirm" /\ filename' = m.filename
          /\ filesize' = m.size /\ newFilename' = Absent
          /\ sendResponse(c, CmdMsg("FILE_EXISTS", Absent, m.size, 0))
          /\ UNCHANGED <<disk, tcp>>
       \/ /\ isValidFilename(m.filename) /\ disk[m.filename] = Absent
          /\ BeginTransfer(c, m.filename, m.size)
    /\ UNCHANGED <<clients, typed, lost>>

Confirmed(m) == m.cmd = "OVERWRITE" /\ m.error = 0

\* The name and the size of the confirmation replace those of the command.
OverwriteAnswered(c) ==
  \E m \in FirstOf(toServer[c]) :
    /\ pc = "confirm" /\ Receive(c) /\ Read(m)
    /\ \/ Confirmed(m) /\ BeginTransfer(c, m.filename, m.size)
       \/ ~Confirmed(m) /\ Answer(c, 2)
    /\ UNCHANGED <<clients, typed, lost>>

\* mutant: the receive blocks
ConfirmationAwaited == FALSE

\* ErrorCode::TIMEOUT: nothing is answered.
ConfirmationMissing ==
  /\ pc \in {"confirm", "newName", "renameConfirm"}
  /\ NothingReceived /\ Return
  /\ UNCHANGED <<disk, tcp, toClient, clients, typed, lost, misread>>

\* mutant: whatever comes is taken for the file
StoredUnchecked(d) == d

\* What the file holds after filesize bytes of what came are written to it.
Stored(d) == IF d \in Contents /\ SizeOf[d] = filesize THEN d ELSE Damaged

\* write() is not looked at: it may fail before, or after, some of the bytes.
Written(d) == {Stored(d), Partial}

\* ofstream can be opened; it cannot for a name that is not one.
Opens(ok) == ok => filename \in Names

SmallFileArrives(c) ==
  \E m \in FirstOf(toServer[c]), ok \in BOOLEAN : \E w \in Written(m.data) :
    /\ pc = "small" /\ Receive(c) /\ Opens(ok)
    /\ disk' = IF ok THEN [disk EXCEPT ![filename] = w] ELSE disk
    /\ sendResponse(c, Ack(0, IF ok THEN 0 ELSE 1))
    /\ Return
    /\ UNCHANGED <<tcp, clients, typed, lost, misread>>

\* mutant: the error of the first ACK is left in the second
SmallFileMissingAcked ==
  /\ pc = "small"
  /\ NothingReceived /\ Answer(currentClientAddr, 0)
  /\ UNCHANGED <<clients, typed, lost, misread>>

\* mutant: the handler goes on waiting after the answer
SmallFileStillAwaited ==
  /\ pc = "small"
  /\ NothingReceived /\ sendResponse(currentClientAddr, Ack(0, 1))
  /\ UNCHANGED <<pc, locals, tcp, disk, clients, typed, lost, misread>>

SmallFileMissing ==
  /\ pc = "small"
  /\ NothingReceived /\ Answer(currentClientAddr, 1)
  /\ UNCHANGED <<clients, typed, lost, misread>>

\* Both sockets are closed: whoever else is still connected is cut off.
Hangup == conn' = [c \in Clients |->
             IF \/ conn[c] \in {"open", "reset"}
                \/ conn[c] = "cut" /\ cpc[c] = "stream"
               THEN "reset" ELSE "none"]

\* accept(): the file is opened, and emptied.  When it cannot be opened both
\* sockets are closed without an answer, and the port is not advanced.
AcceptConnection(c) ==
  /\ pc = "accept" /\ conn[c] \in {"open", "cut"} \cup Contents
  /\ \/ /\ Opens(TRUE)
        /\ pc' = "recv" /\ peer' = c
        /\ disk' = [disk EXCEPT ![filename] = Damaged]
        /\ UNCHANGED <<locals, conn>>
     \/ Return /\ Hangup /\ UNCHANGED <<disk, peer>>
  /\ UNCHANGED <<currentClientAddr, currentTcpPort, toServer, toClient,
                 clients, typed, lost, misread>>

\* The receive loop ends with filesize bytes, or with the connection; how many
\* came, and how many were written, makes no difference to the answer.
LargeFileEnds ==
  /\ pc = "recv" /\ conn[peer] \in {"cut"} \cup Contents
  /\ \E w \in Written(conn[peer]) : disk' = [disk EXCEPT ![filename] = w]
  /\ sendResponse(currentClientAddr, Ack(currentTcpPort, 0))
  /\ currentTcpPort' = currentTcpPort + 1
  /\ Return /\ Hangup /\ peer' = Absent
  /\ UNCHANGED <<currentClientAddr, toServer, clients, typed, lost, misread>>

\* ACK 1 also stands for a file that exists and cannot be deleted.
handleRemove(c) ==
  \E m \in FirstOf(toServer[c]) :
    /\ Serve(c, m, "REMOVE")
    /\ \/ ~ isValidFilename(m.filename) /\ Answer(c, INVALID_FILENAME)
       \/ isValidFilename(m.filename) /\ Answer(c, 1)
       \/ /\ isValidFilename(m.filename) /\ disk[m.filename] # Absent
          /\ disk' = [disk EXCEPT ![m.filename] = Absent]
          /\ sendResponse(c, Ack(0, 0))
          /\ Return /\ UNCHANGED tcp
    /\ UNCHANGED <<clients, typed, lost>>

handleRename(c) ==
  \E m \in FirstOf(toServer[c]) :
    /\ Serve(c, m, "RENAME")
    /\ \/ ~ isValidFilename(m.filename) /\ Answer(c, INVALID_FILENAME)
       \/ isValidFilename(m.filename) /\ disk[m.filename] = Absent /\ Answer(c, 1)
       \/ /\ isValidFilename(m.filename) /\ disk[m.filename] # Absent
          /\ pc' = "newName" /\ filename' = m.filename
          /\ filesize' = 0 /\ newFilename' = Absent
          /\ sendResponse(c, CmdMsg("READY_FOR_NEW_NAME", Absent, 0, 0))
          /\ UNCHANGED <<disk, tcp>>
    /\ UNCHANGED <<clients, typed, lost>>

Move(d, old, new) == [d EXCEPT ![new] = d[old], ![old] = Absent]

\* renameFile: rename(2), which fails when the old file is not there.
Rename(c, d, old, new) ==
  \/ /\ d[old] # Absent
     /\ disk' = IF old = new THEN d ELSE Move(d, old, new)
     /\ sendResponse(c, Ack(0, 0))
  \/ disk' = d /\ sendResponse(c, Ack(0, 1))

NewNameArrives(c) ==
  \E m \in FirstOf(toServer[c]) :
    /\ pc = "newName" /\ Receive(c) /\ Read(m)
    /\ \/ ~ isValidFilename(NameIn(m)) /\ Answer(c, INVALID_FILENAME)
       \/ /\ isValidFilename(NameIn(m)) /\ disk[NameIn(m)] # Absent
          /\ pc' = "renameConfirm" /\ newFilename' = NameIn(m)
          /\ sendResponse(c, CmdMsg("FILE_EXISTS", Absent, 0, 0))
          /\ UNCHANGED <<filename, filesize, disk, tcp>>
       \/ /\ isValidFilename(NameIn(m)) /\ disk[NameIn(m)] = Absent
          /\ Rename(c, disk, filename, NameIn(m))
          /\ Return /\ UNCHANGED tcp
    /\ UNCHANGED <<clients, typed, lost>>

\* The target is deleted (or cannot be), then the file is renamed.
RenameAnswered(c) ==
  \E m \in FirstOf(toServer[c]) :
    /\ pc = "renameConfirm" /\ Receive(c) /\ Read(m)
    /\ \/ ~Confirmed(m) /\ Answer(c, 2)
       \/ /\ Confirmed(m)
          /\ \E d \in {disk, [disk EXCEPT ![newFilename] = Absent]} :
               Rename(c, d, filename, newFilename)
          /\ Return /\ UNCHANGED tcp
    /\ UNCHANGED <<clients, typed, lost>>

\* The sockets are closed: what is still under way to the server is lost.
handleShutdown(c) ==
  \E m \in FirstOf(toServer[c]) :
    /\ pc = "main" /\ m.cmd = "SHUTDOWN" /\ Read(m)
    /\ pc' = "down" /\ currentClientAddr' = c
    /\ toServer' = [k \in Clients |-> << >>]
    /\ sendResponse(c, Ack(0, 0))
    /\ UNCHANGED <<locals, tcp, disk, clients, typed, lost>>

\* mutant: what is no command is answered
IgnoreAnswers(c) ==
  \E m \in FirstOf(toServer[c]) :
    /\ pc = "main" /\ Receive(c)
    /\ m.cmd \notin {"LS", "SEND", "REMOVE", "RENAME", "SHUTDOWN"}
    /\ Answer(c, 1)
    /\ UNCHANGED <<clients, typed, lost, misread>>

\* OVERWRITE outside a handler, data, and what is no command: no answer.
Ignore(c) ==
  \E m \in FirstOf(toServer[c]) :
    /\ pc = "main" /\ Receive(c)
    /\ m.cmd \notin {"LS", "SEND", "REMOVE", "RENAME", "SHUTDOWN"}
    /\ UNCHANGED <<pc, locals, tcp, disk, toClient, clients, typed, lost, misread>>

-----------------------------------------------------------------------------
(* The clients.                                                            *)

sendCommand(c, m) ==
  toServer' = IF pc = "down" THEN toServer
              ELSE [toServer EXCEPT ![c] = Append(@, m)]

Goto(c, where) == cpc' = [cpc EXCEPT ![c] = where]
Report(c, outcome) ==
  Goto(c, "prompt") /\ result' = [result EXCEPT ![c] = outcome]

Operation(op, name, new, d) ==
  [op |-> op, name |-> name, new |-> new, data |-> d, port |-> 0]

\* A command typed at the prompt.  Nothing is typed after a shutdown, whose
\* answer the client never reads.
Issue(c, operation, m, where) ==
  /\ cpc[c] = "prompt" /\ result[c] # "shutdown"
  /\ typed < MaxCommands /\ typed' = typed + 1
  /\ cmd' = [cmd EXCEPT ![c] = operation]
  /\ before' = [before EXCEPT ![c] = disk]
  /\ sendCommand(c, m) /\ Goto(c, where)
  /\ UNCHANGED <<server, conn, toClient, lost>>

Pending(c) == result' = [result EXCEPT ![c] = "none"]

ls(c) ==
  /\ Issue(c, Operation("LS", Absent, Absent, Absent),
           CmdMsg("LS", Absent, 0, 0), "ls")
  /\ Pending(c)

\* mutant: the name is left to the server to look at
sendUnvalidated(c) ==
  \E n \in Names, d \in Contents :
    /\ Issue(c, Operation("SEND", n, Absent, d),
             CmdMsg("SEND", n, SizeOf[d], 0), "send")
    /\ Pending(c)

send(c) ==
  \E n \in ValidNames, d \in Contents :
    /\ Issue(c, Operation("SEND", n, Absent, d),
             CmdMsg("SEND", n, SizeOf[d], 0), "send")
    /\ Pending(c)

remove(c) ==
  \E n \in Names :
    /\ Issue(c, Operation("REMOVE", n, Absent, Absent),
             CmdMsg("REMOVE", n, 0, 0), "remove")
    /\ Pending(c)

rename(c) ==
  \E old, new \in Names :
    /\ Issue(c, Operation("RENAME", old, new, Absent),
             CmdMsg("RENAME", old, 0, 0), "rename")
    /\ Pending(c)

shutdown(c) ==
  /\ Issue(c, Operation("SHUTDOWN", Absent, Absent, Absent),
           CmdMsg("SHUTDOWN", Absent, 0, 0), "prompt")
  /\ result' = [result EXCEPT ![c] = "shutdown"]

clientOnly == <<server, conn, before, typed, lost>>

\* recvfrom at a place where the client waits: any datagram sent to it will
\* do, since none says which command it answers.
ClientReceives(c, where) ==
  /\ cpc[c] = where
  /\ toClient' = [toClient EXCEPT ![c] = Tail(@)]
  /\ UNCHANGED clientOnly

IsAck(m, e) == m.cmd = "ACK" /\ m.error = e

\* What is listed is kept with the command.
LsAnswered(c) ==
  \E m \in FirstOf(toClient[c]) :
    /\ ClientReceives(c, "ls")
    /\ cmd' = [cmd EXCEPT ![c].data = m.data]
    /\ Report(c, "listed")
    /\ UNCHANGED toServer

Small(c) == SizeOf[cmd[c].data] <= DATA_BUF_LEN

\* sendSmallFile up to its receive.  What becomes of a client whose file
\* overruns the buffer is left out: see DatagramHoldsFile.
SendContent(c) ==
  /\ sendCommand(c, DataMsg(cmd[c].data)) /\ Goto(c, "smallAck")
  /\ UNCHANGED <<cmd, result>>

ConnectTo(c, port) ==
  /\ cmd' = [cmd EXCEPT ![c].port = port] /\ Goto(c, "connect")
  /\ UNCHANGED <<toServer, result>>

\* The error of an ACK is not looked at; an answer that is neither an ACK nor
\* FILE_EXISTS sends the client down the small file's path.
SendAnswered(c) ==
  \E m \in FirstOf(toClient[c]) :
    /\ ClientReceives(c, "send")
    /\ \/ /\ m.cmd = "FILE_EXISTS" /\ Goto(c, "askOverwrite")
          /\ UNCHANGED <<toServer, cmd, result>>
       \/ m.cmd = "ACK" /\ ~Small(c) /\ ConnectTo(c, m.size)
       \/ m.cmd = "ACK" /\ Small(c) /\ SendContent(c)
       \/ m.cmd \notin {"ACK", "FILE_EXISTS"} /\ SendContent(c)

\* The user answers the question whether to overwrite.
OverwriteAsked(c) ==
  \E yes \in BOOLEAN :
    /\ cpc[c] = "askOverwrite"
    /\ sendCommand(c, CmdMsg("OVERWRITE", cmd[c].name, SizeOf[cmd[c].data],
                             IF yes THEN 0 ELSE 1))
    /\ Goto(c, IF yes THEN "ready" ELSE "declined")
    /\ UNCHANGED <<clientOnly, toClient, cmd, result>>

DeclineAnswered(c) ==
  \E m \in FirstOf(toClient[c]) :
    /\ ClientReceives(c, "declined") /\ Report(c, "cancelled")
    /\ UNCHANGED <<toServer, cmd>>

\* mutant: the size is not looked at again
ReadyForDatagram(c) ==
  \E m \in FirstOf(toClient[c]) :
    /\ ClientReceives(c, "ready")
    /\ \/ m.cmd # "ACK" /\ Report(c, "error") /\ UNCHANGED <<toServer, cmd>>
       \/ m.cmd = "ACK" /\ SendContent(c)

ReadyAnswered(c) ==
  \E m \in FirstOf(toClient[c]) :
    /\ ClientReceives(c, "ready")
    /\ \/ m.cmd # "ACK" /\ Report(c, "error") /\ UNCHANGED <<toServer, cmd>>
       \/ m.cmd = "ACK" /\ ~Small(c) /\ ConnectTo(c, m.size)
       \/ m.cmd = "ACK" /\ Small(c) /\ SendContent(c)

TransferAnswered(c) ==
  \E m \in FirstOf(toClient[c]), where \in {"smallAck", "largeAck"} :
    /\ ClientReceives(c, where)
    /\ Report(c, IF IsAck(m, 0) THEN "completed" ELSE "failed")
    /\ UNCHANGED <<toServer, cmd>>

tcpOnly == <<server, toServer, toClient, cmd, before, typed>>

\* connect(): refused when nobody listens there, or the port is not reachable;
\* it also fails when the network loses its packets.
Listening(port) ==
  pc \in {"accept", "recv"} /\ port = currentTcpPort /\ port <= LastPort

Connect(c) ==
  /\ cpc[c] = "connect"
  /\ \/ /\ Listening(cmd[c].port)
        /\ conn' = [conn EXCEPT ![c] = "open"]
        /\ Goto(c, "stream") /\ UNCHANGED <<result, lost>>
     \/ /\ Listening(cmd[c].port) => lost < MaxLost
        /\ lost' = IF Listening(cmd[c].port) THEN lost + 1 ELSE lost
        /\ Report(c, "unreachable") /\ UNCHANGED conn
  /\ UNCHANGED tcpOnly

\* The file is sent in segments and the connection closed; send() may notice
\* that the server has hung up, or that the connection is broken.
StreamFile(c) ==
  /\ cpc[c] = "stream"
  /\ conn' = [conn EXCEPT ![c] = IF @ = "open" THEN cmd[c].data
                                 ELSE IF @ = "cut" THEN "cut" ELSE "none"]
  /\ \/ Goto(c, "largeAck") /\ UNCHANGED result
     \/ conn[c] \in {"reset", "cut"} /\ Report(c, "error")
  /\ UNCHANGED <<tcpOnly, lost>>

RemoveAnswered(c) ==
  \E m \in FirstOf(toClient[c]) :
    /\ ClientReceives(c, "remove")
    /\ Report(c, IF IsAck(m, 0) THEN "removed"
                 ELSE IF IsAck(m, 1) THEN "notFound" ELSE "error")
    /\ UNCHANGED <<toServer, cmd>>

\* READY_FOR_NEW_NAME, and any answer but an ACK, makes the client send the
\* new name.
ReadyForNewName(c) ==
  \E m \in FirstOf(toClient[c]) :
    /\ ClientReceives(c, "rename")
    /\ \/ /\ m.cmd = "ACK"
          /\ Report(c, IF m.error = 0 THEN "renamed" ELSE "notFound")
          /\ UNCHANGED toServer
       \/ /\ m.cmd # "ACK"
          /\ sendCommand(c, DataMsg(cmd[c].new))
          /\ Goto(c, "newNameAck") /\ UNCHANGED result
    /\ UNCHANGED cmd

NewNameAnswered(c) ==
  \E m \in FirstOf(toClient[c]) :
    /\ ClientReceives(c, "newNameAck")
    /\ \/ m.cmd = "FILE_EXISTS" /\ Goto(c, "askRename") /\ UNCHANGED result
       \/ /\ m.cmd # "FILE_EXISTS"
          /\ Report(c, IF IsAck(m, 0) THEN "renamed"
                       ELSE IF IsAck(m, 1) THEN "notFound" ELSE "error")
    /\ UNCHANGED <<toServer, cmd>>

\* This confirmation carries no name.
RenameOverwriteAsked(c) ==
  \E yes \in BOOLEAN :
    /\ cpc[c] = "askRename"
    /\ sendCommand(c, CmdMsg("OVERWRITE", Absent, 0, IF yes THEN 0 ELSE 1))
    /\ Goto(c, "renameAck")
    /\ UNCHANGED <<clientOnly, toClient, cmd, result>>

RenameOverwriteAnswered(c) ==
  \E m \in FirstOf(toClient[c]) :
    /\ ClientReceives(c, "renameAck")
    /\ Report(c, IF m.error = 2 THEN "cancelled"
                 ELSE IF IsAck(m, 0) THEN "renamed" ELSE "error")
    /\ UNCHANGED <<toServer, cmd>>

FirstAnswer == {"ls", "send", "remove", "rename"}
LaterAnswer == {"declined", "ready", "smallAck", "largeAck", "newNameAck",
                "renameAck"}

\* Nothing is on its way that would make an answer arrive.
Silent(c) ==
  /\ toClient[c] = << >>
  /\ pc = "main" => toServer[c] = << >>
  /\ pc \in {"main", "accept", "down"}
  /\ pc = "accept" => \A k \in Clients :
       toClient[k] = << >> /\ cpc[k] # "connect" /\ conn[k] \in {"none", "reset"}

\* SO_RCVTIMEO: the receive gives up after five seconds, which unless
\* LateAnswers is longer than any answer takes.  "timeout" is told apart from
\* "abandoned", where the server had begun to answer; both are TIMEOUT.
ClientTimeout(c) ==
  /\ cpc[c] \in FirstAnswer \cup LaterAnswer
  /\ LateAnswers \/ Silent(c)
  /\ Report(c, IF cpc[c] = "declined" THEN "cancelled"
               ELSE IF cpc[c] \in FirstAnswer THEN "timeout" ELSE "abandoned")
  /\ UNCHANGED <<clientOnly, toServer, toClient, cmd>>

-----------------------------------------------------------------------------
(* The environment, and the specification.                                 *)

\* The client is killed: its sockets are closed, in the middle of the file.
Crash(c) ==
  /\ MayCrash /\ cpc[c] # "dead"
  /\ Goto(c, "dead")
  /\ toClient' = [toClient EXCEPT ![c] = << >>]
  /\ conn' = [conn EXCEPT ![c] = IF @ = "open" THEN "cut"
                                 ELSE IF @ = "reset" THEN "none" ELSE @]
  /\ UNCHANGED <<server, toServer, cmd, result, before, typed, lost>>

\* A connection breaks: what was not yet received on it is lost.
Drop(c) ==
  /\ MayDrop /\ conn[c] \in {"open"} \cup Contents
  /\ conn' = [conn EXCEPT ![c] = "cut"]
  /\ UNCHANGED <<server, toServer, toClient, clients, typed, lost>>

Lose(c) ==
  /\ lost < MaxLost /\ lost' = lost + 1
  /\ \/ /\ toServer[c] # << >>
        /\ toServer' = [toServer EXCEPT ![c] = Tail(@)] /\ UNCHANGED toClient
     \/ /\ toClient[c] # << >>
        /\ toClient' = [toClient EXCEPT ![c] = Tail(@)] /\ UNCHANGED toServer
  /\ UNCHANGED <<server, conn, clients, typed>>

ServerStep ==
  \/ ConfirmationMissing \/ SmallFileMissing \/ LargeFileEnds
  \/ \E c \in Clients :
       \/ handleLs(c) \/ handleSend(c) \/ handleRemove(c) \/ handleRename(c)
       \/ handleShutdown(c) \/ Ignore(c)
       \/ OverwriteAnswered(c) \/ SmallFileArrives(c) \/ AcceptConnection(c)
       \/ NewNameArrives(c) \/ RenameAnswered(c)

UserStep(c) ==
  \/ ls(c) \/ send(c) \/ remove(c) \/ rename(c) \/ shutdown(c)
  \/ OverwriteAsked(c) \/ RenameOverwriteAsked(c)

ClientStep(c) ==
  \/ LsAnswered(c) \/ SendAnswered(c) \/ DeclineAnswered(c) \/ ReadyAnswered(c)
  \/ TransferAnswered(c) \/ Connect(c) \/ StreamFile(c) \/ RemoveAnswered(c)
  \/ ReadyForNewName(c) \/ NewNameAnswered(c) \/ RenameOverwriteAnswered(c)
  \/ ClientTimeout(c)

Next ==
  \/ ServerStep
  \/ \E c \in Clients :
       UserStep(c) \/ ClientStep(c) \/ Crash(c) \/ Drop(c) \/ Lose(c)

Spec == Init /\ [][Next]_vars

\* The server's loop and the clients' programs run on; users need not answer.
FairSpec == Spec /\ WF_vars(ServerStep)
                 /\ \A c \in Clients : WF_vars(ClientStep(c))

-----------------------------------------------------------------------------
(* Properties.                                                             *)

ServerPlaces == {"main", "confirm", "small", "accept", "recv", "newName",
                 "renameConfirm", "down"}
ClientPlaces == FirstAnswer \cup LaterAnswer \cup
                {"prompt", "askOverwrite", "askRename", "connect", "stream", "dead"}
Outcomes == {"none", "listed", "completed", "failed", "cancelled", "removed",
             "renamed", "notFound", "error", "unreachable", "timeout",
             "abandoned", "shutdown"}
Commands == Codes \cup {"ACK", "FILE_EXISTS", "READY_FOR_NEW_NAME", "DATA"}
Datum == Contents \cup Names \cup {Absent} \cup SUBSET Names
Datagrams == [cmd : Commands, filename : Names \cup {Absent}, size : Nat,
              error : Nat, data : Datum]
Disks == [Names -> Contents \cup {Absent, Damaged, Partial}]

\* What the variables hold; a handler's locals are set exactly while it runs.
TypeOK ==
  /\ pc \in ServerPlaces /\ currentClientAddr \in Clients
  /\ filename \in Names \cup {Absent} /\ newFilename \in Names \cup {Absent}
  /\ filesize \in Nat
  /\ currentTcpPort \in Nat
  /\ peer \in Clients \cup {Absent} /\ (pc = "recv" => peer \in Clients)
  /\ pc \in {"confirm", "recv", "newName", "renameConfirm"} => filename \in Names
  /\ pc = "renameConfirm" => newFilename \in Names
  /\ disk \in Disks
  /\ toServer \in [Clients -> Seq(Datagrams)]
  /\ toClient \in [Clients -> Seq(Datagrams)]
  /\ conn \in [Clients -> {"none", "open", "reset", "cut"} \cup Contents]
  /\ cpc \in [Clients -> ClientPlaces] /\ result \in [Clients -> Outcomes]
  /\ cmd \in [Clients -> [op : Commands \cup {"NONE"}, name : Names \cup {Absent},
                          new : Names \cup {Absent}, data : Datum, port : Nat]]
  /\ before \in [Clients -> Disks]
  /\ typed \in Nat /\ lost \in Nat /\ misread \in BOOLEAN

(* The properties hold until a content is taken for a command, a           *)
(* confirmation or a new name: what such a command does is the content's   *)
(* choice, and it is answered to a client that asked nothing.              *)
(* CommandsAreTyped below shows that it happens.                           *)

\* What a client reports is so, until its next command: an upload is stored
\* whole unless the directory could not take it, a removed file is gone, a
\* renamed one is found, unchanged, under its new name only, and what is listed
\* is what is there.
ReportTrue(c) ==
  /\ result[c] = "completed" => disk[cmd[c].name] \in {cmd[c].data, Partial}
  /\ result[c] = "removed" => disk[cmd[c].name] = Absent
  /\ result[c] = "renamed" =>
       /\ disk[cmd[c].new] = before[c][cmd[c].name]
       /\ cmd[c].new # cmd[c].name => disk[cmd[c].name] = Absent
  /\ result[c] = "listed" => cmd[c].data = Files
ReportsAreTrue == misread \/ \A c \in Clients : ReportTrue(c)

\* A command that is refused, declined, or fails with the answer to a small
\* file's content leaves every file as it was.
Refused(c) == \/ result[c] \in {"cancelled", "notFound"}
              \/ result[c] = "failed" /\ Small(c)
RefusedLeavesDisk ==
  misread \/ \A c \in Clients : Refused(c) => disk = before[c]

\* A command, whatever becomes of it, touches no file but those it names.
OthersKept(c) ==
  \A n \in Names \ {cmd[c].name, cmd[c].new} : disk[n] = before[c][n]
OthersUntouched == misread \/ \A c \in Clients : OthersKept(c)

\* No file gets a name that is not valid, although the name of a confirmation
\* is stored under without being looked at again, and may be another client's.
OnlyValidNames == misread \/ Files \subseteq ValidNames

\* When a client returns to its prompt no answer is left that its next command
\* could take for its own; only a shutdown's is not waited for.
NoStaleAnswer ==
  misread \/ \A c \in Clients :
    cpc[c] = "prompt" /\ result[c] # "shutdown" => toClient[c] = << >>

\* Only a file that fits is read into the buffer of a datagram: in
\* sendSmallFile nothing else bounds what is read.
DatagramHoldsFile ==
  misread \/ \A c \in Clients : cpc[c] = "smallAck" => Small(c)

\* The port that a client is about to connect to is the one the server is
\* listening on, for the file of that client.
ConnectFindsListener ==
  misread \/ \A c \in Clients : cpc[c] = "connect" =>
    /\ pc = "accept" /\ currentTcpPort = cmd[c].port
    /\ filename = cmd[c].name /\ filesize = SizeOf[cmd[c].data]

\* Unless a datagram is lost, a client killed, a content misread or the ports
\* used up, the server returns to its main loop from every handler, the
\* accept() of a large file included.
ServerReturns ==
  [](/\ lost = 0 /\ \A c \in Clients : cpc[c] # "dead"
     /\ ~ misread /\ currentTcpPort <= LastPort)
    => []<>(pc \in {"main", "down"})

\* Properties that documents state, and the code does not have.

\* RELIABILITY.md:41: a rename is atomic: at no time is the content of the file
\* under neither name.
RenameIsAtomic ==
  \A c \in Clients : cmd[c].op = "RENAME" /\ cmd[c].new \in ValidNames =>
    before[c][cmd[c].name] \in {disk[cmd[c].name], disk[cmd[c].new]}

\* RELIABILITY.md:144: commands that come by UDP undergo size checks: a datagram
\* as long as a file's buffer is not executed as a command, and none but the
\* files that a command names change.
CommandsAreTyped == \A c \in Clients : OthersKept(c)

=============================================================================
