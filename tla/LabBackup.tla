----------------------------- MODULE LabBackup -----------------------------
(***************************************************************************)
(* The original lab's backup server (server.cc) and its client (client.cc),*)
(* from which the backup system was rewritten.  The server's UDP socket is *)
(* non-blocking (server.cc:85-86): a receive inside a handler takes a      *)
(* datagram that has come or fails at once, and only accept() waits.       *)
(* OVERWRITE is a command of the main loop, which keeps nothing of the     *)
(* SEND that it answers.  A handler is one action up to each receive.      *)
(*                                                                         *)
(* One client, whose datagrams stay in order; up to MaxLost datagrams or   *)
(* connection attempts are lost.                                           *)
(***************************************************************************)
EXTENDS Naturals, Sequences

CONSTANTS Names,            \* the names the user types
          SmallFiles,       \* contents of at most DATA_BUF_LEN bytes
          LargeFiles,       \* contents that need a TCP connection
          ReadAs,           \* the command a small file's first bytes are, if any
          Absent,           \* no file, or a field that is not set
          Damaged,          \* a file that is not, or not yet, whole
          TCP_BASE_PORT,
          MaxCommands,      \* bound: commands typed
          MaxLost           \* bound: losses

Contents == SmallFiles \cup LargeFiles
Readings == [cmd : {"LS", "SEND", "REMOVE", "RENAME", "SHUTDOWN", "OVERWRITE", "DATA"},
             filename : Names \cup {Absent}, large : BOOLEAN, error : {0, 1}]

ASSUME LabAssumption ==
  /\ SmallFiles \cap LargeFiles = {}
  /\ {Absent, Damaged} \cap (Names \cup Contents) = {} /\ Absent # Damaged
  /\ Names \cap Contents = {}
  /\ \A ns \in SUBSET Names : ns \notin SmallFiles
  /\ ReadAs \in [SmallFiles -> Readings]
  /\ {"none", "open", "cut", "reset"} \cap Contents = {}
  /\ TCP_BASE_PORT \in Nat \ {0} /\ {MaxCommands, MaxLost} \subseteq Nat

VARIABLES
  server_state,        \* where the server waits
  filename, new_filename,          \* locals of the handler
  current_tcp_port, disk,          \* the transfer port, the backup directory
  toServer, toClient,  \* datagrams under way
  conn,                \* the TCP connection, or what was streamed over it
  client_state,        \* where the client waits
  cmd,                 \* the command it is busy with
  agreed,              \* the name whose overwriting the user agreed to
  result,              \* what the client last printed
  before,              \* history: the directory when the command was typed
  blind,               \* history: a confirmation with unset fields was sent
  misread,             \* history: a content was taken for a command or a name
  typed, lost          \* counts that the bounds cap

locals == <<filename, new_filename>>
own == <<server_state, locals, current_tcp_port, disk>>
server == <<own, misread>>
client == <<client_state, cmd, agreed, result, before, blind, typed>>
vars == <<server, toServer, toClient, conn, client, lost>>

Message(c, n, l, p, e, d) ==
  [cmd |-> c, filename |-> n, large |-> l, port |-> p, error |-> e, data |-> d]
CmdMsg(c, n, l, e) == Message(c, n, l, 0, e, Absent)

\* The size of an ACK is read only where it is a port.
Ack(e) == CmdMsg("ACK", Absent, FALSE, e)
PortAck == Message("ACK", Absent, FALSE, current_tcp_port, 0, Absent)
DataMsg(d) == Message("DATA", Absent, FALSE, 0, 0, d)

\* A file is read as binary and sent as it is: received for a command, it is
\* the one that its first byte says.  A typed name begins with text, no command.
ContentMsg(d) ==
  LET r == ReadAs[d] IN Message(r.cmd, r.filename, r.large, 0, r.error, d)

\* Without a name the path is the directory itself, which opens too.
IsThere(n) == n = Absent \/ disk[n] # Absent
Files == {n \in Names : disk[n] # Absent}

Init ==
  /\ server_state = "loop" /\ filename = Absent /\ new_filename = Absent
  /\ current_tcp_port = TCP_BASE_PORT
  /\ disk \in [Names -> Contents \cup {Absent}]
  /\ toServer = << >> /\ toClient = << >> /\ conn = "none"
  /\ client_state = "prompt"
  /\ cmd = [op |-> "NONE", name |-> Absent, new |-> Absent, data |-> Absent, port |-> 0]
  /\ agreed = Absent /\ result = "none" /\ before = disk /\ blind = FALSE
  /\ misread = FALSE
  /\ typed = 0 /\ lost = 0

-----------------------------------------------------------------------------
(* The server.                                                             *)

FirstOf(q) == IF q = << >> THEN {} ELSE {Head(q)}
Read(m) == misread' = (misread \/ m.data \in SmallFiles)
Serve(m, command) ==
  server_state = "loop" /\ m.cmd = command /\ toServer' = Tail(toServer) /\ Read(m)

Return == server_state' = "loop" /\ filename' = Absent /\ new_filename' = Absent
sendto(m) == toClient' = Append(toClient, m)
serverOnly == <<client, lost>>

Answer(e) == Return /\ sendto(Ack(e)) /\ UNCHANGED <<disk, current_tcp_port, conn>>

ProcessLs ==
  \E m \in FirstOf(toServer) :
    /\ Serve(m, "LS") /\ sendto(DataMsg(Files))
    /\ UNCHANGED <<own, conn, serverOnly>>

\* Mutant: the port is not sent.
ListenSilently(n) ==
  /\ server_state' = "accept" /\ filename' = n /\ new_filename' = Absent
  /\ UNCHANGED <<toClient, disk, current_tcp_port, conn>>

\* A socket for one connection: it is told to the client and waited for.  When
\* it cannot be had, nothing is answered.
Listen(n) ==
  \/ /\ server_state' = "accept" /\ filename' = n /\ new_filename' = Absent
     /\ sendto(PortAck) /\ UNCHANGED <<disk, current_tcp_port, conn>>
  \/ Return /\ UNCHANGED <<toClient, disk, current_tcp_port, conn>>

\* The content of a small file is received without asking for it, before the
\* client, which waits for an answer, can have sent it.
ProcessSend ==
  \E m \in FirstOf(toServer) :
    /\ Serve(m, "SEND")
    /\ \/ /\ IsThere(m.filename)
          /\ Return /\ sendto(CmdMsg("FILE_EXISTS", Absent, m.large, 0))
          /\ UNCHANGED <<disk, current_tcp_port, conn>>
       \/ /\ ~ IsThere(m.filename) /\ ~ m.large
          /\ server_state' = "small" /\ filename' = m.filename /\ new_filename' = Absent
          /\ UNCHANGED <<toClient, disk, current_tcp_port, conn>>
       \/ ~ IsThere(m.filename) /\ m.large /\ Listen(m.filename)
    /\ UNCHANGED serverOnly

\* What write() leaves of d, since nobody looks whether it failed.
Written(d) == {Damaged} \cup ({d} \cap Contents)

\* recvfrom() takes what has come, whatever it is, or fails with EAGAIN at once.
SmallFileReceive ==
  \E m \in FirstOf(toServer) \cup {Absent}, opens \in BOOLEAN :
    LET stored == m # Absent /\ opens
    IN  /\ server_state = "small"
        /\ toServer' = IF m = Absent THEN toServer ELSE Tail(toServer)
        /\ disk' \in IF stored THEN {[disk EXCEPT ![filename] = w] : w \in Written(m.data)}
                              ELSE {disk}
        /\ sendto(Ack(IF stored THEN 0 ELSE 1)) /\ Return
        /\ UNCHANGED <<current_tcp_port, conn, misread, serverOnly>>

\* accept(): the file is opened, and emptied, or else the client hung up on.
AcceptConnection ==
  /\ server_state = "accept" /\ conn # "none"
  /\ \/ /\ server_state' = "recv" /\ disk' = [disk EXCEPT ![filename] = Damaged]
        /\ UNCHANGED <<locals, conn>>
     \/ /\ Return /\ conn' = IF conn = "open" THEN "reset" ELSE "none"
        /\ UNCHANGED disk
  /\ UNCHANGED <<current_tcp_port, toServer, toClient, misread, serverOnly>>

\* What was streamed has come and was written, whole or not: ACK 0 either way.
LargeFileEnds ==
  /\ server_state = "recv" /\ conn # "open"
  /\ disk' \in {[disk EXCEPT ![filename] = w] : w \in Written(conn)}
  /\ conn' = "none" /\ current_tcp_port' = current_tcp_port + 1
  /\ Return /\ sendto(Ack(0))
  /\ UNCHANGED <<toServer, misread, serverOnly>>

\* Mutant: the name is not looked at.
OverwriteNameless ==
  \E m \in FirstOf(toServer) :
    /\ Serve(m, "OVERWRITE")
    /\ \/ m.error # 0 /\ Answer(2)
       \/ m.error = 0 /\ m.large /\ Listen(m.filename)
       \/ m.error = 0 /\ ~ m.large /\ Answer(0)
    /\ UNCHANGED serverOnly

\* The main loop's answer to OVERWRITE.  Of a small file nothing more is read.
ProcessOverwrite ==
  \E m \in FirstOf(toServer) :
    /\ Serve(m, "OVERWRITE")
    /\ \/ m.error # 0 /\ Answer(2)
       \/ /\ m.error = 0 /\ m.filename = Absent
          /\ Return /\ UNCHANGED <<toClient, disk, current_tcp_port, conn>>
       \/ m.error = 0 /\ m.filename # Absent /\ m.large /\ Listen(m.filename)
       \/ m.error = 0 /\ m.filename # Absent /\ ~ m.large /\ Answer(0)
    /\ UNCHANGED serverOnly

\* Mutant: what remove() returns is not looked at.
RemoveUnchecked ==
  \E m \in FirstOf(toServer) :
    /\ Serve(m, "REMOVE") /\ Answer(0)
    /\ UNCHANGED serverOnly

\* ACK 1 also stands for a file that is there and cannot be removed.  An empty
\* directory can be, for want of a name: no file opens from then on.
ProcessRemove ==
  \E m \in FirstOf(toServer) :
    /\ Serve(m, "REMOVE")
    /\ \/ Answer(1)
       \/ m.filename = Absent /\ Files = {} /\ Answer(0)
       \/ /\ m.filename \in Files
          /\ disk' = [disk EXCEPT ![m.filename] = Absent]
          /\ Return /\ sendto(Ack(0)) /\ UNCHANGED <<current_tcp_port, conn>>
    /\ UNCHANGED serverOnly

ProcessRename ==
  \E m \in FirstOf(toServer) :
    /\ Serve(m, "RENAME")
    /\ \/ ~ IsThere(m.filename) /\ Answer(1)
       \/ /\ IsThere(m.filename)
          /\ server_state' = "newName" /\ filename' = m.filename /\ new_filename' = Absent
          /\ UNCHANGED <<toClient, disk, current_tcp_port, conn>>
    /\ UNCHANGED serverOnly

\* EAGAIN: the new name, or the confirmation, has not come.  No answer.
NotYetCome ==
  /\ server_state \in {"newName", "confirm"}
  /\ Return
  /\ UNCHANGED <<toServer, toClient, disk, current_tcp_port, conn, misread, serverOnly>>

Move(d, old, new) ==
  IF old = new THEN d ELSE [d EXCEPT ![new] = d[old], ![old] = Absent]
Rename(d, old, new) ==
  \/ /\ old # Absent /\ d[old] # Absent
     /\ disk' = Move(d, old, new) /\ sendto(Ack(0))
  \/ disk' = d /\ sendto(Ack(1))

\* The name that data stands for: bytes that were not typed as one are any.
NamesIn(d) == IF d \in Names THEN {d} ELSE Names

\* Mutant: the new name is not looked for in the directory.
NewNameUnchecked ==
  \E m \in FirstOf(toServer) : \E n \in NamesIn(m.data) :
    /\ server_state = "newName" /\ toServer' = Tail(toServer) /\ Read(m)
    /\ Rename(disk, filename, n) /\ Return
    /\ UNCHANGED <<current_tcp_port, conn, serverOnly>>

NewNameCame ==
  \E m \in FirstOf(toServer) : \E n \in NamesIn(m.data) :
    /\ server_state = "newName" /\ toServer' = Tail(toServer) /\ Read(m)
    /\ \/ /\ n \in Files
          /\ server_state' = "confirm" /\ new_filename' = n
          /\ sendto(CmdMsg("FILE_EXISTS", Absent, FALSE, 0))
          /\ UNCHANGED <<filename, disk>>
       \/ n \notin Files /\ Rename(disk, filename, n) /\ Return
    /\ UNCHANGED <<current_tcp_port, conn, serverOnly>>

\* The target is removed (or cannot be), then the file is renamed.
ConfirmationCame ==
  \E m \in FirstOf(toServer) :
    /\ server_state = "confirm" /\ toServer' = Tail(toServer) /\ Read(m)
    /\ \/ /\ m.cmd = "OVERWRITE" /\ m.error = 0
          /\ \E d \in {disk, [disk EXCEPT ![new_filename] = Absent]} :
               Rename(d, filename, new_filename)
          /\ Return /\ UNCHANGED <<current_tcp_port, conn>>
       \/ ~ (m.cmd = "OVERWRITE" /\ m.error = 0) /\ Answer(2)
    /\ UNCHANGED serverOnly

\* The socket is closed, and what is under way to it lost; no ACK is sent.
ProcessShutdown ==
  \E m \in FirstOf(toServer) :
    /\ server_state = "loop" /\ m.cmd = "SHUTDOWN" /\ Read(m)
    /\ server_state' = "down" /\ toServer' = << >>
    /\ UNCHANGED <<locals, disk, current_tcp_port, toClient, conn, serverOnly>>

\* Data that is no command when read as one: a first byte of text is beyond the
\* end of the array cmd_string that it is an index of, and the server may die.
UnknownCommand ==
  \E m \in FirstOf(toServer) :
    /\ server_state = "loop" /\ m.cmd = "DATA" /\ toServer' = Tail(toServer)
    /\ server_state' \in {"loop", "down"}
    /\ UNCHANGED <<locals, disk, current_tcp_port, toClient, conn, misread, serverOnly>>

-----------------------------------------------------------------------------
(* The client.                                                             *)

sendCommand(ms) == toServer' = IF server_state = "down" THEN << >> ELSE toServer \o ms
Report(outcome) == client_state' = "prompt" /\ result' = outcome
Goto(where) == client_state' = where /\ UNCHANGED result

Operation(op, name, new, d) ==
  [op |-> op, name |-> name, new |-> new, data |-> d, port |-> 0]

Issue(operation, ms, where) ==
  /\ client_state = "prompt" /\ typed < MaxCommands /\ typed' = typed + 1
  /\ cmd' = operation /\ agreed' = Absent /\ before' = disk
  /\ client_state' = where /\ sendCommand(ms)
  /\ UNCHANGED <<server, toClient, conn, blind, lost>>

Pending == result' = "none"

ls ==
  /\ Issue(Operation("LS", Absent, Absent, Absent),
           <<CmdMsg("LS", Absent, FALSE, 0)>>, "ls")
  /\ Pending

send ==
  \E n \in Names, d \in Contents :
    /\ Issue(Operation("SEND", n, Absent, d),
             <<CmdMsg("SEND", n, d \in LargeFiles, 0)>>, "send")
    /\ Pending

remove ==
  \E n \in Names :
    /\ Issue(Operation("REMOVE", n, Absent, Absent),
             <<CmdMsg("REMOVE", n, FALSE, 0)>>, "remove")
    /\ Pending

\* The new name follows the command at once.
rename ==
  \E old, new \in Names :
    /\ Issue(Operation("RENAME", old, new, Absent),
             <<CmdMsg("RENAME", old, FALSE, 0), DataMsg(new)>>, "rename")
    /\ Pending

\* No answer is waited for.
shutdown ==
  /\ Issue(Operation("SHUTDOWN", Absent, Absent, Absent),
           <<CmdMsg("SHUTDOWN", Absent, FALSE, 0)>>, "prompt")
  /\ result' = "shutdown"

clientOnly == <<server, conn, before, typed, lost>>
ClientReceives(where) ==
  client_state = where /\ toClient' = Tail(toClient) /\ UNCHANGED clientOnly

LsAnswered ==
  \E m \in FirstOf(toClient) :
    /\ ClientReceives("ls") /\ Report("listed")
    /\ UNCHANGED <<toServer, cmd, agreed, blind>>

IsLarge == cmd.data \in LargeFiles
ConnectTo(m) ==
  cmd' = [cmd EXCEPT !.port = m.port] /\ Goto("connect") /\ UNCHANGED toServer

\* Any ACK is a go-ahead, the ACK 1 that says the content did not come too.
SendAnswered ==
  \E m \in FirstOf(toClient) :
    /\ ClientReceives("send")
    /\ \/ m.cmd = "FILE_EXISTS" /\ Goto("askOverwrite") /\ UNCHANGED <<toServer, cmd>>
       \/ m.cmd = "ACK" /\ IsLarge /\ ConnectTo(m)
       \/ /\ m.cmd = "ACK" /\ ~ IsLarge
          /\ sendCommand(<<ContentMsg(cmd.data)>>) /\ Goto("smallAck") /\ UNCHANGED cmd
    /\ UNCHANGED <<agreed, blind>>

OverwriteAsked ==
  \E yes \in BOOLEAN :
    /\ client_state = "askOverwrite"
    /\ sendCommand(<<CmdMsg("OVERWRITE", IF yes THEN cmd.name ELSE Absent, yes /\ IsLarge,
                            IF yes THEN 0 ELSE 1)>>)
    /\ agreed' = IF yes THEN cmd.name ELSE Absent
    /\ Goto(IF yes THEN "ready" ELSE "declined")
    /\ UNCHANGED <<clientOnly, toClient, cmd, blind>>

DeclineAnswered ==
  \E m \in FirstOf(toClient) :
    /\ ClientReceives("declined") /\ Report("cancelled")
    /\ UNCHANGED <<toServer, cmd, agreed, blind>>

\* After the ACK for a small file nothing is sent.
ReadyAnswered ==
  \E m \in FirstOf(toClient) :
    /\ ClientReceives("ready") /\ m.cmd = "ACK"
    /\ \/ IsLarge /\ ConnectTo(m)
       \/ ~ IsLarge /\ Report("none") /\ UNCHANGED <<toServer, cmd>>
    /\ UNCHANGED <<agreed, blind>>

tcpOnly == <<server, toServer, toClient, cmd, agreed, before, blind, typed>>

Connect ==
  /\ client_state = "connect"
  /\ \/ /\ server_state = "accept" /\ current_tcp_port = cmd.port
        /\ conn' = "open" /\ Goto("stream") /\ UNCHANGED lost
     \/ /\ lost < MaxLost /\ lost' = lost + 1
        /\ Report("unreachable") /\ UNCHANGED conn
  /\ UNCHANGED tcpOnly

\* A send that fails breaks off, and the answer is awaited all the same.  Writing
\* to a connection that the server has closed kills the client, unless all was
\* written before that was noticed.
StreamFile ==
  /\ client_state = "stream"
  /\ \/ conn = "open" /\ conn' \in {cmd.data, "cut"} /\ Goto("largeAck")
     \/ conn = "reset" /\ conn' = "none" /\ (Goto("largeAck") \/ Goto("dead"))
  /\ UNCHANGED <<tcpOnly, lost>>

Accepted(m) == m.cmd = "ACK" /\ m.error = 0

SmallFileAnswered ==
  \E m \in FirstOf(toClient) :
    /\ ClientReceives("smallAck")
    /\ Report(IF Accepted(m) THEN "sent" ELSE "failed")
    /\ UNCHANGED <<toServer, cmd, agreed, blind>>

LargeFileAnswered ==
  \E m \in FirstOf(toClient) :
    /\ ClientReceives("largeAck")
    /\ Report(IF Accepted(m) THEN "completed" ELSE "failed")
    /\ UNCHANGED <<toServer, cmd, agreed, blind>>

RemoveAnswered ==
  \E m \in FirstOf(toClient) :
    /\ ClientReceives("remove")
    /\ Report(IF Accepted(m) THEN "removed" ELSE "notFound")
    /\ UNCHANGED <<toServer, cmd, agreed, blind>>

RenameAnswered ==
  \E m \in FirstOf(toClient) :
    /\ ClientReceives("rename")
    /\ \/ m.cmd = "FILE_EXISTS" /\ Goto("askRename")
       \/ m.cmd = "ACK" /\ Report(IF m.error = 1 THEN "notFound" ELSE "renamed")
    /\ UNCHANGED <<toServer, cmd, agreed, blind>>

\* Only cmd and error of this confirmation are set.
RenameOverwriteAsked ==
  \E yes \in BOOLEAN, n \in Names \cup {Absent}, l \in BOOLEAN :
    /\ client_state = "askRename"
    /\ sendCommand(<<CmdMsg("OVERWRITE", n, l, IF yes THEN 0 ELSE 1)>>)
    /\ agreed' = IF yes THEN cmd.new ELSE Absent
    /\ blind' = (blind \/ yes)
    /\ Goto("renameAck")
    /\ UNCHANGED <<clientOnly, toClient, cmd>>

\* Any ACK but a refusal is a success.
RenameOverwriteAnswered ==
  \E m \in FirstOf(toClient) :
    /\ ClientReceives("renameAck")
    /\ Report(IF m.error = 2 THEN "cancelled" ELSE "renamed")
    /\ UNCHANGED <<toServer, cmd, agreed, blind>>

Waits == {"ls", "send", "declined", "ready", "smallAck", "largeAck", "remove",
          "rename", "renameAck"}

\* Nothing is on its way that would make an answer arrive.
Silent ==
  /\ toClient = << >>
  /\ \/ server_state = "down"
     \/ server_state = "loop" /\ toServer = << >>
     \/ server_state = "accept" /\ conn = "none"

\* SO_RCVTIMEO: five seconds, longer than any answer takes.  A rename then
\* looks at an ack_msg that was never written, and may take it for an ACK.
ClientTimeout ==
  /\ client_state \in Waits /\ Silent
  /\ \E outcome \in {"timeout", "renamedUnread", "cancelled"} :
       /\ outcome = "renamedUnread" => client_state = "rename"
       /\ outcome = "cancelled" <=> client_state = "declined"
       /\ Report(outcome)
  /\ UNCHANGED <<clientOnly, toServer, toClient, cmd, agreed, blind>>

-----------------------------------------------------------------------------
(* The environment, and the specification.                                 *)

Lose ==
  /\ lost < MaxLost /\ lost' = lost + 1
  /\ \/ toServer # << >> /\ toServer' = Tail(toServer) /\ UNCHANGED toClient
     \/ toClient # << >> /\ toClient' = Tail(toClient) /\ UNCHANGED toServer
  /\ UNCHANGED <<server, conn, client>>

ServerStep ==
  \/ ProcessLs \/ ProcessSend \/ ProcessOverwrite \/ ProcessRemove \/ ProcessRename
  \/ ProcessShutdown \/ UnknownCommand
  \/ SmallFileReceive \/ AcceptConnection \/ LargeFileEnds
  \/ NotYetCome \/ NewNameCame \/ ConfirmationCame

UserStep ==
  ls \/ send \/ remove \/ rename \/ shutdown \/ OverwriteAsked \/ RenameOverwriteAsked

ClientStep ==
  \/ LsAnswered \/ SendAnswered \/ SmallFileAnswered \/ DeclineAnswered \/ ReadyAnswered
  \/ Connect \/ StreamFile \/ LargeFileAnswered \/ RemoveAnswered
  \/ RenameAnswered \/ RenameOverwriteAnswered \/ ClientTimeout

Next == ServerStep \/ UserStep \/ ClientStep \/ Lose

Spec == Init /\ [][Next]_vars

-----------------------------------------------------------------------------
(* Properties.                                                             *)

ServerPlaces == {"loop", "small", "accept", "recv", "newName", "confirm", "down"}
ClientPlaces == Waits \cup {"prompt", "askOverwrite", "askRename", "connect", "stream",
                            "dead"}
Outcomes == {"none", "listed", "sent", "completed", "failed", "cancelled", "removed", "renamed",
             "renamedUnread", "notFound", "unreachable", "timeout", "shutdown"}
Commands == {"LS", "SEND", "REMOVE", "RENAME", "SHUTDOWN", "OVERWRITE", "ACK",
             "FILE_EXISTS", "DATA"}
Datum == Contents \cup Names \cup {Absent} \cup SUBSET Names
Datagrams == [cmd : Commands, filename : Names \cup {Absent}, large : BOOLEAN,
              port : Nat, error : Nat, data : Datum]
Disks == [Names -> Contents \cup {Absent, Damaged}]

\* What the variables hold; a file that is to be written has a name.
TypeOK ==
  /\ server_state \in ServerPlaces
  /\ filename \in Names \cup {Absent} /\ new_filename \in Names \cup {Absent}
  /\ server_state \in {"small", "accept", "recv"} => filename # Absent
  /\ current_tcp_port \in Nat /\ disk \in Disks
  /\ toServer \in Seq(Datagrams) /\ toClient \in Seq(Datagrams)
  /\ conn \in {"none", "open", "cut", "reset"} \cup LargeFiles
  /\ client_state \in ClientPlaces /\ agreed \in Names \cup {Absent}
  /\ cmd \in [op : Commands \cup {"NONE"}, name : Names \cup {Absent},
              new : Names \cup {Absent}, data : Contents \cup {Absent}, port : Nat]
  /\ result \in Outcomes /\ before \in Disks /\ blind \in BOOLEAN
  /\ misread \in BOOLEAN /\ typed \in Nat /\ lost \in Nat

\* What the client prints is so, until its next command: a large file is stored,
\* whole or cut short, and is none that was there before, a removed file is gone,
\* and one renamed to a free name is found there.  Only after a content was taken
\* for a command is a small file reported sent, which it never is.
ReportsAreTrue ==
  /\ result = "sent" => misread
  /\ result = "completed" => disk[cmd.name] \in {cmd.data, Damaged}
  /\ result = "removed" => disk[cmd.name] = Absent
  /\ result = "renamed" /\ agreed = Absent =>
       /\ disk[cmd.new] = before[cmd.name]
       /\ disk[cmd.name] = Absent

\* A whole file is replaced or goes only in a command that removes or renames
\* it, or when the user agreed to its being overwritten, although the main loop
\* remembers nothing of the SEND that an OVERWRITE belongs to; but for contents
\* taken for commands.
OnlyWhatWasAsked ==
  [][misread' \/ \A n \in Names : disk[n] \in Contents /\ disk'[n] # disk[n] =>
       \/ cmd.op \in {"REMOVE", "RENAME"} /\ cmd.name = n
       \/ agreed = n]_vars

\* accept(), which waits for ever, is waited in for a client that is told the
\* port, unless a message was lost, a rename's confirmation left unset, or a
\* content taken for a command.
AcceptIsAwaited ==
  server_state = "accept" /\ conn = "none" =>
    \/ lost > 0 \/ blind \/ misread
    \/ \E i \in 1..Len(toClient) : toClient[i].port = current_tcp_port
    \/ client_state = "connect" /\ cmd.port = current_tcp_port

=============================================================================
