------------------------ MODULE BackupProtocolProofs ------------------------
(***************************************************************************)
(* Proofs about BackupProtocol for any number of clients, names, contents  *)
(* and commands, and for any datagrams lost and clients killed.            *)
(*                                                                         *)
(* That every variable keeps its type and that only valid names come into  *)
(* the directory are proved together: a handler stores under the name that *)
(* a confirmation carries, the confirmation may come from another client   *)
(* than the command, and what it carries is what that client holds as its  *)
(* command.  The directory's promise ends when a content is misread: it    *)
(* may confirm any name; the types are kept all the same.                  *)
(***************************************************************************)
EXTENDS BackupProtocol, TLAPS

MaybeValid == ValidNames \cup {Absent}

\* What clients send: the name of a confirmation, where there is one, is valid,
\* and a content reads as it does.
ClientDatagrams == {m \in Datagrams :
  IF m.data \in Contents THEN m.cmd = ReadAs[m.data].cmd
  ELSE m.cmd = "OVERWRITE" => m.filename \in MaybeValid}

\* Where a client is occupied with an upload.
Uploading == {"send", "askOverwrite", "declined", "ready", "smallAck",
              "connect", "stream", "largeAck"}

HandlerOK ==
  /\ pc \in ServerPlaces /\ misread \in BOOLEAN
  /\ filename \in Names \cup {Absent} /\ (misread \/ filename \in MaybeValid)
  /\ newFilename \in MaybeValid /\ filesize \in Nat
  /\ pc \in {"confirm", "newName", "renameConfirm"} => filename \in ValidNames
  /\ pc = "recv" => filename \in Names
  /\ pc = "renameConfirm" => newFilename \in ValidNames

TransferOK ==
  /\ currentTcpPort \in Nat
  /\ peer \in Clients \cup {Absent} /\ (pc = "recv" => peer \in Clients)
  /\ conn \in [Clients -> {"none", "open", "reset", "cut"} \cup Contents]

DiskOK == disk \in Disks /\ OnlyValidNames

NetworkOK ==
  /\ currentClientAddr \in Clients
  /\ toServer \in [Clients -> Seq(ClientDatagrams)]
  /\ toClient \in [Clients -> Seq(Datagrams)]

ClientsOK ==
  /\ cpc \in [Clients -> ClientPlaces] /\ result \in [Clients -> Outcomes]
  /\ cmd \in [Clients -> [op : Commands \cup {"NONE"}, name : Names \cup {Absent},
                          new : Names \cup {Absent}, data : Datum, port : Nat]]
  /\ \A c \in Clients :
       cpc[c] \in Uploading => cmd[c].name \in ValidNames /\ cmd[c].data \in Contents

CountsOK == /\ before \in [Clients -> Disks]
            /\ typed \in Nat /\ lost \in Nat

IInv == /\ HandlerOK /\ TransferOK /\ DiskOK
        /\ NetworkOK /\ ClientsOK /\ CountsOK

\* What was misread stays so.
Recorded == misread' \in BOOLEAN /\ (misread => misread')

USE BackupAssumption

-----------------------------------------------------------------------------
(* Messages and queues.                                                    *)

\* A command message whose fields have their types is a datagram.
LEMMA CmdMsgType ==
  ASSUME NEW k \in Commands, NEW n \in Names \cup {Absent},
         NEW s \in Nat, NEW e \in Nat
  PROVE  /\ CmdMsg(k, n, s, e) \in Datagrams
         /\ (k = "OVERWRITE" => n \in MaybeValid)
              => CmdMsg(k, n, s, e) \in ClientDatagrams
BY DEF CmdMsg, Message, Datagrams, Datum, ClientDatagrams

\* So is an ACK.
LEMMA AckType == ASSUME NEW s \in Nat, NEW e \in Nat PROVE Ack(s, e) \in Datagrams
BY CmdMsgType DEF Ack, Commands, Codes

\* So is data, whatever it reads as: clients may send it.
LEMMA DataMsgType ==
  ASSUME NEW d \in Datum
  PROVE  DataMsg(d) \in Datagrams /\ DataMsg(d) \in ClientDatagrams
<1>1. CASE d \in Contents
  <2>1. PICK r \in Readings : r = ReadAs[d]
    BY <1>1
  <2>2. DataMsg(d) = Message(r.cmd, r.filename, r.size, r.error, d)
    BY <1>1, <2>1 DEF DataMsg
  <2>. QED
    BY <1>1, <2>1, <2>2 DEF Message, Datagrams, ClientDatagrams, Commands, Codes, Readings
<1>2. CASE d \notin Contents
  BY <1>2 DEF DataMsg, Message, Datagrams, ClientDatagrams, Commands, Codes
<1>. QED
  BY <1>1, <1>2

\* What recvfrom takes is one of the datagrams that were sent.
LEMMA FirstOfType ==
  ASSUME NEW S, NEW q \in Seq(S), NEW m \in FirstOf(q)
  PROVE  q # << >> /\ m \in S /\ Tail(q) \in Seq(S)
BY DEF FirstOf

\* The server's receive leaves datagrams of clients in the queues.
LEMMA ReceiveType ==
  ASSUME NetworkOK, NEW c \in Clients, NEW m \in FirstOf(toServer[c])
  PROVE  /\ m \in ClientDatagrams /\ m \in Datagrams
         /\ Receive(c) => /\ currentClientAddr' \in Clients
                          /\ toServer' \in [Clients -> Seq(ClientDatagrams)]
<1>1. toServer[c] \in Seq(ClientDatagrams)
  BY DEF NetworkOK
<1>2. m \in ClientDatagrams /\ Tail(toServer[c]) \in Seq(ClientDatagrams)
  BY <1>1, FirstOfType
<1>. QED
  BY <1>2 DEF ClientDatagrams, Receive, NetworkOK

\* A content that is misread is on record, and stays there.
LEMMA ReadType == ASSUME HandlerOK, NEW m, Read(m) PROVE Recorded
BY DEF HandlerOK, Read, Recorded

\* The server's answer is one more datagram for its client, if that is alive.
LEMMA SendType ==
  ASSUME NetworkOK, NEW c \in Clients, NEW m \in Datagrams, sendResponse(c, m)
  PROVE  toClient' \in [Clients -> Seq(Datagrams)]
<1>1. Append(toClient[c], m) \in Seq(Datagrams)
  BY DEF NetworkOK
<1>. QED
  BY <1>1 DEF sendResponse, Sent, NetworkOK

-----------------------------------------------------------------------------
(* The server.                                                             *)

\* An error answer takes the server back to its main loop.
LEMMA AnswerOK ==
  ASSUME IInv, NEW c \in Clients, NEW e \in Nat, Answer(c, e), Recorded
  PROVE  HandlerOK' /\ TransferOK' /\ DiskOK' /\ toClient' \in [Clients -> Seq(Datagrams)]
<1>. USE DEF IInv, Recorded
<1>1. toClient' \in [Clients -> Seq(Datagrams)]
  BY AckType, SendType DEF Answer
<1>2. HandlerOK'
  BY DEF Answer, Return, HandlerOK, MaybeValid, ServerPlaces
<1>3. TransferOK'
  BY DEF Answer, Return, TransferOK, tcp
<1>4. DiskOK'
  BY DEF Answer, DiskOK, OnlyValidNames, Files
<1>. QED
  BY <1>1, <1>2, <1>3, <1>4

\* A transfer begins with a name that is valid, or with none, or with that of a
\* confirmation which was none.
LEMMA BeginTransferOK ==
  ASSUME IInv, NEW c \in Clients, NEW n \in Names \cup {Absent}, NEW s \in Nat,
         BeginTransfer(c, n, s), Recorded, misread' \/ n \in MaybeValid
  PROVE  HandlerOK' /\ TransferOK' /\ DiskOK' /\ toClient' \in [Clients -> Seq(Datagrams)]
<1>. USE DEF IInv, Recorded
<1>. currentTcpPort \in Nat
  BY DEF TransferOK
<1>1. toClient' \in [Clients -> Seq(Datagrams)]
  <2>1. ASSUME NEW k \in Nat, sendResponse(c, Ack(k, 0))
        PROVE  toClient' \in [Clients -> Seq(Datagrams)]
    BY <2>1, AckType, SendType
  <2>2. CASE UNCHANGED toClient
    BY <2>2 DEF NetworkOK
  <2>. QED
    BY <2>1, <2>2 DEF BeginTransfer, BeginSmall, BeginLarge, BeginFails
<1>2. HandlerOK'
  BY DEF BeginTransfer, BeginSmall, BeginLarge, BeginFails, Return, HandlerOK,
         MaybeValid, ServerPlaces
<1>3. TransferOK'
  BY DEF BeginTransfer, BeginSmall, BeginLarge, BeginFails, Return, TransferOK, tcp
<1>4. DiskOK'
  BY DEF BeginTransfer, BeginSmall, BeginLarge, BeginFails, DiskOK,
         OnlyValidNames, Files
<1>. QED
  BY <1>1, <1>2, <1>3, <1>4

\* ls changes nothing but the queues.
LEMMA handleLsOK == ASSUME IInv, NEW c \in Clients, handleLs(c) PROVE IInv'
<1>. USE DEF IInv, Recorded
<1>1. PICK m \in FirstOf(toServer[c]) :
        /\ Serve(c, m, "LS") /\ sendResponse(c, DataMsg(Files))
        /\ UNCHANGED <<pc, locals, tcp, disk, clients, typed, lost>>
  BY DEF handleLs
<1>0. Recorded
  BY <1>1, ReadType DEF Serve
<1>2. DataMsg(Files) \in Datagrams
  BY DataMsgType DEF Files, Datum
<1>3. NetworkOK'
  BY <1>1, <1>2, ReceiveType, SendType DEF NetworkOK, Serve
<1>4. HandlerOK' /\ TransferOK'
  BY <1>0, <1>1 DEF HandlerOK, TransferOK, locals, tcp
<1>5. DiskOK' /\ ClientsOK' /\ CountsOK'
  BY <1>0, <1>1 DEF DiskOK, OnlyValidNames, Files, ClientsOK, CountsOK, clients
<1>. QED
  BY <1>3, <1>4, <1>5

\* send keeps the name it found valid while it waits for the confirmation.
LEMMA handleSendOK == ASSUME IInv, NEW c \in Clients, handleSend(c) PROVE IInv'
<1>. USE DEF IInv, Recorded
<1>1. PICK m \in FirstOf(toServer[c]) :
        /\ Serve(c, m, "SEND")
        /\ \/ ~ isValidFilename(m.filename) /\ Answer(c, INVALID_FILENAME)
           \/ /\ isValidFilename(m.filename) /\ disk[m.filename] # Absent
              /\ pc' = "confirm" /\ filename' = m.filename
              /\ filesize' = m.size /\ newFilename' = Absent
              /\ sendResponse(c, CmdMsg("FILE_EXISTS", Absent, m.size, 0))
              /\ UNCHANGED <<disk, tcp>>
           \/ /\ isValidFilename(m.filename) /\ disk[m.filename] = Absent
              /\ BeginTransfer(c, m.filename, m.size)
        /\ UNCHANGED <<clients, typed, lost>>
  BY DEF handleSend
<1>2. /\ m \in Datagrams /\ currentClientAddr' \in Clients
      /\ toServer' \in [Clients -> Seq(ClientDatagrams)]
  BY <1>1, ReceiveType DEF Serve
<1>. Recorded
  BY <1>1, ReadType DEF Serve
<1>3. m.size \in Nat
  BY <1>2 DEF Datagrams
<1>4. HandlerOK' /\ TransferOK' /\ DiskOK' /\ toClient' \in [Clients -> Seq(Datagrams)]
  <2>1. CASE Answer(c, INVALID_FILENAME)
    BY <2>1, AnswerOK DEF INVALID_FILENAME
  <2>2. CASE isValidFilename(m.filename) /\ BeginTransfer(c, m.filename, m.size)
    BY <2>2, <1>3, BeginTransferOK DEF isValidFilename, MaybeValid
  <2>3. CASE /\ isValidFilename(m.filename)
             /\ pc' = "confirm" /\ filename' = m.filename
             /\ filesize' = m.size /\ newFilename' = Absent
             /\ sendResponse(c, CmdMsg("FILE_EXISTS", Absent, m.size, 0))
             /\ UNCHANGED <<disk, tcp>>
    <3>1. toClient' \in [Clients -> Seq(Datagrams)]
      BY <2>3, <1>3, CmdMsgType, SendType DEF Commands, Codes
    <3>2. HandlerOK'
      BY <2>3, <1>3 DEF HandlerOK, isValidFilename, MaybeValid, ServerPlaces
    <3>3. TransferOK' /\ DiskOK'
      BY <2>3 DEF TransferOK, DiskOK, OnlyValidNames, Files, tcp
    <3>. QED
      BY <3>1, <3>2, <3>3
  <2>. QED
    BY <1>1, <2>1, <2>2, <2>3
<1>5. NetworkOK'
  BY <1>2, <1>4 DEF NetworkOK
<1>6. ClientsOK' /\ CountsOK'
  BY <1>1 DEF ClientsOK, CountsOK, clients
<1>. QED
  BY <1>4, <1>5, <1>6

\* The confirmation is taken from whoever sent it; its name is valid all the same.
LEMMA OverwriteAnsweredOK ==
  ASSUME IInv, NEW c \in Clients, OverwriteAnswered(c) PROVE IInv'
<1>. USE DEF IInv, Recorded
<1>1. PICK m \in FirstOf(toServer[c]) :
        /\ Receive(c) /\ Read(m)
        /\ \/ Confirmed(m) /\ BeginTransfer(c, m.filename, m.size)
           \/ ~ Confirmed(m) /\ Answer(c, 2)
        /\ UNCHANGED <<clients, typed, lost>>
  BY DEF OverwriteAnswered
<1>2. /\ m \in ClientDatagrams /\ m \in Datagrams /\ currentClientAddr' \in Clients
      /\ toServer' \in [Clients -> Seq(ClientDatagrams)]
  BY <1>1, ReceiveType
<1>. Recorded
  BY <1>1, ReadType
<1>3. m.size \in Nat
  BY <1>2 DEF Datagrams
<1>4. HandlerOK' /\ TransferOK' /\ DiskOK' /\ toClient' \in [Clients -> Seq(Datagrams)]
  <2>1. CASE Confirmed(m) /\ BeginTransfer(c, m.filename, m.size)
    <3>1. m.filename \in Names \cup {Absent}
      BY <1>2 DEF Datagrams
    <3>2. misread' \/ m.filename \in MaybeValid
      BY <2>1, <1>1, <1>2 DEF Confirmed, ClientDatagrams, Read
    <3>. QED
      BY <2>1, <3>1, <3>2, <1>3, BeginTransferOK
  <2>2. CASE Answer(c, 2)
    BY <2>2, AnswerOK
  <2>. QED
    BY <1>1, <2>1, <2>2
<1>5. NetworkOK'
  BY <1>2, <1>4 DEF NetworkOK
<1>6. ClientsOK' /\ CountsOK'
  BY <1>1 DEF ClientsOK, CountsOK, clients
<1>. QED
  BY <1>4, <1>5, <1>6

\* A handler that gives up leaves everything but its own locals.
LEMMA ConfirmationMissingOK == ASSUME IInv, ConfirmationMissing PROVE IInv'
<1>. USE DEF IInv, ConfirmationMissing
<1>1. HandlerOK'
  BY DEF HandlerOK, Return, MaybeValid, ServerPlaces
<1>2. TransferOK' /\ DiskOK'
  BY DEF TransferOK, Return, DiskOK, OnlyValidNames, Files, tcp
<1>3. NetworkOK' /\ ClientsOK' /\ CountsOK'
  BY DEF NetworkOK, NothingReceived, ClientsOK, CountsOK, clients
<1>. QED
  BY <1>1, <1>2, <1>3

\* A file that can be opened has a name, and that name is valid.
LEMMA StoreOK ==
  ASSUME IInv, NEW d \in Contents \cup {Absent, Damaged, Partial}, filename \in Names, Recorded,
         disk' = [disk EXCEPT ![filename] = d]
  PROVE  DiskOK'
<1>. USE DEF IInv, Recorded
<1>1. misread \/ filename \in ValidNames
  BY DEF HandlerOK, MaybeValid
<1>2. disk' \in Disks
  BY DEF DiskOK, Disks
<1>. QED
  BY <1>1, <1>2 DEF DiskOK, Disks, OnlyValidNames, Files

\* What the file of a datagram holds is a content, or damaged.
LEMMA SmallFileArrivesOK ==
  ASSUME IInv, NEW c \in Clients, SmallFileArrives(c) PROVE IInv'
<1>. USE DEF IInv
<1>0. PICK m \in FirstOf(toServer[c]), ok \in BOOLEAN : \E w \in Written(m.data) :
        /\ Receive(c) /\ Opens(ok)
        /\ disk' = IF ok THEN [disk EXCEPT ![filename] = w] ELSE disk
        /\ sendResponse(c, Ack(0, IF ok THEN 0 ELSE 1)) /\ Return
        /\ UNCHANGED <<tcp, clients, typed, lost, misread>>
  BY DEF SmallFileArrives
<1>1. PICK w \in Written(m.data) :
        /\ Receive(c) /\ Opens(ok)
        /\ disk' = IF ok THEN [disk EXCEPT ![filename] = w] ELSE disk
        /\ sendResponse(c, Ack(0, IF ok THEN 0 ELSE 1)) /\ Return
        /\ UNCHANGED <<tcp, clients, typed, lost, misread>>
  BY <1>0
<1>. Recorded
  BY <1>1 DEF HandlerOK, Recorded
<1>2. DiskOK'
  <2>1. w \in Contents \cup {Absent, Damaged, Partial}
    BY DEF Stored, Written
  <2>2. CASE ok = TRUE
    BY <1>1, <2>1, <2>2, StoreOK DEF Opens
  <2>3. CASE ok = FALSE
    BY <1>1, <2>3 DEF DiskOK, OnlyValidNames, Files
  <2>. QED
    BY <2>2, <2>3
<1>3. NetworkOK'
  <2>1. toClient' \in [Clients -> Seq(Datagrams)]
    BY <1>1, AckType, SendType
  <2>. QED
    BY <1>1, <2>1, ReceiveType DEF NetworkOK
<1>4. HandlerOK' /\ TransferOK'
  BY <1>1 DEF HandlerOK, TransferOK, Return, MaybeValid, ServerPlaces, tcp
<1>5. ClientsOK' /\ CountsOK'
  BY <1>1 DEF ClientsOK, CountsOK, clients
<1>. QED
  BY <1>2, <1>3, <1>4, <1>5

\* A file that does not come is answered to the client that was last heard.
LEMMA SmallFileMissingOK == ASSUME IInv, SmallFileMissing PROVE IInv'
<1>. USE DEF IInv
<1>1. /\ NothingReceived /\ Answer(currentClientAddr, 1)
      /\ UNCHANGED <<clients, typed, lost, misread>>
  BY DEF SmallFileMissing
<1>. Recorded
  BY <1>1 DEF HandlerOK, Recorded
<1>2. currentClientAddr \in Clients
  BY DEF NetworkOK
<1>3. HandlerOK' /\ TransferOK' /\ DiskOK' /\ toClient' \in [Clients -> Seq(Datagrams)]
  BY <1>1, <1>2, AnswerOK
<1>4. NetworkOK' /\ ClientsOK' /\ CountsOK'
  BY <1>1, <1>3 DEF NetworkOK, NothingReceived, ClientsOK, CountsOK, clients
<1>. QED
  BY <1>3, <1>4

\* Hanging up gives no connection a content it did not have.
LEMMA HangupType ==
  ASSUME TransferOK, Hangup
  PROVE  conn' \in [Clients -> {"none", "open", "reset", "cut"} \cup Contents]
BY DEF Hangup

\* accept() either fails or opens the file of a handler that has a valid name.
LEMMA AcceptConnectionOK ==
  ASSUME IInv, NEW c \in Clients, AcceptConnection(c) PROVE IInv'
<1>. USE DEF IInv
<1>. Recorded
  BY DEF AcceptConnection, HandlerOK, Recorded
<1>1. HandlerOK' /\ TransferOK' /\ DiskOK'
  <2>1. CASE /\ Opens(TRUE) /\ pc' = "recv" /\ peer' = c
             /\ disk' = [disk EXCEPT ![filename] = Damaged]
             /\ UNCHANGED <<locals, conn>>
    <3>1. filename \in Names
      BY <2>1 DEF Opens
    <3>3. HandlerOK'
      BY <2>1, <3>1 DEF AcceptConnection, HandlerOK, ServerPlaces, locals
    <3>4. DiskOK'
      BY <2>1, <3>1, StoreOK
    <3>5. TransferOK'
      BY <2>1 DEF AcceptConnection, TransferOK
    <3>. QED
      BY <3>3, <3>4, <3>5
  <2>2. CASE Return /\ Hangup /\ UNCHANGED <<disk, peer>>
    <3>1. HandlerOK' /\ DiskOK'
      BY <2>2 DEF AcceptConnection, HandlerOK, DiskOK, OnlyValidNames, Files, Return, MaybeValid,
                  ServerPlaces
    <3>2. TransferOK'
      BY <2>2, HangupType DEF AcceptConnection, TransferOK, Return
    <3>. QED
      BY <3>1, <3>2
  <2>. QED
    BY <2>1, <2>2 DEF AcceptConnection
<1>2. NetworkOK' /\ ClientsOK' /\ CountsOK'
  BY DEF AcceptConnection, NetworkOK, ClientsOK, CountsOK, clients
<1>. QED
  BY <1>1, <1>2

\* The stream ends with a content, or without one.
LEMMA LargeFileEndsOK == ASSUME IInv, LargeFileEnds PROVE IInv'
<1>. USE DEF IInv
<1>1. /\ filename \in Names /\ currentTcpPort \in Nat /\ currentClientAddr \in Clients
  BY DEF LargeFileEnds, HandlerOK, TransferOK, NetworkOK
<1>. Recorded
  BY DEF LargeFileEnds, HandlerOK, Recorded
<1>2. DiskOK'
  <2>1. PICK w \in Written(conn[peer]) : disk' = [disk EXCEPT ![filename] = w]
    BY DEF LargeFileEnds
  <2>2. w \in Contents \cup {Absent, Damaged, Partial}
    BY DEF Written, Stored
  <2>. QED
    BY <1>1, <2>1, <2>2, StoreOK
<1>3. toClient' \in [Clients -> Seq(Datagrams)]
  BY <1>1, AckType, SendType DEF LargeFileEnds
<1>4. NetworkOK'
  BY <1>3 DEF LargeFileEnds, NetworkOK
<1>5. HandlerOK'
  BY DEF LargeFileEnds, HandlerOK, Return, MaybeValid, ServerPlaces
<1>6. TransferOK'
  BY <1>1, HangupType DEF LargeFileEnds, TransferOK, Return
<1>7. ClientsOK' /\ CountsOK'
  BY DEF LargeFileEnds, ClientsOK, CountsOK, clients
<1>. QED
  BY <1>2, <1>4, <1>5, <1>6, <1>7

\* A removal only takes a file away.
LEMMA handleRemoveOK == ASSUME IInv, NEW c \in Clients, handleRemove(c) PROVE IInv'
<1>. USE DEF IInv, Recorded
<1>1. PICK m \in FirstOf(toServer[c]) :
        /\ Serve(c, m, "REMOVE")
        /\ \/ \E e \in {INVALID_FILENAME, 1} : Answer(c, e)
           \/ /\ isValidFilename(m.filename)
              /\ disk' = [disk EXCEPT ![m.filename] = Absent]
              /\ sendResponse(c, Ack(0, 0)) /\ Return /\ UNCHANGED tcp
        /\ UNCHANGED <<clients, typed, lost>>
  BY DEF handleRemove
<1>. Recorded
  BY <1>1, ReadType DEF Serve
<1>2. HandlerOK' /\ TransferOK' /\ DiskOK' /\ toClient' \in [Clients -> Seq(Datagrams)]
  <2>1. CASE \E e \in {INVALID_FILENAME, 1} : Answer(c, e)
    BY <2>1, AnswerOK DEF INVALID_FILENAME
  <2>2. CASE /\ isValidFilename(m.filename)
             /\ disk' = [disk EXCEPT ![m.filename] = Absent]
             /\ sendResponse(c, Ack(0, 0)) /\ Return /\ UNCHANGED tcp
    <3>1. toClient' \in [Clients -> Seq(Datagrams)]
      BY <2>2, AckType, SendType
    <3>2. DiskOK'
      BY <2>2 DEF DiskOK, Disks, OnlyValidNames, Files
    <3>3. HandlerOK' /\ TransferOK'
      BY <2>2 DEF HandlerOK, TransferOK, Return, MaybeValid, ServerPlaces, tcp
    <3>. QED
      BY <3>1, <3>2, <3>3
  <2>. QED
    BY <1>1, <2>1, <2>2
<1>3. NetworkOK'
  BY <1>1, <1>2, ReceiveType DEF NetworkOK, Serve
<1>4. ClientsOK' /\ CountsOK'
  BY <1>1 DEF ClientsOK, CountsOK, clients
<1>. QED
  BY <1>2, <1>3, <1>4

\* rename keeps the name it found valid while it waits for the new one.
LEMMA handleRenameOK == ASSUME IInv, NEW c \in Clients, handleRename(c) PROVE IInv'
<1>. USE DEF IInv, Recorded
<1>1. PICK m \in FirstOf(toServer[c]) :
        /\ Serve(c, m, "RENAME")
        /\ \/ \E e \in {INVALID_FILENAME, 1} : Answer(c, e)
           \/ /\ isValidFilename(m.filename)
              /\ pc' = "newName" /\ filename' = m.filename
              /\ filesize' = 0 /\ newFilename' = Absent
              /\ sendResponse(c, CmdMsg("READY_FOR_NEW_NAME", Absent, 0, 0))
              /\ UNCHANGED <<disk, tcp>>
        /\ UNCHANGED <<clients, typed, lost>>
  BY DEF handleRename
<1>. Recorded
  BY <1>1, ReadType DEF Serve
<1>2. HandlerOK' /\ TransferOK' /\ DiskOK' /\ toClient' \in [Clients -> Seq(Datagrams)]
  <2>1. CASE \E e \in {INVALID_FILENAME, 1} : Answer(c, e)
    BY <2>1, AnswerOK DEF INVALID_FILENAME
  <2>2. CASE /\ isValidFilename(m.filename)
             /\ pc' = "newName" /\ filename' = m.filename
             /\ filesize' = 0 /\ newFilename' = Absent
             /\ sendResponse(c, CmdMsg("READY_FOR_NEW_NAME", Absent, 0, 0))
             /\ UNCHANGED <<disk, tcp>>
    <3>1. toClient' \in [Clients -> Seq(Datagrams)]
      BY <2>2, CmdMsgType, SendType DEF Commands, Codes
    <3>2. HandlerOK'
      BY <2>2 DEF HandlerOK, isValidFilename, MaybeValid, ServerPlaces
    <3>3. TransferOK' /\ DiskOK'
      BY <2>2 DEF TransferOK, DiskOK, OnlyValidNames, Files, tcp
    <3>. QED
      BY <3>1, <3>2, <3>3
  <2>. QED
    BY <1>1, <2>1, <2>2
<1>3. NetworkOK'
  BY <1>1, <1>2, ReceiveType DEF NetworkOK, Serve
<1>4. ClientsOK' /\ CountsOK'
  BY <1>1 DEF ClientsOK, CountsOK, clients
<1>. QED
  BY <1>2, <1>3, <1>4

\* Renaming to a valid name brings no other into the directory.
LEMMA RenameOK ==
  ASSUME IInv, NEW c \in Clients, NEW d \in Disks,
         Recorded, misread \/ \A n \in Names : d[n] # Absent => n \in ValidNames,
         NEW old \in ValidNames, NEW new \in ValidNames, Rename(c, d, old, new)
  PROVE  DiskOK' /\ toClient' \in [Clients -> Seq(Datagrams)]
<1>1. toClient' \in [Clients -> Seq(Datagrams)]
  BY AckType, SendType DEF Rename, IInv
<1>2. disk' \in Disks
  BY DEF Rename, Move, Disks
<1>3. misread \/ \A n \in Names : disk'[n] # Absent => n \in ValidNames
  BY DEF Rename, Move, Disks
<1>. QED
  BY <1>1, <1>2, <1>3 DEF Recorded, DiskOK, OnlyValidNames, Files

\* The new name is looked at before anything is renamed to it.
LEMMA NewNameArrivesOK ==
  ASSUME IInv, NEW c \in Clients, NewNameArrives(c) PROVE IInv'
<1>. USE DEF IInv, Recorded
<1>1. PICK m \in FirstOf(toServer[c]) :
        /\ Receive(c) /\ Read(m)
        /\ \/ Answer(c, INVALID_FILENAME)
           \/ /\ isValidFilename(NameIn(m))
              /\ pc' = "renameConfirm" /\ newFilename' = NameIn(m)
              /\ sendResponse(c, CmdMsg("FILE_EXISTS", Absent, 0, 0))
              /\ UNCHANGED <<filename, filesize, disk, tcp>>
           \/ /\ isValidFilename(NameIn(m))
              /\ Rename(c, disk, filename, NameIn(m)) /\ Return /\ UNCHANGED tcp
        /\ UNCHANGED <<clients, typed, lost>>
  BY DEF NewNameArrives
<1>. Recorded
  BY <1>1, ReadType
<1>2. filename \in ValidNames
  BY DEF NewNameArrives, HandlerOK
<1>3. HandlerOK' /\ TransferOK' /\ DiskOK' /\ toClient' \in [Clients -> Seq(Datagrams)]
  <2>1. CASE Answer(c, INVALID_FILENAME)
    BY <2>1, AnswerOK DEF INVALID_FILENAME
  <2>2. CASE /\ isValidFilename(NameIn(m))
             /\ pc' = "renameConfirm" /\ newFilename' = NameIn(m)
             /\ sendResponse(c, CmdMsg("FILE_EXISTS", Absent, 0, 0))
             /\ UNCHANGED <<filename, filesize, disk, tcp>>
    <3>1. toClient' \in [Clients -> Seq(Datagrams)]
      BY <2>2, CmdMsgType, SendType DEF Commands, Codes
    <3>2. HandlerOK'
      BY <2>2, <1>2 DEF HandlerOK, isValidFilename, MaybeValid, ServerPlaces
    <3>3. TransferOK' /\ DiskOK'
      BY <2>2 DEF TransferOK, DiskOK, OnlyValidNames, Files, tcp
    <3>. QED
      BY <3>1, <3>2, <3>3
  <2>3. CASE /\ isValidFilename(NameIn(m))
             /\ Rename(c, disk, filename, NameIn(m)) /\ Return /\ UNCHANGED tcp
    <3>1. disk \in Disks /\ (misread \/ \A n \in Names : disk[n] # Absent => n \in ValidNames)
      BY DEF DiskOK, OnlyValidNames, Files
    <3>2. DiskOK' /\ toClient' \in [Clients -> Seq(Datagrams)]
      BY <2>3, <3>1, <1>2, RenameOK DEF isValidFilename
    <3>3. HandlerOK' /\ TransferOK'
      BY <2>3 DEF HandlerOK, TransferOK, Return, MaybeValid, ServerPlaces, tcp
    <3>. QED
      BY <3>2, <3>3
  <2>. QED
    BY <1>1, <2>1, <2>2, <2>3
<1>4. NetworkOK'
  BY <1>1, <1>3, ReceiveType DEF NetworkOK
<1>5. ClientsOK' /\ CountsOK'
  BY <1>1 DEF ClientsOK, CountsOK, clients
<1>. QED
  BY <1>3, <1>4, <1>5

\* Nor does the rename that follows the deletion of its target.
LEMMA RenameAnsweredOK ==
  ASSUME IInv, NEW c \in Clients, RenameAnswered(c) PROVE IInv'
<1>. USE DEF IInv, Recorded
<1>1. PICK m \in FirstOf(toServer[c]) :
        /\ Receive(c) /\ Read(m)
        /\ \/ Answer(c, 2)
           \/ /\ \E d \in {disk, [disk EXCEPT ![newFilename] = Absent]} :
                   Rename(c, d, filename, newFilename)
              /\ Return /\ UNCHANGED tcp
        /\ UNCHANGED <<clients, typed, lost>>
  BY DEF RenameAnswered
<1>. Recorded
  BY <1>1, ReadType
<1>2. filename \in ValidNames /\ newFilename \in ValidNames
  BY DEF RenameAnswered, HandlerOK
<1>3. HandlerOK' /\ TransferOK' /\ DiskOK' /\ toClient' \in [Clients -> Seq(Datagrams)]
  <2>1. CASE Answer(c, 2)
    BY <2>1, AnswerOK
  <2>2. CASE /\ \E d \in {disk, [disk EXCEPT ![newFilename] = Absent]} :
                  Rename(c, d, filename, newFilename)
             /\ Return /\ UNCHANGED tcp
    <3>1. PICK d \in {disk, [disk EXCEPT ![newFilename] = Absent]} :
            Rename(c, d, filename, newFilename)
      BY <2>2
    <3>2. d \in Disks /\ (misread \/ \A n \in Names : d[n] # Absent => n \in ValidNames)
      BY DEF DiskOK, Disks, OnlyValidNames, Files
    <3>3. DiskOK' /\ toClient' \in [Clients -> Seq(Datagrams)]
      BY <3>1, <3>2, <1>2, RenameOK
    <3>4. HandlerOK' /\ TransferOK'
      BY <2>2 DEF HandlerOK, TransferOK, Return, MaybeValid, ServerPlaces, tcp
    <3>. QED
      BY <3>3, <3>4
  <2>. QED
    BY <1>1, <2>1, <2>2
<1>4. NetworkOK'
  BY <1>1, <1>3, ReceiveType DEF NetworkOK
<1>5. ClientsOK' /\ CountsOK'
  BY <1>1 DEF ClientsOK, CountsOK, clients
<1>. QED
  BY <1>3, <1>4, <1>5

\* A shutdown empties the queues to the server.
LEMMA handleShutdownOK ==
  ASSUME IInv, NEW c \in Clients, handleShutdown(c) PROVE IInv'
<1>. USE DEF IInv, handleShutdown, Recorded
<1>. Recorded
  BY ReadType
<1>1. toClient' \in [Clients -> Seq(Datagrams)]
  BY AckType, SendType
<1>2. toServer' \in [Clients -> Seq(ClientDatagrams)]
  OBVIOUS
<1>3. NetworkOK' /\ ClientsOK' /\ CountsOK'
  BY <1>1, <1>2 DEF NetworkOK, ClientsOK, CountsOK, clients
<1>4. HandlerOK' /\ TransferOK' /\ DiskOK'
  BY DEF HandlerOK, TransferOK, DiskOK, OnlyValidNames, Files, ServerPlaces,
         locals, tcp
<1>. QED
  BY <1>3, <1>4

\* What is no command is taken from its queue, and that is all.
LEMMA IgnoreOK == ASSUME IInv, NEW c \in Clients, Ignore(c) PROVE IInv'
<1>. USE DEF IInv
<1>1. PICK m \in FirstOf(toServer[c]) :
        /\ Receive(c)
        /\ UNCHANGED <<pc, locals, tcp, disk, toClient, clients, typed, lost, misread>>
  BY DEF Ignore
<1>2. NetworkOK'
  BY <1>1, ReceiveType DEF NetworkOK
<1>3. HandlerOK' /\ TransferOK'
  BY <1>1 DEF HandlerOK, TransferOK, locals, tcp
<1>4. DiskOK' /\ ClientsOK' /\ CountsOK'
  BY <1>1 DEF DiskOK, OnlyValidNames, Files, ClientsOK, CountsOK, clients
<1>. QED
  BY <1>2, <1>3, <1>4

-----------------------------------------------------------------------------
(* The clients.                                                            *)

\* What a client does leaves the server and the directory alone.
LEMMA ServerStays ==
  ASSUME IInv, UNCHANGED server
  PROVE  /\ HandlerOK' /\ DiskOK' /\ currentClientAddr' \in Clients
         /\ currentTcpPort' \in Nat
         /\ peer' \in Clients \cup {Absent} /\ (pc' = "recv" => peer' \in Clients)
         /\ UNCHANGED conn => TransferOK'
BY DEF IInv, server, locals, HandlerOK, TransferOK, DiskOK, OnlyValidNames, Files,
       NetworkOK

\* A client's datagram goes to the server unless that is down.
LEMMA sendCommandType ==
  ASSUME NetworkOK, NEW c \in Clients, NEW m \in ClientDatagrams, sendCommand(c, m)
  PROVE  toServer' \in [Clients -> Seq(ClientDatagrams)]
<1>1. Append(toServer[c], m) \in Seq(ClientDatagrams)
  BY DEF NetworkOK
<1>. QED
  BY <1>1 DEF sendCommand, NetworkOK

\* A client that receives leaves datagrams in its queue, and the rest alone.
LEMMA ClientReceivesOK ==
  ASSUME IInv, NEW c \in Clients, NEW m \in FirstOf(toClient[c]), NEW where,
         ClientReceives(c, where)
  PROVE  /\ m \in Datagrams /\ toClient' \in [Clients -> Seq(Datagrams)]
         /\ HandlerOK' /\ TransferOK' /\ DiskOK' /\ CountsOK'
         /\ currentClientAddr' \in Clients
<1>1. toClient[c] \in Seq(Datagrams)
  BY DEF IInv, NetworkOK
<1>2. m \in Datagrams /\ Tail(toClient[c]) \in Seq(Datagrams)
  BY <1>1, FirstOfType
<1>3. toClient' \in [Clients -> Seq(Datagrams)]
  BY <1>2 DEF ClientReceives, IInv, NetworkOK
<1>4. UNCHANGED <<server, conn>> /\ UNCHANGED <<before, typed, lost>>
  BY DEF ClientReceives, clientOnly
<1>. QED
  BY <1>2, <1>3, <1>4, ServerStays DEF CountsOK, IInv

\* A client at its prompt is not uploading, whatever it reports.
LEMMA ReportOK ==
  ASSUME ClientsOK, NEW c \in Clients, NEW outcome \in Outcomes,
         Report(c, outcome), UNCHANGED cmd
  PROVE  ClientsOK'
BY DEF ClientsOK, Report, Goto, ClientPlaces, Uploading

\* A client that goes on with its upload keeps its command.
LEMMA GotoOK ==
  ASSUME ClientsOK, NEW c \in Clients, NEW where \in ClientPlaces,
         where \in Uploading => cpc[c] \in Uploading,
         Goto(c, where), UNCHANGED <<result, cmd>>
  PROVE  ClientsOK'
BY DEF ClientsOK, Goto

\* A command that is typed, with its message and the place it leads to.
LEMMA IssueOK ==
  ASSUME IInv, NEW c \in Clients, NEW m \in ClientDatagrams,
         NEW where \in ClientPlaces, NEW outcome \in Outcomes,
         NEW op \in Commands, NEW n \in Names \cup {Absent},
         NEW new \in Names \cup {Absent}, NEW d \in Datum,
         where \in Uploading => n \in ValidNames /\ d \in Contents,
         Issue(c, Operation(op, n, new, d), m, where),
         result' = [result EXCEPT ![c] = outcome]
  PROVE  IInv'
<1>. USE DEF IInv, Issue
<1>1. HandlerOK' /\ TransferOK' /\ DiskOK' /\ currentClientAddr' \in Clients
  BY ServerStays
<1>2. toServer' \in [Clients -> Seq(ClientDatagrams)]
  BY sendCommandType
<1>3. NetworkOK'
  BY <1>1, <1>2 DEF NetworkOK
<1>4. ClientsOK'
  BY DEF ClientsOK, Goto, Operation
<1>5. CountsOK'
  BY DEF CountsOK, DiskOK
<1>. QED
  BY <1>1, <1>3, <1>4, <1>5

\* Every command that a user types.
LEMMA CommandOK ==
  ASSUME IInv, NEW c \in Clients,
         ls(c) \/ send(c) \/ remove(c) \/ rename(c) \/ shutdown(c)
  PROVE  IInv'
<1>0. /\ {"LS", "SEND", "REMOVE", "RENAME", "SHUTDOWN"} \subseteq Commands
      /\ {"ls", "send", "remove", "rename", "prompt"} \subseteq ClientPlaces
      /\ {"ls", "remove", "rename", "prompt"} \cap Uploading = {}
      /\ {"none", "shutdown"} \subseteq Outcomes
      /\ Contents \cup {Absent} \subseteq Datum
  BY DEF Commands, Codes, ClientPlaces, FirstAnswer, Uploading, Outcomes, Datum
<1>1. \A k \in {"LS", "SEND", "REMOVE", "RENAME", "SHUTDOWN"} :
        \A n \in Names \cup {Absent}, s \in Nat : CmdMsg(k, n, s, 0) \in ClientDatagrams
  BY <1>0, CmdMsgType
<1>2. CASE ls(c)
  <2>1. /\ Issue(c, Operation("LS", Absent, Absent, Absent),
                 CmdMsg("LS", Absent, 0, 0), "ls")
        /\ result' = [result EXCEPT ![c] = "none"]
    BY <1>2 DEF ls, Pending
  <2>2. CmdMsg("LS", Absent, 0, 0) \in ClientDatagrams
    BY <1>1
  <2>. QED
    BY <1>0, <2>1, <2>2, IssueOK
<1>3. CASE send(c)
  <2>1. PICK n \in ValidNames, d \in Contents :
          /\ Issue(c, Operation("SEND", n, Absent, d),
                   CmdMsg("SEND", n, SizeOf[d], 0), "send")
          /\ result' = [result EXCEPT ![c] = "none"]
    BY <1>3 DEF send, Pending
  <2>2. CmdMsg("SEND", n, SizeOf[d], 0) \in ClientDatagrams
    BY <1>1
  <2>. QED
    BY <1>0, <2>1, <2>2, IssueOK
<1>4. CASE remove(c)
  <2>1. PICK n \in Names :
          /\ Issue(c, Operation("REMOVE", n, Absent, Absent),
                   CmdMsg("REMOVE", n, 0, 0), "remove")
          /\ result' = [result EXCEPT ![c] = "none"]
    BY <1>4 DEF remove, Pending
  <2>2. CmdMsg("REMOVE", n, 0, 0) \in ClientDatagrams
    BY <1>1
  <2>. QED
    BY <1>0, <2>1, <2>2, IssueOK
<1>5. CASE rename(c)
  <2>1. PICK old \in Names, new \in Names :
          /\ Issue(c, Operation("RENAME", old, new, Absent),
                   CmdMsg("RENAME", old, 0, 0), "rename")
          /\ result' = [result EXCEPT ![c] = "none"]
    BY <1>5 DEF rename, Pending
  <2>2. CmdMsg("RENAME", old, 0, 0) \in ClientDatagrams
    BY <1>1
  <2>. QED
    BY <1>0, <2>1, <2>2, IssueOK
<1>6. CASE shutdown(c)
  <2>1. /\ Issue(c, Operation("SHUTDOWN", Absent, Absent, Absent),
                 CmdMsg("SHUTDOWN", Absent, 0, 0), "prompt")
        /\ result' = [result EXCEPT ![c] = "shutdown"]
    BY <1>6 DEF shutdown
  <2>2. CmdMsg("SHUTDOWN", Absent, 0, 0) \in ClientDatagrams
    BY <1>1
  <2>. QED
    BY <1>0, <2>1, <2>2, IssueOK
<1>. QED
  BY <1>2, <1>3, <1>4, <1>5, <1>6

\* ls keeps what it is told with the command.
LEMMA LsAnsweredOK == ASSUME IInv, NEW c \in Clients, LsAnswered(c) PROVE IInv'
<1>. USE DEF IInv
<1>1. PICK m \in FirstOf(toClient[c]) :
        /\ ClientReceives(c, "ls") /\ cmd' = [cmd EXCEPT ![c].data = m.data]
        /\ Report(c, "listed") /\ UNCHANGED toServer
  BY DEF LsAnswered
<1>2. /\ m \in Datagrams /\ toClient' \in [Clients -> Seq(Datagrams)]
      /\ HandlerOK' /\ TransferOK' /\ DiskOK' /\ CountsOK'
      /\ currentClientAddr' \in Clients
  BY <1>1, ClientReceivesOK
<1>3. NetworkOK'
  BY <1>1, <1>2 DEF NetworkOK
<1>4. m.data \in Datum
  BY <1>2 DEF Datagrams
<1>5. ClientsOK'
  <2>1. cpc' \in [Clients -> ClientPlaces] /\ result' \in [Clients -> Outcomes]
    BY <1>1 DEF ClientsOK, Report, Goto, ClientPlaces, Outcomes
  <2>2. cmd' \in [Clients -> [op : Commands \cup {"NONE"}, name : Names \cup {Absent},
                            new : Names \cup {Absent}, data : Datum, port : Nat]]
    BY <1>1, <1>4 DEF ClientsOK
  <2>3. \A k \in Clients : cpc'[k] \in Uploading =>
          k # c /\ cpc'[k] = cpc[k] /\ cmd'[k] = cmd[k]
    BY <1>1 DEF ClientsOK, Report, Goto, Uploading
  <2>. QED
    BY <2>1, <2>2, <2>3 DEF ClientsOK
<1>. QED
  BY <1>2, <1>3, <1>5

\* The content, and the new name, are data; sendSmallFile goes on uploading.
LEMMA SendContentOK ==
  ASSUME IInv, NEW c \in Clients, cpc[c] \in Uploading, SendContent(c)
  PROVE  ClientsOK' /\ toServer' \in [Clients -> Seq(ClientDatagrams)]
<1>. USE DEF IInv
<1>1. cmd[c].data \in Datum
  BY DEF ClientsOK, Datum
<1>2. toServer' \in [Clients -> Seq(ClientDatagrams)]
  BY <1>1, DataMsgType, sendCommandType DEF SendContent
<1>3. "smallAck" \in ClientPlaces /\ "smallAck" \in Uploading
  BY DEF ClientPlaces, LaterAnswer, Uploading
<1>4. ClientsOK'
  BY <1>3, GotoOK DEF SendContent
<1>. QED
  BY <1>2, <1>4

\* The port is kept with the command, whose file and name stay.
LEMMA ConnectToOK ==
  ASSUME IInv, NEW c \in Clients, cpc[c] \in Uploading, NEW port \in Nat,
         ConnectTo(c, port)
  PROVE  ClientsOK' /\ toServer' \in [Clients -> Seq(ClientDatagrams)]
<1>1. toServer' \in [Clients -> Seq(ClientDatagrams)]
  BY DEF ConnectTo, IInv, NetworkOK
<1>2. "connect" \in ClientPlaces /\ "connect" \in Uploading
  BY DEF ClientPlaces, Uploading
<1>3. cpc' \in [Clients -> ClientPlaces] /\ \A k \in Clients :
        cpc'[k] \in Uploading => cpc[k] \in Uploading
  BY <1>2 DEF ConnectTo, Goto, IInv, ClientsOK
<1>4. cmd' \in [Clients -> [op : Commands \cup {"NONE"}, name : Names \cup {Absent},
                          new : Names \cup {Absent}, data : Datum, port : Nat]]
  <2>1. cmd' = [cmd EXCEPT ![c] = [cmd[c] EXCEPT !.port = port]]
    BY DEF ConnectTo
  <2>2. [cmd[c] EXCEPT !.port = port] \in
          [op : Commands \cup {"NONE"}, name : Names \cup {Absent},
           new : Names \cup {Absent}, data : Datum, port : Nat]
    BY DEF IInv, ClientsOK
  <2>. QED
    BY <2>1, <2>2 DEF IInv, ClientsOK
<1>5. \A k \in Clients : cmd'[k].name = cmd[k].name /\ cmd'[k].data = cmd[k].data
  BY DEF ConnectTo, IInv, ClientsOK
<1>6. ClientsOK'
  BY <1>3, <1>4, <1>5 DEF ConnectTo, IInv, ClientsOK
<1>. QED
  BY <1>1, <1>6

\* Where an answer leads an upload, it is still one of the same file.
LEMMA SendAnsweredOK == ASSUME IInv, NEW c \in Clients, SendAnswered(c) PROVE IInv'
<1>. USE DEF IInv
<1>1. PICK m \in FirstOf(toClient[c]) :
        /\ ClientReceives(c, "send")
        /\ \/ Goto(c, "askOverwrite") /\ UNCHANGED <<toServer, cmd, result>>
           \/ ConnectTo(c, m.size)
           \/ SendContent(c)
  BY DEF SendAnswered
<1>2. /\ m \in Datagrams /\ toClient' \in [Clients -> Seq(Datagrams)]
      /\ HandlerOK' /\ TransferOK' /\ DiskOK' /\ CountsOK'
      /\ currentClientAddr' \in Clients
  BY <1>1, ClientReceivesOK
<1>3. cpc[c] \in Uploading /\ m.size \in Nat
  BY <1>1, <1>2 DEF ClientReceives, Uploading, Datagrams
<1>4. ClientsOK' /\ toServer' \in [Clients -> Seq(ClientDatagrams)]
  <2>1. CASE Goto(c, "askOverwrite") /\ UNCHANGED <<toServer, cmd, result>>
    <3>1. "askOverwrite" \in ClientPlaces
      BY DEF ClientPlaces
    <3>. QED
      BY <2>1, <3>1, <1>3, GotoOK DEF NetworkOK
  <2>. QED
    BY <1>1, <1>3, <2>1, ConnectToOK, SendContentOK
<1>5. NetworkOK'
  BY <1>2, <1>4 DEF NetworkOK
<1>. QED
  BY <1>2, <1>4, <1>5

\* The confirmation carries the name of the command, which is valid.
LEMMA OverwriteAskedOK == ASSUME IInv, NEW c \in Clients, OverwriteAsked(c) PROVE IInv'
<1>. USE DEF IInv
<1>1. PICK yes \in BOOLEAN :
        /\ cpc[c] = "askOverwrite"
        /\ sendCommand(c, CmdMsg("OVERWRITE", cmd[c].name, SizeOf[cmd[c].data],
                                 IF yes THEN 0 ELSE 1))
        /\ Goto(c, IF yes THEN "ready" ELSE "declined")
        /\ UNCHANGED <<clientOnly, toClient, cmd, result>>
  BY DEF OverwriteAsked
<1>2. cpc[c] \in Uploading
  BY <1>1 DEF Uploading
<1>3. cmd[c].name \in ValidNames /\ SizeOf[cmd[c].data] \in Nat
  BY <1>2 DEF ClientsOK
<1>4. CmdMsg("OVERWRITE", cmd[c].name, SizeOf[cmd[c].data], IF yes THEN 0 ELSE 1)
        \in ClientDatagrams
  BY <1>3, CmdMsgType DEF Commands, Codes, MaybeValid
<1>5. toServer' \in [Clients -> Seq(ClientDatagrams)]
  BY <1>1, <1>4, sendCommandType
<1>6. UNCHANGED <<server, conn>> /\ UNCHANGED <<before, typed, lost>>
  BY <1>1 DEF clientOnly
<1>7. HandlerOK' /\ TransferOK' /\ DiskOK' /\ CountsOK' /\ NetworkOK'
  BY <1>1, <1>5, <1>6, ServerStays DEF CountsOK, NetworkOK
<1>8. (IF yes THEN "ready" ELSE "declined") \in ClientPlaces
  BY DEF ClientPlaces, LaterAnswer
<1>9. ClientsOK'
  BY <1>1, <1>2, <1>8, GotoOK
<1>. QED
  BY <1>7, <1>9

\* The last answer of a command: the client reports, and is at its prompt.
LEMMA LastAnswerOK ==
  ASSUME IInv, NEW c \in Clients, NEW m \in FirstOf(toClient[c]), NEW where,
         NEW outcome \in Outcomes, ClientReceives(c, where), Report(c, outcome),
         UNCHANGED <<toServer, cmd>>
  PROVE  IInv'
<1>1. /\ toClient' \in [Clients -> Seq(Datagrams)]
      /\ HandlerOK' /\ TransferOK' /\ DiskOK' /\ CountsOK'
      /\ currentClientAddr' \in Clients
  BY ClientReceivesOK
<1>2. ClientsOK'
  BY ReportOK DEF IInv
<1>. QED
  BY <1>1, <1>2 DEF IInv, NetworkOK

\* The answers after which a client always reports.
LEMMA FinalAnswersOK ==
  ASSUME IInv, NEW c \in Clients,
         \/ DeclineAnswered(c) \/ TransferAnswered(c)
         \/ RemoveAnswered(c) \/ RenameOverwriteAnswered(c)
  PROVE  IInv'
<1>0. {"cancelled", "completed", "failed", "removed", "notFound", "error", "renamed"}
        \subseteq Outcomes
  BY DEF Outcomes
<1>1. CASE DeclineAnswered(c)
  BY <1>0, <1>1, LastAnswerOK DEF DeclineAnswered
<1>2. CASE TransferAnswered(c)
  <2>1. PICK m \in FirstOf(toClient[c]), where \in {"smallAck", "largeAck"} :
          /\ ClientReceives(c, where)
          /\ Report(c, IF IsAck(m, 0) THEN "completed" ELSE "failed")
          /\ UNCHANGED <<toServer, cmd>>
    BY <1>2 DEF TransferAnswered
  <2>2. (IF IsAck(m, 0) THEN "completed" ELSE "failed") \in Outcomes
    BY <1>0
  <2>. QED
    BY <2>1, <2>2, LastAnswerOK
<1>3. CASE RemoveAnswered(c)
  <2>1. PICK m \in FirstOf(toClient[c]) :
          /\ ClientReceives(c, "remove")
          /\ Report(c, IF IsAck(m, 0) THEN "removed"
                       ELSE IF IsAck(m, 1) THEN "notFound" ELSE "error")
          /\ UNCHANGED <<toServer, cmd>>
    BY <1>3 DEF RemoveAnswered
  <2>2. (IF IsAck(m, 0) THEN "removed"
         ELSE IF IsAck(m, 1) THEN "notFound" ELSE "error") \in Outcomes
    BY <1>0
  <2>. QED
    BY <2>1, <2>2, LastAnswerOK
<1>4. CASE RenameOverwriteAnswered(c)
  <2>1. PICK m \in FirstOf(toClient[c]) :
          /\ ClientReceives(c, "renameAck")
          /\ Report(c, IF m.error = 2 THEN "cancelled"
                       ELSE IF IsAck(m, 0) THEN "renamed" ELSE "error")
          /\ UNCHANGED <<toServer, cmd>>
    BY <1>4 DEF RenameOverwriteAnswered
  <2>2. (IF m.error = 2 THEN "cancelled"
         ELSE IF IsAck(m, 0) THEN "renamed" ELSE "error") \in Outcomes
    BY <1>0
  <2>. QED
    BY <2>1, <2>2, LastAnswerOK
<1>. QED
  BY <1>1, <1>2, <1>3, <1>4

\* The answer to a confirmation ends the upload or leads it on.
LEMMA ReadyAnsweredOK == ASSUME IInv, NEW c \in Clients, ReadyAnswered(c) PROVE IInv'
<1>. USE DEF IInv
<1>1. PICK m \in FirstOf(toClient[c]) :
        /\ ClientReceives(c, "ready")
        /\ \/ Report(c, "error") /\ UNCHANGED <<toServer, cmd>>
           \/ ConnectTo(c, m.size)
           \/ SendContent(c)
  BY DEF ReadyAnswered
<1>2. /\ m \in Datagrams /\ toClient' \in [Clients -> Seq(Datagrams)]
      /\ HandlerOK' /\ TransferOK' /\ DiskOK' /\ CountsOK'
      /\ currentClientAddr' \in Clients
  BY <1>1, ClientReceivesOK
<1>3. cpc[c] \in Uploading /\ m.size \in Nat
  BY <1>1, <1>2 DEF ClientReceives, Uploading, Datagrams
<1>4. ClientsOK' /\ toServer' \in [Clients -> Seq(ClientDatagrams)]
  <2>1. CASE Report(c, "error") /\ UNCHANGED <<toServer, cmd>>
    <3>1. "error" \in Outcomes
      BY DEF Outcomes
    <3>. QED
      BY <2>1, <3>1, ReportOK DEF NetworkOK
  <2>. QED
    BY <1>1, <1>3, <2>1, ConnectToOK, SendContentOK
<1>5. NetworkOK'
  BY <1>2, <1>4 DEF NetworkOK
<1>. QED
  BY <1>2, <1>4, <1>5

\* The new name goes out as data.
LEMMA ReadyForNewNameOK ==
  ASSUME IInv, NEW c \in Clients, ReadyForNewName(c) PROVE IInv'
<1>. USE DEF IInv
<1>1. PICK m \in FirstOf(toClient[c]) :
        /\ ClientReceives(c, "rename")
        /\ \/ /\ Report(c, IF m.error = 0 THEN "renamed" ELSE "notFound")
              /\ UNCHANGED toServer
           \/ /\ sendCommand(c, DataMsg(cmd[c].new))
              /\ Goto(c, "newNameAck") /\ UNCHANGED result
        /\ UNCHANGED cmd
  BY DEF ReadyForNewName
<1>2. CASE /\ Report(c, IF m.error = 0 THEN "renamed" ELSE "notFound")
           /\ UNCHANGED toServer
  <2>1. (IF m.error = 0 THEN "renamed" ELSE "notFound") \in Outcomes
    BY DEF Outcomes
  <2>. QED
    BY <1>1, <1>2, <2>1, LastAnswerOK
<1>3. CASE /\ sendCommand(c, DataMsg(cmd[c].new))
           /\ Goto(c, "newNameAck") /\ UNCHANGED result
  <2>1. cmd[c].new \in Datum
    BY DEF ClientsOK, Datum
  <2>2. toServer' \in [Clients -> Seq(ClientDatagrams)]
    BY <1>3, <2>1, DataMsgType, sendCommandType
  <2>3. /\ toClient' \in [Clients -> Seq(Datagrams)]
        /\ HandlerOK' /\ TransferOK' /\ DiskOK' /\ CountsOK'
        /\ currentClientAddr' \in Clients
    BY <1>1, ClientReceivesOK
  <2>4. "newNameAck" \in ClientPlaces /\ "newNameAck" \notin Uploading
    BY DEF ClientPlaces, LaterAnswer, Uploading
  <2>5. ClientsOK'
    BY <1>1, <1>3, <2>4, GotoOK
  <2>. QED
    BY <2>2, <2>3, <2>5 DEF NetworkOK
<1>. QED
  BY <1>1, <1>2, <1>3

\* The answer to the new name ends the rename or asks for a confirmation.
LEMMA NewNameAnsweredOK ==
  ASSUME IInv, NEW c \in Clients, NewNameAnswered(c) PROVE IInv'
<1>. USE DEF IInv
<1>1. PICK m \in FirstOf(toClient[c]) :
        /\ ClientReceives(c, "newNameAck")
        /\ \/ Goto(c, "askRename") /\ UNCHANGED result
           \/ Report(c, IF IsAck(m, 0) THEN "renamed"
                        ELSE IF IsAck(m, 1) THEN "notFound" ELSE "error")
        /\ UNCHANGED <<toServer, cmd>>
  BY DEF NewNameAnswered
<1>2. CASE Report(c, IF IsAck(m, 0) THEN "renamed"
                     ELSE IF IsAck(m, 1) THEN "notFound" ELSE "error")
  <2>1. (IF IsAck(m, 0) THEN "renamed"
         ELSE IF IsAck(m, 1) THEN "notFound" ELSE "error") \in Outcomes
    BY DEF Outcomes
  <2>. QED
    BY <1>1, <1>2, <2>1, LastAnswerOK
<1>3. CASE Goto(c, "askRename") /\ UNCHANGED result
  <2>1. /\ toClient' \in [Clients -> Seq(Datagrams)]
        /\ HandlerOK' /\ TransferOK' /\ DiskOK' /\ CountsOK'
        /\ currentClientAddr' \in Clients
    BY <1>1, ClientReceivesOK
  <2>2. "askRename" \in ClientPlaces /\ "askRename" \notin Uploading
    BY DEF ClientPlaces, Uploading
  <2>3. ClientsOK'
    BY <1>1, <1>3, <2>2, GotoOK
  <2>. QED
    BY <1>1, <2>1, <2>3 DEF NetworkOK
<1>. QED
  BY <1>1, <1>2, <1>3

\* The confirmation of a rename carries no name.
LEMMA RenameOverwriteAskedOK ==
  ASSUME IInv, NEW c \in Clients, RenameOverwriteAsked(c) PROVE IInv'
<1>. USE DEF IInv
<1>1. PICK yes \in BOOLEAN :
        /\ sendCommand(c, CmdMsg("OVERWRITE", Absent, 0, IF yes THEN 0 ELSE 1))
        /\ Goto(c, "renameAck")
        /\ UNCHANGED <<clientOnly, toClient, cmd, result>>
  BY DEF RenameOverwriteAsked
<1>2. CmdMsg("OVERWRITE", Absent, 0, IF yes THEN 0 ELSE 1) \in ClientDatagrams
  BY CmdMsgType DEF Commands, Codes, MaybeValid
<1>3. toServer' \in [Clients -> Seq(ClientDatagrams)]
  BY <1>1, <1>2, sendCommandType
<1>4. UNCHANGED <<server, conn>> /\ UNCHANGED <<before, typed, lost>>
  BY <1>1 DEF clientOnly
<1>5. HandlerOK' /\ TransferOK' /\ DiskOK' /\ CountsOK' /\ NetworkOK'
  BY <1>1, <1>3, <1>4, ServerStays DEF CountsOK, NetworkOK
<1>6. "renameAck" \in ClientPlaces /\ "renameAck" \notin Uploading
  BY DEF ClientPlaces, LaterAnswer, Uploading
<1>7. ClientsOK'
  BY <1>1, <1>6, GotoOK
<1>. QED
  BY <1>5, <1>7

\* connect() succeeds or is reported.
LEMMA ConnectOK == ASSUME IInv, NEW c \in Clients, Connect(c) PROVE IInv'
<1>. USE DEF IInv, Connect
<1>1. UNCHANGED server /\ UNCHANGED <<toServer, toClient, cmd, before, typed>>
  BY DEF tcpOnly
<1>2. conn' \in [Clients -> {"none", "open", "reset", "cut"} \cup Contents] /\ lost' \in Nat
  BY DEF TransferOK, CountsOK
<1>3. HandlerOK' /\ TransferOK' /\ DiskOK' /\ CountsOK' /\ NetworkOK'
  BY <1>1, <1>2, ServerStays DEF TransferOK, CountsOK, NetworkOK
<1>4. cpc[c] \in Uploading /\ "stream" \in ClientPlaces /\ "unreachable" \in Outcomes
  BY DEF Uploading, ClientPlaces, Outcomes
<1>5. ClientsOK'
  BY <1>1, <1>4, GotoOK, ReportOK
<1>. QED
  BY <1>3, <1>5

\* What is streamed is the content of the command.
LEMMA StreamFileOK == ASSUME IInv, NEW c \in Clients, StreamFile(c) PROVE IInv'
<1>. USE DEF IInv, StreamFile
<1>1. UNCHANGED server /\ UNCHANGED <<toServer, toClient, cmd, before, typed, lost>>
  BY DEF tcpOnly
<1>2. cpc[c] \in Uploading /\ "largeAck" \in ClientPlaces /\ "error" \in Outcomes
  BY DEF Uploading, ClientPlaces, LaterAnswer, Outcomes
<1>3. cmd[c].data \in Contents
  BY <1>2 DEF ClientsOK
<1>4. conn' \in [Clients -> {"none", "open", "reset", "cut"} \cup Contents]
  BY <1>3 DEF TransferOK
<1>5. HandlerOK' /\ TransferOK' /\ DiskOK' /\ CountsOK' /\ NetworkOK'
  BY <1>1, <1>4, ServerStays DEF TransferOK, CountsOK, NetworkOK
<1>6. ClientsOK'
  BY <1>1, <1>2, GotoOK, ReportOK
<1>. QED
  BY <1>5, <1>6

\* A receive that gives up is reported.
LEMMA ClientTimeoutOK == ASSUME IInv, NEW c \in Clients, ClientTimeout(c) PROVE IInv'
<1>. USE DEF IInv, ClientTimeout
<1>1. UNCHANGED <<server, conn>> /\ UNCHANGED <<before, typed, lost>>
  BY DEF clientOnly
<1>2. HandlerOK' /\ TransferOK' /\ DiskOK' /\ CountsOK' /\ NetworkOK'
  BY <1>1, ServerStays DEF CountsOK, NetworkOK
<1>3. (IF cpc[c] = "declined" THEN "cancelled"
       ELSE IF cpc[c] \in FirstAnswer THEN "timeout" ELSE "abandoned") \in Outcomes
  BY DEF Outcomes
<1>4. ClientsOK'
  BY <1>3, ReportOK
<1>. QED
  BY <1>2, <1>4

-----------------------------------------------------------------------------
(* The environment, and the theorems.                                      *)

\* A client that is killed leaves its connection, and sends nothing more.
LEMMA CrashOK == ASSUME IInv, NEW c \in Clients, Crash(c) PROVE IInv'
<1>. USE DEF IInv, Crash
<1>1. conn' \in [Clients -> {"none", "open", "reset", "cut"} \cup Contents]
  BY DEF TransferOK
<1>2. toClient' \in [Clients -> Seq(Datagrams)]
  BY DEF NetworkOK
<1>3. HandlerOK' /\ TransferOK' /\ DiskOK' /\ CountsOK' /\ NetworkOK'
  BY <1>1, <1>2, ServerStays DEF TransferOK, CountsOK, NetworkOK
<1>4. "dead" \in ClientPlaces /\ "dead" \notin Uploading
  BY DEF ClientPlaces, Uploading
<1>5. ClientsOK'
  BY <1>4, GotoOK
<1>. QED
  BY <1>3, <1>5

\* A connection that breaks carries no content.
LEMMA DropOK == ASSUME IInv, NEW c \in Clients, Drop(c) PROVE IInv'
<1>. USE DEF IInv, Drop
<1>1. conn' \in [Clients -> {"none", "open", "reset", "cut"} \cup Contents]
  BY DEF TransferOK
<1>2. UNCHANGED server /\ UNCHANGED <<toServer, toClient, before, typed, lost>>
  BY DEF clients
<1>3. HandlerOK' /\ TransferOK' /\ DiskOK' /\ CountsOK' /\ NetworkOK'
  BY <1>1, <1>2, ServerStays DEF TransferOK, CountsOK, NetworkOK
<1>4. ClientsOK'
  BY DEF ClientsOK, clients
<1>. QED
  BY <1>3, <1>4

\* A lost datagram is one less in its queue.
LEMMA LoseOK == ASSUME IInv, NEW c \in Clients, Lose(c) PROVE IInv'
<1>. USE DEF IInv, Lose
<1>0. UNCHANGED server /\ UNCHANGED <<conn, before, typed>> /\ lost' \in Nat
  BY DEF clients, CountsOK
<1>1. /\ toServer' \in [Clients -> Seq(ClientDatagrams)]
      /\ toClient' \in [Clients -> Seq(Datagrams)]
  <2>1. CASE /\ toServer[c] # << >> /\ UNCHANGED toClient
             /\ toServer' = [toServer EXCEPT ![c] = Tail(@)]
    <3>1. Tail(toServer[c]) \in Seq(ClientDatagrams)
      BY <2>1 DEF NetworkOK
    <3>. QED
      BY <2>1, <3>1 DEF NetworkOK
  <2>2. CASE /\ toClient[c] # << >> /\ UNCHANGED toServer
             /\ toClient' = [toClient EXCEPT ![c] = Tail(@)]
    <3>1. Tail(toClient[c]) \in Seq(Datagrams)
      BY <2>2 DEF NetworkOK
    <3>. QED
      BY <2>2, <3>1 DEF NetworkOK
  <2>. QED
    BY <2>1, <2>2
<1>2. HandlerOK' /\ TransferOK' /\ DiskOK' /\ CountsOK' /\ NetworkOK'
  BY <1>0, <1>1, ServerStays DEF CountsOK, NetworkOK
<1>3. ClientsOK'
  BY DEF ClientsOK, clients
<1>. QED
  BY <1>2, <1>3

\* The server starts with valid names in its directory, and nothing under way.
LEMMA InitIInv == Init => IInv
<1>. SUFFICES ASSUME Init PROVE IInv
  OBVIOUS
<1>. USE DEF Init
<1>1. HandlerOK /\ TransferOK
  BY DEF HandlerOK, TransferOK, MaybeValid, ServerPlaces
<1>2. DiskOK
  BY DEF DiskOK, Disks, OnlyValidNames, Files
<1>3. NetworkOK
  BY DEF NetworkOK
<1>4. ClientsOK
  BY DEF ClientsOK, ClientPlaces, Uploading, Outcomes, Datum
<1>5. CountsOK
  BY <1>2 DEF CountsOK, DiskOK
<1>. QED
  BY <1>1, <1>2, <1>3, <1>4, <1>5 DEF IInv

\* Every step of the server, a client or the network keeps the invariant.
LEMMA NextIInv == IInv /\ [Next]_vars => IInv'
<1>. SUFFICES ASSUME IInv, [Next]_vars PROVE IInv'
  OBVIOUS
<1>1. CASE ServerStep
  BY <1>1, ConfirmationMissingOK, SmallFileMissingOK, LargeFileEndsOK, handleLsOK,
     handleSendOK, handleRemoveOK, handleRenameOK, handleShutdownOK, IgnoreOK,
     OverwriteAnsweredOK, SmallFileArrivesOK, AcceptConnectionOK, NewNameArrivesOK,
     RenameAnsweredOK DEF ServerStep
<1>2. ASSUME NEW c \in Clients, UserStep(c) PROVE IInv'
  BY <1>2, CommandOK, OverwriteAskedOK, RenameOverwriteAskedOK DEF UserStep
<1>3. ASSUME NEW c \in Clients, ClientStep(c) PROVE IInv'
  BY <1>3, LsAnsweredOK, SendAnsweredOK, ReadyAnsweredOK, FinalAnswersOK, ConnectOK,
     StreamFileOK, ReadyForNewNameOK, NewNameAnsweredOK, ClientTimeoutOK
     DEF ClientStep
<1>4. ASSUME NEW c \in Clients, Crash(c) \/ Drop(c) \/ Lose(c) PROVE IInv'
  BY <1>4, CrashOK, DropOK, LoseOK
<1>5. CASE UNCHANGED vars
  BY <1>5 DEF vars, server, locals, clients, IInv, HandlerOK, TransferOK, DiskOK,
              OnlyValidNames, Files, NetworkOK, ClientsOK, CountsOK
<1>. QED
  BY <1>1, <1>2, <1>3, <1>4, <1>5 DEF Next

\* IInv holds throughout, for any number of clients.
THEOREM Inductive == Spec => []IInv
BY InitIInv, NextIInv, PTL DEF Spec

\* A datagram of a client is a datagram, and what MaybeValid holds is a name or
\* none: what IInv says of the variables is at least their type.
LEMMA IInvType == IInv => TypeOK
<1>. SUFFICES ASSUME IInv PROVE TypeOK
  OBVIOUS
<1>1. Seq(ClientDatagrams) \subseteq Seq(Datagrams)
  BY DEF ClientDatagrams
<1>2. toServer \in [Clients -> Seq(Datagrams)]
  BY <1>1 DEF IInv, NetworkOK
<1>3. /\ filename \in Names \cup {Absent} /\ newFilename \in Names \cup {Absent}
      /\ pc \in {"confirm", "recv", "newName", "renameConfirm"} => filename \in Names
      /\ pc = "renameConfirm" => newFilename \in Names
  BY DEF IInv, HandlerOK, MaybeValid
<1>. QED
  BY <1>2, <1>3 DEF IInv, HandlerOK, TransferOK, DiskOK, NetworkOK, ClientsOK,
                    CountsOK, TypeOK

\* Every variable of the server, the clients and the network keeps its type:
\* the handlers' locals are set where they are used, whoever's datagram it was
\* that a receive took.
THEOREM TypeCorrect == Spec => []TypeOK
BY Inductive, IInvType, PTL

\* No invalid name ever comes into the directory, although handleSend stores
\* under the name of a confirmation that it does not look at.
THEOREM NamesStayValid == Spec => []OnlyValidNames
<1>1. IInv => OnlyValidNames
  BY DEF IInv, DiskOK
<1>. QED
  BY <1>1, Inductive, PTL
=============================================================================
