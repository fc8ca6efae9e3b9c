-------------------------- MODULE MCBackupProtocol --------------------------
(***************************************************************************)
(* Small instances of BackupProtocol: two names that are accepted and one  *)
(* that is not; a note and a memo that travel in a datagram, and an image  *)
(* that needs a TCP connection.  The memo begins with text; the others     *)
(* begin with the byte of a command.                                       *)
(***************************************************************************)
EXTENDS BackupProtocol, TLC

CONSTANTS f, g, dotdot,          \* names
          note, memo, image      \* contents

MCNames == {f, g, dotdot}
MCValidNames == {f, g}
MCContents == {note, memo, image}
MCSizeOf == (note :> 1) @@ (memo :> 1) @@ (image :> 2)

\* What a content is as a command and as a name.
Reading(c, n, s, t) ==
  [cmd |-> c, filename |-> n, size |-> s, error |-> 0, text |-> t]

\* The note removes a file.
MCReadAs == (note  :> Reading("REMOVE", g, 0, Absent)) @@
            (memo  :> Reading("DATA", Absent, 0, f)) @@
            (image :> Reading("LS", Absent, 0, Absent))

\* For two clients: one valid name, a note that confirms an invalid one, and a
\* memo that needs a TCP connection.
PairNames == {f, dotdot}
PairValidNames == {f}
PairContents == {note, memo}
PairSizeOf == (note :> 1) @@ (memo :> 2)
PairReadAs == (note :> Reading("OVERWRITE", dotdot, 1, Absent)) @@
              (memo :> Reading("DATA", Absent, 0, f))

\* Two clients run the same program.
ClientSymmetry == Permutations(Clients)

=============================================================================
