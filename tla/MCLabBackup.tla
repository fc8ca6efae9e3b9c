---------------------------- MODULE MCLabBackup ----------------------------
(***************************************************************************)
(* A small instance of LabBackup: two names, an image that does not fit a  *)
(* datagram, and files that do: a note of text, and four that begin with   *)
(* the byte of a command and what its fields may hold.                     *)
(***************************************************************************)
EXTENDS LabBackup

CONSTANTS f, g, note, eraser, wiper, caller, stamp, image

MCNames == {f, g}
MCSmallFiles == {note, eraser, wiper, caller, stamp}
MCLargeFiles == {image}

Reads(c, n, l) == [cmd |-> c, filename |-> n, large |-> l, error |-> 0]
MCReadAs ==
  [d \in MCSmallFiles |->
     CASE d = note   -> Reads("DATA", Absent, FALSE)
       [] d = eraser -> Reads("REMOVE", g, FALSE)
       [] d = wiper  -> Reads("REMOVE", Absent, FALSE)
       [] d = caller -> Reads("SEND", g, TRUE)
       [] d = stamp  -> Reads("OVERWRITE", g, FALSE)]

=============================================================================
