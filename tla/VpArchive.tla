------------------------------- MODULE VpArchive --------------------------------
(***************************************************************************)
(* What vp.h promises of write_vp_file: an archive is a list of entries,   *)
(* each call adds one at the end, and everything added earlier is still    *)
(* there, with its own bytes.  The layout of the file is not visible here. *)
(***************************************************************************)
EXTENDS Sequences

CONSTANT Content    \* what a reader can get back for one entry: name, size, timestamp, bytes

VARIABLE archive

Init == archive = <<>>

Add == \E c \in Content : archive' = Append(archive, c)

Next == Add

Spec == Init /\ [][Next]_archive
=================================================================================
