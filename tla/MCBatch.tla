-------------------------------- MODULE MCBatch ---------------------------------
(***************************************************************************)
(* The directories on which TLC runs compress_folder.                      *)
(***************************************************************************)
EXTENDS Batch, TLC

CONSTANTS a, b, c, aVpc, bVpc, cVpc

\* x.vp and x_vpc.vp beside a file that shares no name; x.vp, x_vpc.vp and x_vpc_vpc.vp.
SharedTags == {a :> b @@ b :> bVpc @@ c :> cVpc, a :> b @@ b :> c @@ c :> cVpc}

\* One file, tagged with a name of its own.
DistinctTags == {a :> aVpc}

\* Slots that look empty: a page of zeros, or the debug heap's negative fill pattern.
EmptySlots == {[max |-> 0, fin |-> 0], [max |-> -1, fin |-> -1]}

\* Slots with what an earlier use of the heap left there.
UsedSlots == {[max |-> 0, fin |-> 0], [max |-> 7, fin |-> 3]}
=================================================================================
