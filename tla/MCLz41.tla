--------------------------------- MODULE MCLz41 ---------------------------------
(***************************************************************************)
(* The inputs on which TLC runs the LZ41 codec.                            *)
(***************************************************************************)
EXTENDS Lz41

\* Tiny files against tiny blocks: every boundary of the block arithmetic.
TinyInputs == (0..6) \X (1..4)

\* Real sizes against the default block size, one byte either side of a block end, the
\* smallest blocks of which OutBufferFits speaks, and a block size LZ4 refuses.
RealInputs == {4, 5, 64, 65535, 65536, 65537, 131072, 131073} \X {65536}
              \cup {4, 63, 64, 65, 128, 193} \X {64}
              \cup {<<7, LZ4_MAX_INPUT_SIZE + 1>>}

AllInputs == TinyInputs \cup RealInputs
=================================================================================
