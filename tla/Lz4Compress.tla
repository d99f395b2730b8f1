----------------------------- MODULE Lz4Compress ----------------------------
(***************************************************************************)
(* A call that compresses one block: LZ4_compress_fast_continue of the     *)
(* fast levels, or LZ4HC_compress_generic_internal, which hands levels 3   *)
(* to 9 to the hash-chain coder and 10 to 12 to the optimal one.  Whatever *)
(* the coder, the call implements Lz4Block: the block it writes is one     *)
(* that the decoder turns into the text again.                             *)
(***************************************************************************)
EXTENDS Lz4Fast, Lz4Opt

compressVars == <<blockVars, pc, ip, top, fastVars, hcVars, optVars>>

Init == CoderInit /\ FastInit /\ HcInit /\ OptInit

Next ==
    \/ FastNext /\ UNCHANGED <<hcVars, optVars>>
    \/ HcNext /\ UNCHANGED <<fastVars, optVars>>
    \/ OptNext /\ UNCHANGED fastVars

(* A call runs in one thread and waits for nobody. *)
Spec == Init /\ [][Next]_compressVars /\ WF_compressVars(Next)

(***************************************************************************)
(* Every coder writes a block of Lz4Block: its matches repeat bytes of the *)
(* dictionary or of the text at most 64 KB back, and the rules about the   *)
(* end of a block hold also where the output ends before the text.         *)
(***************************************************************************)
ImplementsBlock == BlockSpec

(***************************************************************************)
(* Every call returns, although the coders go back to matches that they    *)
(* had passed.  Unless the output is too small it returns a block, and     *)
(* LZ4_compressBound says how large an output is enough, although the      *)
(* coders test for room with estimates; and unless the output was to be    *)
(* filled the block holds the whole text.                                  *)
(***************************************************************************)
Delivers ==
    <>(/\ pc = "returned"
       /\ input.dir = "notLimited" \/ input.room >= LZ4_COMPRESSBOUND(TextLength)
             => result = "coded"
       /\ result = "coded" /\ input.dir # "fillOutput" => anchor = End)
=============================================================================
