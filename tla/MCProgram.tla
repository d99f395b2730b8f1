------------------------------ MODULE MCProgram ------------------------------
(* Two files of several kinds, two runs, the ini files a user may write. *)
EXTENDS Program, TLC

CONSTANTS f1, f2

Bytes(id, size, coded, pof, magic) ==
    [id |-> id, size |-> size, coded |-> coded, pof |-> pof, magic |-> magic]

Text == Bytes("text", 20000, 9000, FALSE, FALSE)
Noise == Bytes("noise", 20000, 20020, FALSE, FALSE)
Small == Bytes("small", 300, 200, FALSE, FALSE)
Model == Bytes("model", 3000, 1500, TRUE, FALSE)
Fake == Bytes("fake", 12000, 5000, FALSE, TRUE)

Held(x, xExt, y, yExt) ==
    [holds |-> (f1 :> x @@ f2 :> y), exts |-> (f1 :> xExt @@ f2 :> yExt)]

MCFolders ==
    {Held(Plain(Text), "txt", Plain(Model), "pof"),
     Held(Plain(Noise), "eff", Plain(Small), "none"),
     Held(Packed(Text), "txt", Plain(Fake), "dat"),
     Held(Plain(Text), "ogg", Plain(Text), "exe")}

Number(key, value) == Line(key, "number", value)

MCInis ==
    {<<Number("block_size", 0)>>,
     <<Number("block_size", 2147483647), Number("minimum_size", 0)>>,
     <<Number("max_threads", 0), Number("minimum_size", 100), Number("fix_pofs", 0)>>,
     <<Line("fix_pofs", "text", 0), Number("only_compress_vps", 1)>>,
     <<Line("minimum_size", "bare", 0)>>}
==============================================================================
