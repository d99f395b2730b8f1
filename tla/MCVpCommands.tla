------------------------------ MODULE MCVpCommands ------------------------------
(***************************************************************************)
(* The archives and settings with which TLC runs the VP commands.          *)
(***************************************************************************)
EXTENDS VpCommands

File(id, size, version, coded, magic) ==
    [id |-> id, size |-> size, version |-> version, coded |-> coded, magic |-> magic]

\* A file that shrinks, one that grows, one that fails; a pof to be converted that shrinks
\* before but not after, one that shrinks anyway; a file of four right bytes that shrinks,
\* one that grows, and one of five.
AllFiles ==
    {File("shrinks", 8, 0, 4, 0), File("grows", 4, 0, 6, 0), File("fails", 8, 0, -1, 0),
     File("pof", 8, 2117, 5, 0), File("dense pof", 5, 2117, 7, 0),
     File("text", 8, 0, 4, 4), File("short text", 4, 0, 6, 4), File("damaged", 8, 0, 4, 5)}

AllIds == {f.id : f \in AllFiles}

Singles == {<<e>> : e \in Original}

\* Pairs: what one entry does to the other, and to the name of the archive.
Common ==
    {Entry("none", TRUE, Plain(NoBytes), 0),
     Entry("tga", FALSE, Plain(File("shrinks", 8, 0, 4, 0)), 1),
     Entry("tga", TRUE, Coded(Plain(File("shrinks", 8, 0, 4, 0))), 1),
     Entry("pof", TRUE, Plain(File("pof", 8, 2117, 5, 0)), 1)}

Pairs == {<<e, f>> : e \in Common, f \in Common}

AllArchives == {<<>>} \cup Singles \cup Pairs

Settings(minimum_size, ignore_list, fix_pof, tag) ==
    [minimum_size |-> minimum_size, ignore_list |-> ignore_list,
     fix_pof |-> fix_pof, tag_c_vps |-> tag]

\* Everything is compressed and converted; only large files are; pofs are ignored (and
\* converted all the same); the same without conversion.
AllConfigs ==
    {Settings(0, {}, TRUE, TRUE), Settings(8, {}, FALSE, FALSE),
     Settings(0, {"pof"}, TRUE, FALSE), Settings(0, {"pof"}, FALSE, TRUE)}
=================================================================================
