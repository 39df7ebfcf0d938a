------------------------------- MODULE MCVDisk -------------------------------
(* Instances of VDisk for TLC.                                             *)
EXTENDS VDisk

\* Deep and shallow files, the two names Save treats differently, two paths without a
\* folder, two folders that differ in case, and two with a folder whose name contains the
\* file's.
MCPaths ==
    { <<"a", "x">>, <<"a", "b", "y">>, <<"a", "b", "c", "z">>, <<"DATA", "x">>,
      <<"", "r">>, <<"A", "x">>, <<"a", "StringTable.txt">>, <<"a", "b", "ADInfo.xml">>,
      <<"ax", "x">>, <<"a", "b", "c", "b">>,
      <<"s">>, <<"ax", "ADInfo.xml">> }

MCParts == {""} \cup UNION {ToSet(p) : p \in MCPaths} \cup {"v", "w"}

\* The files of one folder tree; the damage can hit any.  Two lie in one folder, so that
\* the last one of an earlier Save need not be the last one of the next, and one of these
\* has the name of a file one level up, which it is then taken for.
MCPathsDeep ==
    { <<"a", "w">>, <<"a", "b", "v">>, <<"a", "b", "w">>, <<"a", "b", "c", "z">> }

\* A folder packed by the tool, three levels deep.
MCPathsTree == { <<"a", "b", "c", "z">>, <<"a", "x">> }

\* The files of the folder itself, packed without a virtual root.
MCPathsOfRoot == { <<"", "r">>, <<"a", "x">> }

MCData == {"one", "two", EmptyData}
MCOneData == {"one", EmptyData}
MCPackedLength(data) == IF data = "one" THEN 10 ELSE 12

MCWithout(part, name) ==
    IF part = name THEN "" ELSE IF part = "ax" /\ name = "x" THEN "a" ELSE part

\* The order of the paths, ignoring case.
MCRank(path) ==
    CASE path = <<"", "r">>                 -> 0
      [] path = <<"a", "b", "ADInfo.xml">>  -> 1
      [] path = <<"a", "b", "c", "b">>      -> 2
      [] path = <<"a", "b", "c", "z">>      -> 3
      [] path = <<"a", "b", "v">>           -> 4
      [] path = <<"a", "b", "w">>           -> 5
      [] path = <<"a", "b", "y">>           -> 6
      [] path = <<"a", "StringTable.txt">>  -> 7
      [] path = <<"a", "w">>                -> 8
      [] path = <<"a", "x">>                -> 9
      [] path = <<"A", "x">>                -> 9
      [] path = <<"ax", "ADInfo.xml">>      -> 10
      [] path = <<"ax", "x">>               -> 11
      [] path = <<"DATA", "x">>             -> 12
      [] OTHER                              -> 13
=============================================================================
