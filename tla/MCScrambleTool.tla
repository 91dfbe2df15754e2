-------------------------- MODULE MCScrambleTool --------------------------
(* Small instances of ScrambleTool.                                        *)
EXTENDS ScrambleTool

MCSize(text) == text
MCPart == STRING

Legacy(text, tables) == Content("legacy", text, tables)
Dir == <<<<"d">>>>
In(sub, name) == Dir \o sub \o <<name>>

(* Two files; two of one stem; a file and what could be its output; files  *)
(* in two directories with one name; files that are not legacy ones; one,  *)
(* and a file where its output may go.                                     *)
MCDisks ==
  {In(<<>>, <<"a", "bdat">>) :> Legacy(1, <<TRUE, FALSE>>)
     @@ In(<<>>, <<"b", "bdat">>) :> Legacy(2, <<FALSE>>),
   In(<<>>, <<"a", "bdat">>) :> Legacy(1, <<FALSE>>)
     @@ In(<<>>, <<"a", "bin">>) :> Legacy(2, <<FALSE>>),
   In(<<>>, <<"a", "bdat">>) :> Legacy(2, <<TRUE>>)
     @@ In(<<>>, <<"a", "scrambled", "bdat">>) :> Legacy(1, <<TRUE>>),
   In(<<>>, <<"a", "bdat">>) :> Legacy(1, <<FALSE>>)
     @@ In(<<<<"s">>>>, <<"a", "bdat">>) :> Legacy(2, <<TRUE>>),
   In(<<>>, <<"a", "bdat">>) :> Content("modern", 1, <<>>)
     @@ In(<<>>, <<"b", "bin">>) :> Content("other", 2, <<>>)
     @@ In(<<>>, <<"c">>) :> Legacy(3, <<FALSE>>),
   In(<<<<"s">>>>, <<"a", "bdat">>) :> Legacy(1, <<FALSE>>)
     @@ In(<<>>, <<"b", "bin">>) :> Content("other", 2, <<>>)
     @@ <<<<"o">>, <<"a", "bdat">>>> :> Legacy(2, <<TRUE>>)}

MCCommands ==
  [scramble : BOOLEAN, root : {Dir}, outDir : {NoDir, Dir, <<<<"o">>>>}]
    \cup [scramble : {FALSE}, root : {<<<<"o">>>>}, outDir : {NoDir}]
=============================================================================
