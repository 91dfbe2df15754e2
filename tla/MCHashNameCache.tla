--------------------------- MODULE MCHashNameCache ---------------------------
(* Small instances of HashNameCache.                                       *)
EXTENDS HashNameCache

(* The hash of a name, with a collision between <<1>> and <<3>>, and one   *)
(* that tells apart any two different sequences of characters.             *)
MCKey(text) == IF text = <<3>> THEN 11 ELSE 10 + FoldLeft(LAMBDA a, c : 4 * a + c, 0, text)
MCHash(chars) == 100 + FoldLeft(LAMBDA a, c : 4 * a + c, 0, chars)

(* Lists of one, two and three names, longer and shorter, with a repeated  *)
(* name, a collision and an empty line.                                    *)
MCLists == {<< <<1>> >>, << <<2, 2, 2>>, <<1>> >>, << <<1>>, <<3>> >>,
            << <<2>>, <<2>>, <<>> >>, <<>>}

MCCrashLists == {<< <<1>> >>, << <<2, 2, 2>>, <<1>> >>, << <<1>>, <<3>> >>}
MCOneList == {<< <<2, 2>>, <<1>>, <<1, 3>> >>}

(* Lists that differ only in where their lines end. *)
MCSplitLists == {<< <<1, 2>>, <<3>> >>, << <<1>>, <<2, 3>> >>, << <<1, 2, 3>> >>, <<>>}

(* A name of four characters, where the length field counts up to three. *)
MCLongLists == {<< <<2, 2, 2, 2>>, <<1>> >>, << <<1>>, <<2>>, <<1, 1, 2, 1>> >>, << <<1>> >>}

MCModes == {[lists |-> MCLists, overlap |-> FALSE, crashes |-> FALSE],
            [lists |-> MCLongLists, overlap |-> FALSE, crashes |-> FALSE],
            [lists |-> MCCrashLists, overlap |-> FALSE, crashes |-> TRUE],
            [lists |-> MCOneList, overlap |-> TRUE, crashes |-> TRUE]}
MCSplit == {[lists |-> MCSplitLists, overlap |-> FALSE, crashes |-> FALSE]}
=============================================================================
