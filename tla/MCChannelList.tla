---------------------------- MODULE MCChannelList ----------------------------
(***************************************************************************)
(* Panel, over ChannelList, on a panel of three rows: public lists with    *)
(* and without categories, of two countries, and a box with one or two     *)
(* channels.  One channel has a new name in another list.                  *)
(***************************************************************************)
EXTENDS Panel

Chan(url, category, country, name) ==
    [url |-> url, category |-> category, country |-> country, name |-> name]

Das   == Chan("das", "", "", <<"x", "y">>)
Zdf   == Chan("zdf", "", "", <<"y">>)
Cnn   == Chan("cnn", "News", "US", <<"y", "x">>)
Yle   == Chan("yle", "News", "FI", <<"x">>)
Ap    == Chan("ap", "Animals", "US", <<"x", "x">>)
Weird == Chan("weird", "", "FI", <<"y", "y">>)
Named == [Weird EXCEPT !.name = <<"y", "x">>]

MCLocals     == {<<>>, <<Das>>, <<Das, Zdf>>}
MCPublics    == {<<>>, <<Cnn, Yle, Ap, Weird>>, <<Named, Cnn>>, <<Weird, Das>>}
MCCategories == <<"Animals", "News">>
=============================================================================
