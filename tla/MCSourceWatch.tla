---------------------------- MODULE MCSourceWatch ----------------------------
(***************************************************************************)
(* SourceWatch on two networks: at home the box competes with a server     *)
(* that has a list of its own; at the cabin another box hides in the mesh, *)
(* and the gateway answers with a web page.  And the parser, against what  *)
(* it means.                                                               *)
(***************************************************************************)
EXTENDS SourceWatch

CONSTANTS home, cabin

Nets == {home, cabin}

List(name) == <<Header, Extinf(name), Address("rtsp " \o name)>>

Html == <<Address("<html>")>>

Boxes == home :> List("ard") @@ cabin :> List("orf")

Others == home :> List("hbo") @@ cabin :> Html

Served == {<<Header, Address("yle")>>, Html, <<Header>>}

-----------------------------------------------------------------------------
(* All pages of up to four lines.                                          *)
Lines == {Blank, Header, Directive, Extinf("a"), Extinf("b"), Address("u"), Address("v")}

Samples == UNION {[1..n -> Lines] : n \in 0..4}

(* The parser reads what a page means.                                     *)
ASSUME ParserMeans == \A p \in Samples : ParseM3U(p) = Means(p)

(* A page cut short after a line gives the first of its channels.          *)
ASSUME PrefixParses ==
    \A p \in Samples : \A n \in DOMAIN p : IsPrefix(ParseM3U(SubSeq(p, 1, n)), ParseM3U(p))
=============================================================================
