--------------------------- MODULE MCWorkspaceFiles ---------------------------
(* WorkspaceFiles with a directory, a file in it, a file beside it and an   *)
(* ignored directory; lines valid, blank, invalid and with a mark.          *)
EXTENDS WorkspaceFiles

MCNames == {"src", "f", "g", "build", ".env"}
MCTexts == {"", "replaced", "a", "b", "bad"}
MCPaths == {<<>>, <<"src">>, <<"src", "f">>, <<"g">>, <<"build">>, <<"build", "f">>,
            <<".env">>}
MCHidden == {<<".env">>}
MCText(text) == CASE text = "bad" -> "invalid" [] text = "zero" -> "nul" [] OTHER -> "valid"
Marked(text) == [bom |-> TRUE, text |-> text]
Long == <<Plain("a"), Blank, Plain("b")>>
MCContents == {Long}
MCFiles == {Long, <<Plain("bad")>>, <<Marked("a")>>}
MCTrees ==
    {[p \in MCPaths |->
        CASE p \in {<<>>, <<"src">>} -> Dir
          [] p = <<"src", "f">> -> File(Long)
          [] p = <<"g">> -> g
          [] OTHER -> Absent] :
     g \in {Absent} \cup {File(lines) : lines \in MCFiles}}
Line(sign, text) == [sign |-> sign, text |-> text]
MCPatches == {<<Line("-", "a"), Line("+", "b")>>, <<Line("@", ""), Line("other", "a"), Line("-", "b")>>}

=============================================================================
