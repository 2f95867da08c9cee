--------------------------- MODULE MCFileService ----------------------------
(***************************************************************************)
(* Every directory name of up to three characters, with pages in three of  *)
(* them; the pages hold line ends and an empty line, like headers do.      *)
(***************************************************************************)
EXTENDS FileService, TLC

MCBasedirs == UNION {[1 .. n -> {"/", "s"}] : n \in 0 .. 3}

Text == Piece("text", 0)

MCFiles ==
  [name \in {<<"s", "/", "c">>, <<"s", "/", "i">>} |-> <<Text>>]
    @@ [name \in {<<"s", "/", "a">> \o Css, <<"/", "s", "/", "a">> \o Js,
                  <<"s", "s", "/", "a">> \o Css \o Js} |-> <<CRLF, Text, CRLF, CRLF, Text>>]

MCPaths ==
  {<<"/">>, <<"/", "c">>, <<"/", "a">> \o Css, <<"/", "a">> \o Js, <<"/", "a">> \o Css \o Js}
=============================================================================
