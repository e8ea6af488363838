---------------------------- MODULE MCHttpParser -----------------------------
(***************************************************************************)
(* Bounds for model-checking HttpParser.  Two fields can repeat a name;    *)
(* each name and the longer value have two pieces, so that every text can  *)
(* be cut, and the short name is a prefix of "Location".                   *)
(***************************************************************************)
EXTENDS HttpParser

MCPieces   == {"Loca", "tion", "u", "v"}
MCLocation == <<"Loca", "tion">>
MCNames    == {MCLocation, <<"Loca">>}
MCValues   == {<<>>, <<"u">>, <<"u", "v">>}
MCCodes    == {200, 302, 404}
===============================================================================
