----------------------------- MODULE MCNavigate -----------------------------
(***************************************************************************)
(* Navigate for TLC: a tree in which some names exist above, at and below  *)
(* the directory the session starts in.                                    *)
(***************************************************************************)
EXTENDS Navigate

MCStart == <<"s">>
MCTree == {<<>>, <<"s">>, <<"t">>, <<"s", "t">>, <<"s", "t", "s">>, <<"s", "s">>}
MCPlain == {<<"..">>, <<"s">>, <<"t">>}
MCNames == MCPlain \cup
    {<<"t", "s">>, <<"t", "">>, <<"..", "">>, <<".", "..">>, <<"t", "..">>, <<".">>}
MCUsers == {MCPlain, MCNames}
=============================================================================
