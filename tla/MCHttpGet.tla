----------------------------- MODULE MCHttpGet ------------------------------
(* One request for TLC: a header that fits the buffer with some of the     *)
(* body, and a longer one.                                                 *)
EXTENDS HttpGet

Header == <<"S", "r", "n", "h", "r", "n">>
TwoAnswers == { Header \o <<"r", "n", "b", "c">>,
                Header \o <<"h", "h", "r", "n", "r", "n", "b", "c">> }
=============================================================================
