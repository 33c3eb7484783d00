------------------------------- MODULE MCSash -------------------------------
(* Lines of one to three commands. *)
EXTENDS Sash

CONSTANTS q1, q2
TwoPipes == {q1, q2}
SomeLines ==
    {<<"\n">>,
     <<"emit", "\n">>,
     <<"emit", "|", "filter", "\n">>,
     <<"emit", " ", "|", " ", "head", "\n">>,
     <<"filter", "|", "emit", "\n">>,
     <<" ", "emit", " ", "|", "|", "filter", "|", "filter", " ", "\n">>}
BadLines == {<<"bad", " ", "|", " ", "filter", "\n">>}
============================================================================
