---- MODULE MCUEventParser ----
(* TLC instance of UEventParser: sensors with the matches "a=b", "a" and "",
   and "a" for true. *)
EXTENDS UEventParser
MCInfos == {[match |-> <<"a", "eq", "b">>, keys |-> {<<"b">>}],
            [match |-> <<"a">>, keys |-> {<<"b">>}],
            [match |-> <<>>, keys |-> {<<"a">>, <<"b">>}]}
MCTrue == <<"a">>
====
