------------------------------ MODULE MCShell ------------------------------
EXTENDS Shell

\* The last second of a year, of a morning in February and of an hour.
MCStarts == {<<59, 59, 23, 31, 12, 2099>>, <<59, 59, 11, 28, 2, 2024>>,
             <<59, 9, 9, 30, 6, 2030>>}

\* Two letters are enough for names that begin alike.
MCLetters == {"a", "b"}
MCNames == [debug |-> <<"a">>, time |-> <<"a", "b">>, version |-> <<"b">>,
            shutdown |-> <<"b", "a">>]
MCArguments == {<<"a", "b">>}
=============================================================================
