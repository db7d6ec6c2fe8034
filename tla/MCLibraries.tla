---------------------------- MODULE MCLibraries ----------------------------
EXTENDS Libraries

Byte == {0, 7, 100, 255}
MCAddresses == {<<a, b, c, d>> : a, b, c, d \in Byte}
MCTexts == {<<"1", ".", "2", ".", "3">>, <<"1", ".", "2", ".", "3", ".", "4", "4">>,
            <<"1", ".", "2", ".", "3", ".", "4", ".", "5">>, <<"1", ".", "2", ".", ".", "4">>,
            <<"1", ".", "x", ".", "3", ".", "4">>, <<"9", "9", "9">>, << >>,
            <<"1", ".", "3", "0", "0", ".", "3", ".", "4">>}

MCFormats == UNION {[1..n -> {"a", "%", "d", "x", "s", "c", "l"}] : n \in 0..4}
MCArguments == {[d |-> -12, s |-> <<"b", "c">>, c |-> "e"], [d |-> 0, s |-> << >>, c |-> "\n"],
                [d |-> 45, s |-> <<"b">>, c |-> "%"]}
=============================================================================
