-------------------------- MODULE MCRequestBuilding --------------------------
EXTENDS RequestBuilding, TLC

\* The names the code looks for in either case, names that begin or end with them, another one,
\* and names that are not valid.
MCNames ==
    {<<"cl">>, <<"CL">>, <<"cl", "x">>, <<"x", "cl">>, <<"host">>, <<"HOST">>, <<"x">>,
     <<>>, <<"x", "sp">>, <<"x", ":">>}

\* Values that look like headers, and values that would end the line.
MCValues ==
    {<<>>, <<"x">>, <<"sp", "x", "tab">>, <<"cl", ":", "sp", "1">>, <<"1">>,
     <<"x", "cr">>, <<"lf">>, <<"x", "cr", "lf", "cl", ":", "1">>}

MCHostValues == {<<"x">>, <<"sp", "x", "tab">>, <<"1">>}
=============================================================================
