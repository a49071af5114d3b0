---------------------------- MODULE MCSerialLink ----------------------------
(***************************************************************************)
(* Instances of SerialLink for TLC.                                        *)
(***************************************************************************)
EXTENDS SerialLink

\* The sensor, and echoes of one word, of two, of nothing, and after a tab.
FiveCommands ==
    {ReadTemperature, <<"echo", " ", "a">>, <<"echo", " ", "a", " ", "b">>, <<"echo", " ">>,
     <<"echo", "\t", "a">>}
=============================================================================
