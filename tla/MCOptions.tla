----------------------------- MODULE MCOptions -----------------------------
EXTENDS Options

\* The port numbers on each side of the limits and a numeral too large;
\* "--help" is also the word that is no numeral.
MCWords == {"--help", "7", "1023", "1024", "65536"}
MCValueOf == [w \in MCWords \cup Names |->
                CASE w = "7" -> 7
                  [] w = "1023" -> 1023
                  [] w = "1024" -> 1024
                  [] w = "65536" -> OutOfRange
                  [] OTHER -> NotANumber]
=============================================================================
