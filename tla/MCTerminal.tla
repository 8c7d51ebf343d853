----------------------------- MODULE MCTerminal -----------------------------
(* Instances of Terminal for TLC.                                          *)
EXTENDS Terminal

MCKeys     == {"c", "h", "newline", "return"}
MCPrompt   == <<">">>
MCHelpText == <<"1", "newline", "2">>
MCClearCmd == <<"c">>
MCHelpCmd  == <<"h">>
MCQuote    == <<"q">>
MCResidue  == {<<>>, <<"r">>}

=============================================================================
