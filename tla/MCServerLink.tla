--------------------------- MODULE MCServerLink ---------------------------
(* Values for the constants of ServerLink in the .cfg files beside it.     *)
EXTENDS ServerLink

CONSTANTS h1, h2, h3, h4, h5

\* One thread at a time needs a socket and the one before it; two threads in reconnect
\* leak up to three.
AllHandles == {h1, h2, h3, h4, h5}

\* The checker alone, failing starts and three breaks, in a build that reads the flag anew.
CheckerOnly == [handles |-> {h1, h2}, hoisted |-> FALSE, startFails |-> TRUE,
                choices |-> {"send"}, menu |-> 3, breaks |-> 3]

\* The user may choose 5 once, in a build that may not read the flag anew.
MenuToo == [handles |-> AllHandles, hoisted |-> TRUE, startFails |-> FALSE,
            choices |-> {"send", "reconnect"}, menu |-> 1, breaks |-> 1]

BothScenarios == {CheckerOnly, MenuToo}

\* For the two runs in which the code does not do what its comments say.
OneBreak == {[CheckerOnly EXCEPT !.startFails = FALSE, !.menu = 1, !.breaks = 1]}
ReconnectOnce == {[MenuToo EXCEPT !.handles = {h1, h2, h3}, !.hoisted = FALSE]}
=============================================================================
