--------------------------- MODULE MCLocalServices ---------------------------
(* Instances of LocalServices for TLC. *)
EXTENDS LocalMailbox

CONSTANTS c1, c2, installed, visitor, far, none

TwoConns    == {c1, c2}
TheServices == {installed, visitor}
TheList     == {installed}
TheServers  == {far}

Plain(s, server) == [to |-> s, server |-> server, no |-> FALSE, reply |-> FALSE,
                     ttl |-> 1, report |-> FALSE]

\* To the installed service (cached when it is down: its ttl is out of range, so
\* that it gets the default one) and to one the daemon knows nothing of, here and
\* elsewhere, with each option that bears on what the sender is told.
TheInputs ==
    { [Plain(installed, "any") EXCEPT !.ttl = 9, !.report = TRUE],
      [Plain(installed, "me")  EXCEPT !.no = TRUE, !.reply = TRUE, !.report = TRUE],
      [Plain(visitor, "me")    EXCEPT !.report = TRUE],
      [Plain(visitor, "any")   EXCEPT !.report = TRUE],
      [Plain(visitor, far)     EXCEPT !.report = TRUE] }

=============================================================================
