-------------------------------- MODULE MCClock --------------------------------
(* Instances of Clock for TLC. *)
EXTENDS Clock

\* Clients are named for the way they connect.
Listens == [c \in Client |->
    [unix |-> c = "unix", addresses |-> 1,
     scheme |-> IF c = "datagram" THEN "cdu" ELSE "cd",
     net |-> "loopback"]]

\* The client over UDP has no handler for CLOCK_UNSTABLE.
SomeCommands == [c \in Client |-> IF c = "datagram" THEN {"CLOCK_STABLE"} ELSE Clock]

=============================================================================
