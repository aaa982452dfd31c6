---------------------------- MODULE MCComputerHost ----------------------------
(* ComputerHost on small instances. *)
EXTENDS ComputerHost

CONSTANTS a1, a2, o1, o2

Ask(k, a, o) == [kind |-> k, actor |-> a, op |-> o]

\* Three calls to one computer: who sends an operation twice, who stops, starts
\* or asks meanwhile.
OneComputer == {
    <<Ask("command", a1, o1), Ask("command", a1, o1), Ask("stop", a1, NoOp)>>,
    <<Ask("command", a1, o1), Ask("stop", a1, NoOp), Ask("start", a1, NoOp)>>,
    <<Ask("command", a1, o1), Ask("background", a1, o1), Ask("read", a1, o1)>>,
    <<Ask("command", a1, o1), Ask("file", a1, NoOp), Ask("read", a1, o1)>>,
    <<Ask("background", a1, o1), Ask("reap", a1, NoOp), Ask("start", a1, NoOp)>>,
    <<Ask("file", a1, NoOp), Ask("start", a1, NoOp), Ask("drain", a1, NoOp)>>}

\* Where the code and what is said of it part ways: see the README.
Doubtful == {
    <<Ask("command", a1, o1), Ask("background", a1, o1), Ask("read", a1, o1)>>,
    <<Ask("command", a1, o1), Ask("command", a1, o2), Ask("read", a1, o1)>>,
    <<Ask("command", a1, o1), Ask("stop", a1, NoOp), Ask("file", a1, NoOp)>>,
    <<Ask("start", a1, NoOp), Ask("start", a2, NoOp), Ask("read", a1, o1)>>}
=============================================================================
