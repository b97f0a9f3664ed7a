---------------------------- MODULE MCToolLayer ----------------------------
(* An instance of ToolLayer for TLC. *)
EXTENDS ToolLayer

\* An odd and an even number of 20ft containers, 40ft ones early and late.
MCYards == {<<"40ft", "20ft", "20ft">>, <<"20ft", "20ft", "20ft", "40ft">>}

\* One that fits the feeder, and one that does not.
MCAsked == {[road |-> 1, sea |-> 1], [road |-> 1, sea |-> 2]}

MCReports ==
    {[whom |-> "own", berth |-> "delayed"],
     [whom |-> "other", berth |-> "conflict"], [whom |-> "all", berth |-> "conflict"]}
=============================================================================
