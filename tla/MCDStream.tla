------------------------------- MODULE MCDStream -------------------------------
EXTENDS DStream

(* A checksummed frame whose last block is empty.                           *)
EmptyLastWorlds ==
    {[feed |-> <<[kind |-> "frame", head |-> 3, summed |-> TRUE, sized |-> FALSE, content |-> 0,
                  blocks |-> <<[wire |-> "cmp", c |-> 2, out |-> 2],
                               [wire |-> "raw", c |-> 0, out |-> 0]>>]>>,
      calls |-> {}]}
=============================================================================
