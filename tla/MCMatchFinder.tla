---------------------------- MODULE MCMatchFinder ----------------------------
EXTENDS MatchFinder

MatchHistories == {<<2, 3, 5>>}
StartHistory == <<1, 4, 8>>

(* A job that repeats its strip.                                            *)
Strip == <<0, 1, 2, 0, 1, 2, 0, 1, 1, 0, 1, 2, 0>>
RawJobs ==
    {[kind |-> "job", start |-> 13, overlap |-> 10, bytes |-> Strip \o Strip \o <<0, 1, 2, 0, 1>>]}

(* A job whose strip repeats at distance 6 up to its tail, and whose third *)
(* match leaves a repeated offset one byte ahead.                          *)
SeedJobs ==
    {[kind |-> "job", start |-> 19, overlap |-> 19,
      bytes |-> <<6, 7, 8, 9, 5, 6>> \o <<10, 11, 12, 13, 14, 15>> \o <<10, 11, 12, 13, 14, 15, 10>>
                 \o <<12, 13, 14, 10, 11, 12, 20, 5, 6, 7, 8>> \o <<20, 5, 6, 10, 3>>]}
=============================================================================
