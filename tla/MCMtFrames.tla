----------------------------- MODULE MCMtFrames -----------------------------
(* MtFrames with the inputs of two runs that go wrong: at most two things  *)
(* are wrong with the input (segments that fail or panic, checksums that   *)
(* mismatch, lengths that differ from the pledges).                        *)
EXTENDS MtFrames, ParallelInputs

MCInit == Init /\ WrongThings(staging, exec, csumOk, pledgeOk) <= MaxWrong
MCSpec == MCInit /\ [][Next]_vars /\ Fairness
=============================================================================
