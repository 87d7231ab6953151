----------------------------- MODULE MCStreamMt -----------------------------
(* The instance of StreamMt that TLC checks.                               *)
EXTENDS StreamMt

CONSTANTS w1, w2

ThreeModes == {"write", "read", "owned"}
WritePath == {"write"}
OpenOrPledged == {NoPledge, 3}
Open == {NoPledge}
=============================================================================
