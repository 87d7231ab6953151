------------------------------- MODULE MCSession -------------------------------
EXTENDS FrameSession

(* Whole frames, with a checksum, that something follows.                   *)
TrailedFrames == {[body |-> <<1>>, outs |-> <<2>>, bad |-> 0, sum |-> "right", size |-> "right",
                   trail |-> t, have |-> 11, dict |-> FALSE] : t \in {"magic", "zeros"}}
=============================================================================
