------------------------------ MODULE SeqDecode ------------------------------
(***************************************************************************)
(* What the parallel decoder promises: the result of decoding the segments *)
(* one after another on one thread, stopping at the first that fails.  The *)
(* sequential decoder is the reference of the tests of decoding/mt.rs.     *)
(*                                                                         *)
(* The one liberty a parallel decode has: a segment it stages ahead of the *)
(* executed ones may panic first.                                          *)
(***************************************************************************)
EXTENDS Integers

CONSTANTS N, Window

VARIABLES
    staging,    \* staging[s]: what decoding segment s does
    exec,       \* exec[s]: what executing segment s does
    sizeOk,     \* every frame's length equals its Frame_Content_Size
    pos,        \* segments executed, in order
    res         \* [kind, at] once the call has returned

seqVars == <<staging, exec, sizeOk, pos, res>>

Pending == [kind |-> "none", at |-> 0]

SeqInit == pos = 0 /\ res = Pending

(* The next segment decodes and executes.                                  *)
Execute ==
    /\ res = Pending
    /\ pos < N
    /\ staging[pos] = "ok"
    /\ exec[pos] = "ok"
    /\ pos' = pos + 1
    /\ UNCHANGED <<staging, exec, sizeOk, res>>

(* Everything executed: the lengths are verified last.                     *)
Complete ==
    /\ res = Pending
    /\ pos = N
    /\ res' = [kind |-> IF sizeOk THEN "ok" ELSE "size", at |-> N]
    /\ UNCHANGED <<staging, exec, sizeOk, pos>>

(* The first failing segment decides the error.                            *)
Fail ==
    /\ res = Pending
    /\ pos < N
    /\ \/ staging[pos] = "err" /\ res' = [kind |-> "stage", at |-> pos]
       \/ staging[pos] = "ok" /\ exec[pos] = "err" /\ res' = [kind |-> "exec", at |-> pos]
    /\ UNCHANGED <<staging, exec, sizeOk, pos>>

(* A panic reaches the caller only from the segment being executed or from *)
(* one that staging may have reached.                                      *)
Unwind ==
    /\ res = Pending
    /\ \/ pos < N /\ exec[pos] = "panic"
       \/ \E s \in 0 .. N - 1 : s <= pos + Window /\ staging[s] = "panic"
    /\ res' = [kind |-> "panic", at |-> pos]
    /\ UNCHANGED <<staging, exec, sizeOk, pos>>

SeqNext == Execute \/ Complete \/ Fail \/ Unwind

SeqSpec == SeqInit /\ [][SeqNext]_seqVars

=============================================================================
