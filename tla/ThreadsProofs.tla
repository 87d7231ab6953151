---------------------------- MODULE ThreadsProofs ----------------------------
(***************************************************************************)
(* Proofs about MCThreads: the decoder pool, for every number of slots and *)
(* decodes and every pool depth; the checksum sidecar, for every set of     *)
(* frames, every ring size and every number of blocks; the bulk encoder and *)
(* the piece executor, whose proofs (BulkMtProofs, PiecesProofs) are carried *)
(* over to the specification of the runs.                                   *)
(***************************************************************************)
EXTENDS MCThreads, FiniteSetTheorems, SequenceTheorems, TLAPS

-----------------------------------------------------------------------------
(* The decoder pool.                                                       *)

(* Decode c has slot s in hand: about to lease it, or about to retire it.  *)
InHand(c, s) == Assignable(c, s) \/ (cpc[c] = "abandon" /\ s \in todo[c])

(* A pooled slot is parked, its thread is alive and no decode has it.      *)
PoolInv ==
    \A s \in pool :
        /\ mode[s] = "parked"
        /\ tpc[s] \in {"wait", "idle"}
        /\ \A c \in Call : ~InHand(c, s)

(* So is a slot in hand, and one decode has it.                            *)
HandInv ==
    \A c \in Call, s \in Slot : InHand(c, s) =>
        /\ mode[s] = "parked"
        /\ tpc[s] \in {"wait", "idle"}
        /\ \A d \in Call : InHand(d, s) => d = c

(* What the place of a thread says of its slot's state.                    *)
ThreadInv ==
    \A s \in Slot :
        /\ tpc[s] = "none" => mode[s] = "retiring"
        /\ tpc[s] \in {"withdrawn", "repark", "full"} => mode[s] = "parked"
        /\ tpc[s] = "left" => mode[s] \in {"parked", "retiring"}
        /\ tpc[s] \in {"serve", "unwind"} => mode[s] = "serving" /\ job[s] = lease[s]

(* A lease is held by a decode that has not returned and, once it waits,   *)
(* still has the slot to wait for.                                         *)
LeaseInv ==
    \A s \in Slot : mode[s] = "serving" =>
        /\ lease[s] \in Call
        /\ s \in held[lease[s]]
        /\ cpc[lease[s]] \in {"assign", "work", "wait"}
        /\ cpc[lease[s]] = "assign" => s \notin todo[lease[s]]
        /\ cpc[lease[s]] = "wait" => s \in todo[lease[s]]
        /\ tpc[s] \in {"wait", "idle", "serve", "unwind"}

(* A caller sleeps on a slot that serves it or is about to wake it.        *)
SleepInv ==
    \A c \in Call, s \in Slot : c \in sleepers[s] =>
        /\ cpc[c] = "wait"
        /\ s \in todo[c]
        /\ ServesMe(s, c) \/ tpc[s] = "left"

CallInv ==
    \A c \in Call :
        /\ cpc[c] \in {"assign", "abandon", "wait"} => todo[c] \subseteq held[c]
        /\ cpc[c] = "idle" => held[c] = {}

IInv ==
    /\ TypeOK
    /\ PoolInv
    /\ HandInv
    /\ ThreadInv
    /\ LeaseInv
    /\ SleepInv
    /\ CallInv
    /\ NoOrphan

-----------------------------------------------------------------------------
(* The initial states satisfy the inductive invariant.                     *)
LEMMA InitInv == Init => IInv
  <1> SUFFICES ASSUME Init PROVE IInv
    OBVIOUS
  <1>1. TypeOK
    BY FS_EmptySet, DecPoolAssumption DEF Init, TypeOK
  <1>2. PoolInv /\ HandInv /\ ThreadInv /\ LeaseInv /\ SleepInv /\ CallInv /\ NoOrphan
    BY DEF Init, PoolInv, HandInv, ThreadInv, LeaseInv, SleepInv, CallInv, NoOrphan,
           InHand, Assignable
  <1> QED
    BY <1>1, <1>2 DEF IInv

(* Withdrawing a slot keeps the pool within its depth.                     *)
LEMMA PoolShrinks ==
    ASSUME TypeOK, NEW s \in Slot
    PROVE  pool \ {s} \subseteq Slot /\ Cardinality(pool \ {s}) <= Depth
  <1>1. IsFiniteSet(pool) /\ IsFiniteSet(pool \ {s})
    BY DecPoolAssumption, FS_Subset DEF TypeOK
  <1>2. Cardinality(pool \ {s}) <= Cardinality(pool)
    BY <1>1, FS_Subset
  <1>3. Cardinality(pool \ {s}) \in Nat /\ Cardinality(pool) \in Nat
    BY <1>1, FS_CardinalityType
  <1> QED
    BY <1>2, <1>3, DecPoolAssumption DEF TypeOK

(* So does parking a slot while there is room.                             *)
LEMMA PoolGrows ==
    ASSUME TypeOK, NEW s \in Slot, Cardinality(pool) < Depth
    PROVE  pool \union {s} \subseteq Slot /\ Cardinality(pool \union {s}) <= Depth
  <1>1. IsFiniteSet(pool)
    BY DecPoolAssumption, FS_Subset DEF TypeOK
  <1>2. Cardinality(pool) \in Nat
    BY <1>1, FS_CardinalityType
  <1>3. \/ Cardinality(pool \union {s}) = Cardinality(pool)
        \/ Cardinality(pool \union {s}) = Cardinality(pool) + 1
    BY <1>1, FS_AddElement
  <1> QED
    BY <1>2, <1>3, DecPoolAssumption DEF TypeOK

(* Types are preserved by every step.                                      *)
LEMMA TypeStep == TypeOK /\ [Next]_vars => TypeOK'
  <1> SUFFICES ASSUME TypeOK, [Next]_vars PROVE TypeOK'
    OBVIOUS
  <1> USE DEF TypeOK
  <1>1. ASSUME NEW c \in Call, CallStep(c) PROVE TypeOK'
    <2> USE DEF CallGoto, callVars, threadVars
    <2>1. CASE Begin(c)
      BY <2>1 DEF Begin
    <2>2. CASE TakeParked(c)
      BY <2>2, PoolShrinks DEF TakeParked
    <2>3. CASE NoneParked(c)
      BY <2>3 DEF NoneParked
    <2>4. CASE Spawn(c)
      BY <2>4 DEF Spawn, ThreadGoto
    <2>5. CASE SpawnFails(c)
      BY <2>5 DEF SpawnFails
    <2>6. CASE Abandon(c)
      BY <2>6 DEF Abandon
    <2>7. CASE Abandoned(c)
      BY <2>7 DEF Abandoned
    <2>8. CASE Secured(c)
      BY <2>8 DEF Secured
    <2>9. CASE Assign(c)
      BY <2>9 DEF Assign
    <2>10. CASE Assigned(c)
      BY <2>10 DEF Assigned
    <2>11. CASE Finish(c)
      BY <2>11 DEF Finish
    <2>12. CASE WaitLeaveSleep(c)
      BY <2>12 DEF WaitLeaveSleep
    <2>13. CASE WaitLeaveTimeout(c)
      BY <2>13 DEF WaitLeaveTimeout
    <2>14. CASE WaitLeave(c)
      BY <2>14 DEF WaitLeave
    <2>15. CASE Return(c)
      BY <2>15 DEF Return
    <2> QED
      BY <1>1, <2>1, <2>2, <2>3, <2>4, <2>5, <2>6, <2>7, <2>8, <2>9, <2>10, <2>11, <2>12, <2>13, <2>14, <2>15 DEF CallStep
  <1>2. ASSUME NEW s \in Slot, ThreadStep(s) PROVE TypeOK'
    <2> USE DEF ThreadGoto, callVars, threadVars, Leave
    <2>1. CASE TakeLease(s)
      BY <2>1 DEF TakeLease
    <2>2. CASE SeeRetired(s)
      BY <2>2 DEF SeeRetired
    <2>3. CASE IdleTimeout(s)
      BY <2>3 DEF IdleTimeout
    <2>4. CASE Unpark(s)
      BY <2>4, PoolShrinks DEF Unpark
    <2>5. CASE RetireIdle(s)
      BY <2>5 DEF RetireIdle
    <2>6. CASE LeaveParked(s)
      BY <2>6 DEF LeaveParked
    <2>7. CASE LeaveRetiring(s)
      BY <2>7 DEF LeaveRetiring
    <2>8. CASE LeaveNotify(s)
      BY <2>8 DEF LeaveNotify
    <2>9. CASE Repark(s)
      BY <2>9, PoolGrows DEF Repark
    <2>10. CASE RetireFull(s)
      BY <2>10 DEF RetireFull
    <2>11. CASE MachineryPanics(s)
      BY <2>11, PoolShrinks DEF MachineryPanics
    <2>12. CASE Unwound(s)
      BY <2>12 DEF Unwound
    <2> QED
      BY <1>2, <2>1, <2>2, <2>3, <2>4, <2>5, <2>6, <2>7, <2>8, <2>9, <2>10, <2>11, <2>12 DEF ThreadStep
  <1>3. CASE UNCHANGED vars
    BY <1>3 DEF vars, threadVars, callVars
  <1> QED
    BY <1>1, <1>2, <1>3 DEF Next

-----------------------------------------------------------------------------
(* The inductive invariant is preserved by a step of a decode.             *)
LEMMA CallInductive ==
    ASSUME IInv, TypeOK', NEW c \in Call, CallStep(c)
    PROVE  IInv'
  <1> USE DEF IInv, TypeOK, InHand, Assignable, ServesMe, CallGoto, callVars, threadVars
  <1>1. CASE Begin(c)
    <2> USE <1>1 DEF Begin
    <2>1. PoolInv'
      BY DEF PoolInv, CallInv
    <2>2. HandInv'
      BY DEF HandInv, CallInv
    <2>3. ThreadInv'
      BY DEF ThreadInv
    <2>4. LeaseInv'
      BY DEF LeaseInv
    <2>5. SleepInv'
      BY DEF SleepInv
    <2>6. CallInv'
      BY DEF CallInv
    <2>7. NoOrphan'
      BY DEF NoOrphan
    <2> QED
      BY <2>1, <2>2, <2>3, <2>4, <2>5, <2>6, <2>7
  <1>2. CASE TakeParked(c)
    <2> USE <1>2 DEF TakeParked
    <2>1. PoolInv'
      BY DEF PoolInv
    <2>2. HandInv'
      BY DEF HandInv, PoolInv
    <2>3. ThreadInv'
      BY DEF ThreadInv
    <2>4. LeaseInv'
      BY DEF LeaseInv
    <2>5. SleepInv'
      BY DEF SleepInv
    <2>6. CallInv'
      BY DEF CallInv
    <2>7. NoOrphan'
      BY DEF NoOrphan
    <2> QED
      BY <2>1, <2>2, <2>3, <2>4, <2>5, <2>6, <2>7
  <1>3. CASE NoneParked(c)
    <2> USE <1>3 DEF NoneParked
    <2>1. PoolInv'
      BY DEF PoolInv
    <2>2. HandInv'
      BY DEF HandInv
    <2>3. ThreadInv'
      BY DEF ThreadInv
    <2>4. LeaseInv'
      BY DEF LeaseInv
    <2>5. SleepInv'
      BY DEF SleepInv
    <2>6. CallInv'
      BY DEF CallInv
    <2>7. NoOrphan'
      BY DEF NoOrphan
    <2> QED
      BY <2>1, <2>2, <2>3, <2>4, <2>5, <2>6, <2>7
  <1>4. CASE Spawn(c)
    <2> PICK s \in Slot :
               /\ Fresh(s)
               /\ mode' = [mode EXCEPT ![s] = "parked"]
               /\ tpc' = [tpc EXCEPT ![s] = "wait"]
               /\ held' = [held EXCEPT ![c] = held[c] \union {s}]
      BY <1>4 DEF Spawn, ThreadGoto
    <2> USE <1>4 DEF Spawn, Fresh
    <2>1. PoolInv'
      BY DEF PoolInv
    <2>2. HandInv'
      BY DEF HandInv
    <2>3. ThreadInv'
      BY DEF ThreadInv
    <2>4. LeaseInv'
      BY DEF LeaseInv
    <2>5. SleepInv'
      BY DEF SleepInv, ThreadInv
    <2>6. CallInv'
      BY DEF CallInv
    <2>7. NoOrphan'
      BY DEF NoOrphan
    <2> QED
      BY <2>1, <2>2, <2>3, <2>4, <2>5, <2>6, <2>7
  <1>5. CASE SpawnFails(c)
    <2> USE <1>5 DEF SpawnFails
    <2>1. PoolInv'
      BY DEF PoolInv
    <2>2. HandInv'
      BY DEF HandInv
    <2>3. ThreadInv'
      BY DEF ThreadInv
    <2>4. LeaseInv'
      BY DEF LeaseInv
    <2>5. SleepInv'
      BY DEF SleepInv
    <2>6. CallInv'
      BY DEF CallInv
    <2>7. NoOrphan'
      BY DEF NoOrphan
    <2> QED
      BY <2>1, <2>2, <2>3, <2>4, <2>5, <2>6, <2>7
  <1>6. CASE Abandon(c)
    <2> USE <1>6 DEF Abandon
    <2>1. PoolInv'
      BY DEF PoolInv
    <2>2. HandInv'
      BY DEF HandInv
    <2>3. ThreadInv'
      BY DEF ThreadInv, HandInv
    <2>4. LeaseInv'
      BY DEF LeaseInv
    <2>5. SleepInv'
      BY DEF SleepInv
    <2>6. CallInv'
      BY DEF CallInv
    <2>7. NoOrphan'
      BY DEF NoOrphan
    <2> QED
      BY <2>1, <2>2, <2>3, <2>4, <2>5, <2>6, <2>7
  <1>7. CASE Abandoned(c)
    <2> USE <1>7 DEF Abandoned
    <2>1. PoolInv'
      BY DEF PoolInv
    <2>2. HandInv'
      BY DEF HandInv
    <2>3. ThreadInv'
      BY DEF ThreadInv
    <2>4. LeaseInv'
      BY DEF LeaseInv
    <2>5. SleepInv'
      BY DEF SleepInv
    <2>6. CallInv'
      BY DEF CallInv
    <2>7. NoOrphan'
      BY DEF NoOrphan
    <2> QED
      BY <2>1, <2>2, <2>3, <2>4, <2>5, <2>6, <2>7
  <1>8. CASE Secured(c)
    <2> USE <1>8 DEF Secured
    <2>1. PoolInv'
      BY DEF PoolInv
    <2>2. HandInv'
      BY DEF HandInv
    <2>3. ThreadInv'
      BY DEF ThreadInv
    <2>4. LeaseInv'
      BY DEF LeaseInv
    <2>5. SleepInv'
      BY DEF SleepInv
    <2>6. CallInv'
      BY DEF CallInv
    <2>7. NoOrphan'
      BY DEF NoOrphan
    <2> QED
      BY <2>1, <2>2, <2>3, <2>4, <2>5, <2>6, <2>7
  <1>9. CASE Assign(c)
    <2> USE <1>9 DEF Assign
    <2>1. PoolInv'
      BY DEF PoolInv
    <2>2. HandInv'
      BY DEF HandInv
    <2>3. ThreadInv'
      BY DEF ThreadInv, HandInv
    <2>4. LeaseInv'
      BY DEF LeaseInv, HandInv, CallInv
    <2>5. SleepInv'
      BY DEF SleepInv, HandInv
    <2>6. CallInv'
      BY DEF CallInv
    <2>7. NoOrphan'
      BY DEF NoOrphan
    <2> QED
      BY <2>1, <2>2, <2>3, <2>4, <2>5, <2>6, <2>7
  <1>10. CASE Assigned(c)
    <2> USE <1>10 DEF Assigned
    <2>1. PoolInv'
      BY DEF PoolInv
    <2>2. HandInv'
      BY DEF HandInv
    <2>3. ThreadInv'
      BY DEF ThreadInv
    <2>4. LeaseInv'
      BY DEF LeaseInv
    <2>5. SleepInv'
      BY DEF SleepInv
    <2>6. CallInv'
      BY DEF CallInv
    <2>7. NoOrphan'
      BY DEF NoOrphan
    <2> QED
      BY <2>1, <2>2, <2>3, <2>4, <2>5, <2>6, <2>7
  <1>11. CASE Finish(c)
    <2> USE <1>11 DEF Finish
    <2>1. PoolInv'
      BY DEF PoolInv
    <2>2. HandInv'
      BY DEF HandInv
    <2>3. ThreadInv'
      BY DEF ThreadInv
    <2>4. LeaseInv'
      BY DEF LeaseInv
    <2>5. SleepInv'
      BY DEF SleepInv
    <2>6. CallInv'
      BY DEF CallInv
    <2>7. NoOrphan'
      BY DEF NoOrphan
    <2> QED
      BY <2>1, <2>2, <2>3, <2>4, <2>5, <2>6, <2>7
  <1>12. CASE WaitLeaveSleep(c)
    <2> USE <1>12 DEF WaitLeaveSleep
    <2>1. PoolInv'
      BY DEF PoolInv
    <2>2. HandInv'
      BY DEF HandInv
    <2>3. ThreadInv'
      BY DEF ThreadInv
    <2>4. LeaseInv'
      BY DEF LeaseInv
    <2>5. SleepInv'
      BY DEF SleepInv
    <2>6. CallInv'
      BY DEF CallInv
    <2>7. NoOrphan'
      BY DEF NoOrphan
    <2> QED
      BY <2>1, <2>2, <2>3, <2>4, <2>5, <2>6, <2>7
  <1>13. CASE WaitLeaveTimeout(c)
    <2> USE <1>13 DEF WaitLeaveTimeout
    <2>1. PoolInv'
      BY DEF PoolInv
    <2>2. HandInv'
      BY DEF HandInv
    <2>3. ThreadInv'
      BY DEF ThreadInv
    <2>4. LeaseInv'
      BY DEF LeaseInv
    <2>5. SleepInv'
      BY DEF SleepInv
    <2>6. CallInv'
      BY DEF CallInv
    <2>7. NoOrphan'
      BY DEF NoOrphan
    <2> QED
      BY <2>1, <2>2, <2>3, <2>4, <2>5, <2>6, <2>7
  <1>14. CASE WaitLeave(c)
    <2> USE <1>14 DEF WaitLeave
    <2>1. PoolInv'
      BY DEF PoolInv
    <2>2. HandInv'
      BY DEF HandInv
    <2>3. ThreadInv'
      BY DEF ThreadInv
    <2>4. LeaseInv'
      BY DEF LeaseInv
    <2>5. SleepInv'
      BY DEF SleepInv
    <2>6. CallInv'
      BY DEF CallInv
    <2>7. NoOrphan'
      BY DEF NoOrphan
    <2> QED
      BY <2>1, <2>2, <2>3, <2>4, <2>5, <2>6, <2>7
  <1>15. CASE Return(c)
    <2> USE <1>15 DEF Return
    <2>1. PoolInv'
      BY DEF PoolInv
    <2>2. HandInv'
      BY DEF HandInv
    <2>3. ThreadInv'
      BY DEF ThreadInv
    <2>4. LeaseInv'
      BY DEF LeaseInv
    <2>5. SleepInv'
      BY DEF SleepInv
    <2>6. CallInv'
      BY DEF CallInv
    <2>7. NoOrphan'
      BY DEF NoOrphan
    <2> QED
      BY <2>1, <2>2, <2>3, <2>4, <2>5, <2>6, <2>7
  <1> QED
    BY <1>1, <1>2, <1>3, <1>4, <1>5, <1>6, <1>7, <1>8, <1>9, <1>10, <1>11, <1>12, <1>13, <1>14, <1>15 DEF CallStep

(* The inductive invariant is preserved by a step of a thread.             *)
LEMMA ThreadInductive ==
    ASSUME IInv, TypeOK', NEW s \in Slot, ThreadStep(s)
    PROVE  IInv'
  <1> USE DEF IInv, TypeOK, InHand, Assignable, ServesMe, ThreadGoto, callVars, threadVars, Leave
  <1>1. CASE TakeLease(s)
    <2> USE <1>1 DEF TakeLease
    <2>1. PoolInv'
      BY DEF PoolInv
    <2>2. HandInv'
      BY DEF HandInv
    <2>3. ThreadInv'
      BY DEF ThreadInv
    <2>4. LeaseInv'
      BY DEF LeaseInv
    <2>5. SleepInv'
      BY DEF SleepInv
    <2>6. CallInv'
      BY DEF CallInv
    <2>7. NoOrphan'
      BY DEF NoOrphan
    <2> QED
      BY <2>1, <2>2, <2>3, <2>4, <2>5, <2>6, <2>7
  <1>2. CASE SeeRetired(s)
    <2> USE <1>2 DEF SeeRetired
    <2>1. PoolInv'
      BY DEF PoolInv
    <2>2. HandInv'
      BY DEF HandInv
    <2>3. ThreadInv'
      BY DEF ThreadInv
    <2>4. LeaseInv'
      BY DEF LeaseInv
    <2>5. SleepInv'
      BY DEF SleepInv
    <2>6. CallInv'
      BY DEF CallInv
    <2>7. NoOrphan'
      BY DEF NoOrphan
    <2> QED
      BY <2>1, <2>2, <2>3, <2>4, <2>5, <2>6, <2>7
  <1>3. CASE IdleTimeout(s)
    <2> USE <1>3 DEF IdleTimeout
    <2>1. PoolInv'
      BY DEF PoolInv
    <2>2. HandInv'
      BY DEF HandInv
    <2>3. ThreadInv'
      BY DEF ThreadInv
    <2>4. LeaseInv'
      BY DEF LeaseInv
    <2>5. SleepInv'
      BY DEF SleepInv
    <2>6. CallInv'
      BY DEF CallInv
    <2>7. NoOrphan'
      BY DEF NoOrphan
    <2> QED
      BY <2>1, <2>2, <2>3, <2>4, <2>5, <2>6, <2>7
  <1>4. CASE Unpark(s)
    <2> USE <1>4 DEF Unpark
    <2>1. PoolInv'
      BY DEF PoolInv
    <2>2. HandInv'
      BY DEF HandInv, PoolInv
    <2>3. ThreadInv'
      BY DEF ThreadInv, PoolInv
    <2>4. LeaseInv'
      BY DEF LeaseInv, PoolInv
    <2>5. SleepInv'
      BY DEF SleepInv
    <2>6. CallInv'
      BY DEF CallInv
    <2>7. NoOrphan'
      BY DEF NoOrphan
    <2> QED
      BY <2>1, <2>2, <2>3, <2>4, <2>5, <2>6, <2>7
  <1>5. CASE RetireIdle(s)
    <2> USE <1>5 DEF RetireIdle
    <2>1. PoolInv'
      BY DEF PoolInv
    <2>2. HandInv'
      BY DEF HandInv
    <2>3. ThreadInv'
      BY DEF ThreadInv
    <2>4. LeaseInv'
      BY DEF LeaseInv
    <2>5. SleepInv'
      BY DEF SleepInv
    <2>6. CallInv'
      BY DEF CallInv
    <2>7. NoOrphan'
      BY DEF NoOrphan
    <2> QED
      BY <2>1, <2>2, <2>3, <2>4, <2>5, <2>6, <2>7
  <1>6. CASE LeaveParked(s)
    <2> USE <1>6 DEF LeaveParked
    <2>1. PoolInv'
      BY DEF PoolInv
    <2>2. HandInv'
      BY DEF HandInv
    <2>3. ThreadInv'
      BY DEF ThreadInv
    <2>4. LeaseInv'
      BY DEF LeaseInv
    <2>5. SleepInv'
      BY DEF SleepInv
    <2>6. CallInv'
      BY DEF CallInv
    <2>7. NoOrphan'
      BY DEF NoOrphan
    <2> QED
      BY <2>1, <2>2, <2>3, <2>4, <2>5, <2>6, <2>7
  <1>7. CASE LeaveRetiring(s)
    <2> USE <1>7 DEF LeaveRetiring
    <2>1. PoolInv'
      BY DEF PoolInv
    <2>2. HandInv'
      BY DEF HandInv
    <2>3. ThreadInv'
      BY DEF ThreadInv
    <2>4. LeaseInv'
      BY DEF LeaseInv
    <2>5. SleepInv'
      BY DEF SleepInv
    <2>6. CallInv'
      BY DEF CallInv
    <2>7. NoOrphan'
      BY DEF NoOrphan
    <2> QED
      BY <2>1, <2>2, <2>3, <2>4, <2>5, <2>6, <2>7
  <1>8. CASE LeaveNotify(s)
    <2> USE <1>8 DEF LeaveNotify
    <2>1. PoolInv'
      BY DEF PoolInv
    <2>2. HandInv'
      BY DEF HandInv
    <2>3. ThreadInv'
      BY DEF ThreadInv
    <2>4. LeaseInv'
      BY DEF LeaseInv
    <2>5. SleepInv'
      BY DEF SleepInv
    <2>6. CallInv'
      BY DEF CallInv
    <2>7. NoOrphan'
      BY DEF NoOrphan
    <2> QED
      BY <2>1, <2>2, <2>3, <2>4, <2>5, <2>6, <2>7
  <1>9. CASE Repark(s)
    <2> USE <1>9 DEF Repark
    <2>1. PoolInv'
      BY DEF PoolInv, ThreadInv, HandInv
    <2>2. HandInv'
      BY DEF HandInv
    <2>3. ThreadInv'
      BY DEF ThreadInv
    <2>4. LeaseInv'
      BY DEF LeaseInv
    <2>5. SleepInv'
      BY DEF SleepInv
    <2>6. CallInv'
      BY DEF CallInv
    <2>7. NoOrphan'
      BY DEF NoOrphan
    <2> QED
      BY <2>1, <2>2, <2>3, <2>4, <2>5, <2>6, <2>7
  <1>10. CASE RetireFull(s)
    <2> USE <1>10 DEF RetireFull
    <2>1. PoolInv'
      BY DEF PoolInv
    <2>2. HandInv'
      BY DEF HandInv
    <2>3. ThreadInv'
      BY DEF ThreadInv
    <2>4. LeaseInv'
      BY DEF LeaseInv
    <2>5. SleepInv'
      BY DEF SleepInv
    <2>6. CallInv'
      BY DEF CallInv
    <2>7. NoOrphan'
      BY DEF NoOrphan
    <2> QED
      BY <2>1, <2>2, <2>3, <2>4, <2>5, <2>6, <2>7
  <1>11. CASE MachineryPanics(s)
    <2> USE <1>11 DEF MachineryPanics
    <2>1. PoolInv'
      BY DEF PoolInv
    <2>2. HandInv'
      BY DEF HandInv
    <2>3. ThreadInv'
      BY DEF ThreadInv
    <2>4. LeaseInv'
      BY DEF LeaseInv
    <2>5. SleepInv'
      BY DEF SleepInv
    <2>6. CallInv'
      BY DEF CallInv
    <2>7. NoOrphan'
      BY DEF NoOrphan
    <2> QED
      BY <2>1, <2>2, <2>3, <2>4, <2>5, <2>6, <2>7
  <1>12. CASE Unwound(s)
    <2> USE <1>12 DEF Unwound
    <2>1. PoolInv'
      BY DEF PoolInv
    <2>2. HandInv'
      BY DEF HandInv
    <2>3. ThreadInv'
      BY DEF ThreadInv
    <2>4. LeaseInv'
      BY DEF LeaseInv
    <2>5. SleepInv'
      BY DEF SleepInv
    <2>6. CallInv'
      BY DEF CallInv
    <2>7. NoOrphan'
      BY DEF NoOrphan
    <2> QED
      BY <2>1, <2>2, <2>3, <2>4, <2>5, <2>6, <2>7
  <1> QED
    BY <1>1, <1>2, <1>3, <1>4, <1>5, <1>6, <1>7, <1>8, <1>9, <1>10, <1>11, <1>12 DEF ThreadStep

(* A step preserves the inductive invariant.                               *)
LEMMA StepInv == IInv /\ [Next]_vars => IInv'
  <1> SUFFICES ASSUME IInv, [Next]_vars PROVE IInv'
    OBVIOUS
  <1>1. TypeOK'
    BY TypeStep DEF IInv
  <1>2. ASSUME NEW c \in Call, CallStep(c) PROVE IInv'
    BY <1>1, <1>2, CallInductive
  <1>3. ASSUME NEW s \in Slot, ThreadStep(s) PROVE IInv'
    BY <1>1, <1>3, ThreadInductive
  <1>4. CASE UNCHANGED vars
    BY <1>4 DEF vars, threadVars, callVars, IInv, TypeOK, PoolInv, HandInv, ThreadInv, LeaseInv,
                SleepInv, CallInv, NoOrphan, InHand, Assignable, ServesMe
  <1> QED
    BY <1>2, <1>3, <1>4 DEF Next

-----------------------------------------------------------------------------
(* The inductive invariant holds in every reachable state.                 *)
THEOREM Invariance == Spec => []IInv
  BY InitInv, StepInv, PTL DEF Spec

(* Every variable keeps its type and the pool never exceeds its depth.     *)
THEOREM TypeCorrect == Spec => []TypeOK
  <1>1. IInv => TypeOK
    BY DEF IInv
  <1> QED
    BY <1>1, Invariance, PTL

(* The debug_assert of assign_lease never fires: whatever timeouts and     *)
(* other decodes do, a lease lands on a parked slot with a live thread.    *)
THEOREM AssignSafe == Spec => []AssignsParked
  <1>1. IInv => AssignsParked
    BY DEF IInv, AssignsParked, PoolInv, HandInv, InHand
  <1> QED
    BY <1>1, Invariance, PTL

(* The one wakeup of assign_lease is not taken by a caller in wait_leave.  *)
THEOREM WakeSafe == Spec => []WakeNotStolen
  <1>1. IInv => WakeNotStolen
    BY DEF IInv, TypeOK, WakeNotStolen, HandInv, InHand, SleepInv, ServesMe
  <1> QED
    BY <1>1, Invariance, PTL

(* wait_leave is a join: no thread runs the job of a decode that returned. *)
THEOREM JoinSafe == Spec => []LeaseOutlived
  <1>1. IInv => LeaseOutlived
    BY DEF IInv, LeaseOutlived, ThreadInv, LeaseInv, ServesMe
  <1> QED
    BY <1>1, Invariance, PTL

(* No parked thread is out of the reach of the pool and of every decode.   *)
THEOREM OrphanFree == Spec => []NoOrphan
  <1>1. IInv => NoOrphan
    BY DEF IInv
  <1> QED
    BY <1>1, Invariance, PTL

-----------------------------------------------------------------------------
(* The checksum sidecar.  A task is known by its place in posted: the ring  *)
(* holds the stretch that the worker has not completed, and the checksum    *)
(* state of a frame is what the tasks before the worker left.               *)

(* The order of a frame's tasks: its reset, its blocks, its finish.        *)
Rank(t) == IF t.kind = "finish" THEN MaxWrites + 1 ELSE t.block

(* The tasks the worker has carried out: it may not have completed the     *)
(* last of them yet.                                                       *)
Done == IF wpc \in {"reply", "advance"} THEN tail + 1 ELSE tail

(* The sum over blocks 1 to n.                                             *)
Blocks(n) == [i \in 1 .. n |-> i]

(* The task being posted is in posted but not yet in the worker's sight.   *)
Length ==
    /\ Len(posted) = IF ppc = "publish" THEN head + 1 ELSE head
    /\ ppc \in {"store", "publish"} => seq = head
    /\ ppc = "notify" => seq = head - 1 /\ head > 0
    /\ ppc = "store" => head < tail + Ring
    /\ ppc = "publish" => head < tail + Ring
    /\ wpc \in {"process", "reply", "advance"} => tail < head

(* A posted task stays in its slot until the worker has completed it.      *)
InRing == \A i \in 1 .. Len(posted) : i > tail => slots[(i - 1) % Ring] = posted[i]

(* What is being posted comes after everything the frame posted before.    *)
Posting ==
    /\ ppc \in {"claim", "store"} =>
        /\ phase[task.frame] = "open"
        /\ \A i \in 1 .. Len(posted) :
            posted[i].frame = task.frame => Rank(posted[i]) < Rank(task)
    /\ ppc \in {"claim", "store", "publish", "notify"} =>
        /\ task.kind = "reset" => task.block = 0
        /\ task.kind = "absorb" => task.block = wrote[task.frame] /\ task.block > 0
    /\ \A f \in Frame : phase[f] = "none" => wrote[f] = 0
    /\ ppc \in {"publish", "notify"} =>
        /\ phase[task.frame] = "open"
        /\ posted # <<>> /\ posted[Len(posted)] = task
    /\ ppc = "reply" =>
        /\ task.kind = "finish"
        /\ phase[task.frame] = "open"
    /\ ppc = "drain" => phase[task.frame] \in {"open", "finished"}

Ordered ==
    /\ \A i \in 1 .. Len(posted) :
        /\ posted[i].kind = "reset" => posted[i].block = 0
        /\ posted[i].kind = "absorb" => posted[i].block \in 1 .. wrote[posted[i].frame]
        /\ phase[posted[i].frame] \in {"open", "finished", "dropped"}
    /\ \A i, j \in 1 .. Len(posted) :
        i < j /\ posted[i].frame = posted[j].frame => Rank(posted[i]) < Rank(posted[j])

(* Nothing a frame wrote is missing from posted, the task on its way       *)
(* excepted.                                                               *)
Complete ==
    \A f \in Frame : phase[f] \in {"open", "finished"} =>
        \A b \in 0 .. wrote[f] :
            \/ ppc \in {"claim", "store"} /\ task.frame = f /\ task.kind # "finish" /\ Rank(task) = b
            \/ \E i \in 1 .. Len(posted) :
                posted[i].frame = f /\ posted[i].kind # "finish" /\ posted[i].block = b

(* A frame's state has absorbed the blocks among the tasks carried out.    *)
Absorbed ==
    \A i \in 1 .. Done : posted[i].kind = "reset" =>
        LET f == posted[i].frame
        IN /\ \E n \in 0 .. wrote[f] :
                /\ states[f] = Blocks(n)
                /\ n > 0 => \E j \in 1 .. Done :
                    posted[j].frame = f /\ posted[j].kind = "absorb" /\ posted[j].block = n
           /\ \A j \in 1 .. Len(posted) : posted[j].frame = f /\ posted[j].kind = "absorb" =>
                (j <= Done <=> posted[j].block <= Len(states[f]))

Finishing ==
    /\ \A i \in 1 .. Len(posted) : posted[i].kind = "finish" =>
        LET f == posted[i].frame
        IN /\ phase[f] = "open" =>
                ppc \in {"publish", "notify", "reply"} /\ task.frame = f /\ task.kind = "finish"
           /\ i <= Done => sum[f] = Blocks(wrote[f])
    /\ \A f \in Frame : cell[f] =>
        \E i \in 1 .. tail + 1 :
            /\ i <= Done /\ posted[i].frame = f /\ posted[i].kind = "finish"
            /\ i = tail + 1 => wpc = "advance"
    /\ \A f \in Frame : phase[f] = "finished" => cell[f]
    /\ wpc = "reply" => posted[tail + 1].kind = "finish"

(* A frame's posted_upto covers its tasks, the one on its way excepted; a  *)
(* frame that has gone away has none left.                                 *)
Upto ==
    /\ \A i \in 1 .. Len(posted) :
        LET f == posted[i].frame
        IN /\ i <= upto[f] \/ (i = Len(posted) /\ ppc \in {"publish", "notify"} /\ task.frame = f)
           /\ phase[f] = "dropped" => i <= tail
    /\ \A f \in Frame : upto[f] <= head

SidecarInv ==
    /\ SidecarTypeOK
    /\ posted \in Seq(Task)
    /\ Length
    /\ InRing
    /\ Posting
    /\ Ordered
    /\ Complete
    /\ Absorbed
    /\ Finishing
    /\ Upto

-----------------------------------------------------------------------------
(* Sequence numbers less than a ring apart lie in different slots.          *)
LEMMA SlotsApart ==
    ASSUME NEW i \in Nat, NEW j \in Nat, i < j, j < i + Ring
    PROVE  i % Ring # j % Ring
  <1>1. Ring \in Nat /\ Ring > 0
    BY AsyncChecksumAssumption
  <1> SUFFICES ASSUME i % Ring = j % Ring PROVE FALSE
    OBVIOUS
  <1> DEFINE a == i \div Ring
             b == j \div Ring
  <1>2. a \in Int /\ b \in Int /\ i = Ring * a + (i % Ring) /\ j = Ring * b + (j % Ring)
    BY <1>1
  <1>3. i % Ring \in Int /\ Ring * a \in Int /\ Ring * b \in Int
    BY <1>1, <1>2
  <1> HIDE DEF a, b
  <1>4. j - i = Ring * b - Ring * a
    BY <1>2, <1>3
  <1>5. Ring * b - Ring * a = Ring * (b - a)
    BY <1>1, <1>2
  <1>6. 0 < Ring * (b - a) /\ Ring * (b - a) < Ring
    BY <1>4, <1>5, <1>1
  <1>7. b - a > 0
    BY <1>6, <1>1, <1>2
  <1>8. Ring * (b - a) >= Ring
    BY <1>7, <1>1, <1>2
  <1> QED
    BY <1>6, <1>8, <1>1, <1>2
(* The initial states satisfy the inductive invariant.                     *)
LEMMA SidecarInitInv == SidecarInit => SidecarInv
  <1> SUFFICES ASSUME SidecarInit PROVE SidecarInv
    OBVIOUS
  <1> USE AsyncChecksumAssumption DEF SidecarInit
  <1>1. task \in Task /\ task.kind = "absorb" /\ task.block = 0
    BY DEF Task, Kind
  <1>2. Unset \in Seq(0 .. MaxWrites)
    BY DEF Unset
  <1>3. SidecarTypeOK
    <2>1. 0 \in 0 .. MaxWrites /\ head \in tail .. tail + Ring
      OBVIOUS
    <2>2. slots \in [0 .. Ring - 1 -> Task]
      BY <1>1
    <2>3. states \in [Frame -> Seq(0 .. MaxWrites)] /\ sum \in [Frame -> Seq(0 .. MaxWrites)]
      BY <1>2
    <2> QED
      BY <1>1, <2>1, <2>2, <2>3 DEF SidecarTypeOK
  <1> QED
    BY <1>3 DEF SidecarInv, Length, InRing, Posting, Ordered, Complete, Absorbed, Finishing, Upto,
       Done

(* What the worker does with a task of each kind.                          *)
LEMMA ProcessByKind ==
    ASSUME Process, Current.kind \in Kind
    PROVE  \/ /\ Current.kind = "reset"
              /\ states' = [states EXCEPT ![Current.frame] = <<>>] /\ sum' = sum
              /\ wpc' = "advance"
           \/ /\ Current.kind = "absorb"
              /\ states' = [states EXCEPT ![Current.frame] = Append(@, Current.block)]
              /\ sum' = sum
              /\ wpc' = "advance"
           \/ /\ Current.kind = "finish"
              /\ sum' = [sum EXCEPT ![Current.frame] = states[Current.frame]] /\ states' = states
              /\ wpc' = "reply"
  <1>1. CASE Current.kind = "reset"
    BY <1>1 DEF Process
  <1>2. CASE Current.kind = "absorb"
    BY <1>2 DEF Process
  <1>3. CASE Current.kind = "finish"
    BY <1>3 DEF Process
  <1> QED
    BY <1>1, <1>2, <1>3 DEF Kind

(* A call begins, goes on, or the worker takes a step.                     *)
LEMMA SidecarTypeStep ==
    ASSUME SidecarInv, SidecarNext
    PROVE  SidecarTypeOK' /\ posted' \in Seq(Task)'
  <1> USE AsyncChecksumAssumption DEF SidecarInv, ringVars, producerVars, SidecarTypeOK
  <1>1. ASSUME NEW f \in Frame, New(f) \/ Write(f) \/ FinishFrame(f) PROVE SidecarTypeOK'
    <2>1. \A k \in Kind, b \in 0 .. MaxWrites : [kind |-> k, frame |-> f, block |-> b] \in Task
      BY DEF Task
    <2>2. wrote[f] \in 0 .. MaxWrites /\ wrote[f] < MaxWrites => wrote[f] + 1 \in 0 .. MaxWrites
      OBVIOUS
    <2>3. task' \in Task
      BY <1>1, <2>1, <2>2 DEF New, Write, FinishFrame, Post, Kind
    <2>4. wrote' \in [Frame -> 0 .. MaxWrites]
      BY <1>1, <2>2 DEF New, Write, FinishFrame
    <2> QED
      BY <1>1, <2>3, <2>4 DEF New, Write, FinishFrame, Post
  <1>2. ASSUME NEW f \in Frame, Refused(f) \/ DropHandle(f) PROVE SidecarTypeOK'
    BY <1>2 DEF Refused, DropHandle, Task
  <1>3. CASE Claim \/ Store
    <2>1. CASE Claim
      BY <2>1 DEF Claim
    <2>2. CASE Store
      BY <2>2 DEF Store
    <2> QED
      BY <1>3, <2>1, <2>2
  <1>4. CASE Publish
    BY <1>4 DEF Publish, Length
  <1>5. CASE Notify
    <2>1. task.frame \in Frame /\ task \in Task
      BY DEF Task
    <2> QED
      BY <1>5, <2>1 DEF Notify
  <1>6. CASE TakeReply \/ Drain
    BY <1>6 DEF TakeReply, Drain, Task
  <1>7. CASE SpinSees \/ TakeWake \/ Recheck \/ Wait \/ SpuriousWake
    BY <1>7 DEF SpinSees, TakeWake, Recheck, Wait, SpuriousWake, WorkerGoto
  <1>8. Current \in Task
    BY DEF Current
  <1>9. CASE Process
    <2>1. states[Current.frame] \in Seq(0 .. MaxWrites) /\ Current.block \in 0 .. MaxWrites
      BY <1>8 DEF Task
    <2>2. Append(states[Current.frame], Current.block) \in Seq(0 .. MaxWrites)
      BY <2>1
    <2>3. Current.kind \in Kind /\ Current.frame \in Frame
      BY <1>8 DEF Task
    <2>4. states' \in [Frame -> Seq(0 .. MaxWrites)] /\ sum' \in [Frame -> Seq(0 .. MaxWrites)]
      <3>1. <<>> \in Seq(0 .. MaxWrites)
        OBVIOUS
      <3>2. CASE states' = [states EXCEPT ![Current.frame] = <<>>] /\ sum' = sum
        BY <3>1, <3>2
      <3>3. CASE states' = [states EXCEPT ![Current.frame] = Append(@, Current.block)] /\ sum' = sum
        BY <2>2, <3>3
      <3>4. CASE sum' = [sum EXCEPT ![Current.frame] = states[Current.frame]] /\ states' = states
        BY <2>1, <3>4
      <3> QED
        BY <1>9, <2>3, <3>2, <3>3, <3>4, ProcessByKind
    <2>5. wpc' \in {"advance", "reply"} /\ UNCHANGED <<producerVars, tail, cell>>
      BY <1>9, <2>3, ProcessByKind DEF Process
    <2> QED
      BY <2>4, <2>5
  <1>10. CASE Reply
    BY <1>10 DEF Reply
  <1>11. CASE Advance
    BY <1>11 DEF Advance, Length
  <1>12. posted' \in Seq(Task)'
    <2>1. CASE Store
      BY <2>1 DEF Store
    <2>2. CASE UNCHANGED posted
      BY <2>2
    <2> QED
      BY <2>1, <2>2 DEF SidecarNext, BeginCall, EndCall, WorkerStep, New, Refused, Write, FinishFrame,
         DropHandle, Claim, Publish, Notify, TakeReply, Drain, SpinSees, TakeWake, Recheck, Wait,
         SpuriousWake, WorkerGoto, Process, Reply, Advance
  <1> QED
    BY <1>1, <1>2, <1>3, <1>4, <1>5, <1>6, <1>7, <1>9, <1>10, <1>11, <1>12
    DEF SidecarNext, BeginCall, EndCall, WorkerStep

(* A posted task, and the place it has among its frame's.                  *)
LEMMA PostedTask ==
    ASSUME posted \in Seq(Task), NEW i \in 1 .. Len(posted)
    PROVE  /\ posted[i] \in Task
           /\ posted[i].kind \in Kind /\ posted[i].frame \in Frame
           /\ posted[i].block \in 0 .. MaxWrites
           /\ Rank(posted[i]) \in 0 .. MaxWrites + 1
           /\ posted[i].kind # "finish" => Rank(posted[i]) = posted[i].block
           /\ posted[i].kind = "finish" => Rank(posted[i]) = MaxWrites + 1
  <1>1. posted[i] \in Task
    OBVIOUS
  <1>2. posted[i].kind \in Kind /\ posted[i].frame \in Frame /\ posted[i].block \in 0 .. MaxWrites
    BY <1>1 DEF Task
  <1> QED
    BY <1>1, <1>2, AsyncChecksumAssumption DEF Rank

(* No step publishes more than was posted, or overtakes the worker.        *)
LEMMA LengthStep ==
    ASSUME SidecarInv, SidecarNext
    PROVE  Length'
  <1> USE AsyncChecksumAssumption DEF SidecarInv, SidecarTypeOK, Length, ringVars, producerVars
  <1>1. CASE BeginCall
    BY <1>1 DEF BeginCall, New, Refused, Write, FinishFrame, DropHandle, Post
  <1>2. CASE EndCall
    BY <1>2 DEF EndCall, Claim, Store, Publish, Notify, TakeReply, Drain
  <1>3. CASE SpinSees \/ TakeWake \/ Recheck \/ Wait \/ SpuriousWake
    BY <1>3 DEF SpinSees, TakeWake, Recheck, Wait, SpuriousWake, WorkerGoto
  <1>4. CASE Process
    BY <1>4 DEF Process
  <1>5. CASE Reply \/ Advance
    BY <1>5 DEF Reply, Advance
  <1> QED
    BY <1>1, <1>2, <1>3, <1>4, <1>5 DEF SidecarNext, WorkerStep

(* A slot is written again only once its task is completed.                *)
LEMMA InRingStep ==
    ASSUME SidecarInv, SidecarNext
    PROVE  InRing'
  <1> USE AsyncChecksumAssumption DEF SidecarInv, SidecarTypeOK, ringVars, producerVars
  <1>1. CASE Store
    <2>1. posted' = Append(posted, task) /\ tail' = tail /\ slots' = [slots EXCEPT ![seq % Ring] = task]
      BY <1>1 DEF Store
    <2>2. seq = head /\ head = Len(posted) /\ head < tail + Ring
      BY <1>1 DEF Store, Length
    <2> SUFFICES ASSUME NEW i \in 1 .. Len(posted'), i > tail
                 PROVE  slots'[(i - 1) % Ring] = posted'[i]
      BY <2>1 DEF InRing
    <2>3. Len(posted') = head + 1
      BY <2>1, <2>2
    <2>4. CASE i = head + 1
      BY <2>1, <2>2, <2>4
    <2>5. CASE i < head + 1
      <3>1. i - 1 \in Nat /\ i - 1 < head /\ head < (i - 1) + Ring
        BY <2>2, <2>5
      <3>2. (i - 1) % Ring # seq % Ring
        BY <3>1, <2>2, SlotsApart
      <3>3. slots'[(i - 1) % Ring] = slots[(i - 1) % Ring]
        BY <2>1, <3>1, <3>2
      <3>4. posted'[i] = posted[i] /\ i \in 1 .. Len(posted)
        BY <2>1, <2>2, <2>5
      <3> QED
        BY <3>3, <3>4 DEF InRing
    <2> QED
      BY <2>3, <2>4, <2>5
  <1>2. CASE Advance
    BY <1>2 DEF Advance, InRing
  <1>3. CASE UNCHANGED <<posted, slots, tail>>
    BY <1>3 DEF InRing
  <1> QED
    BY <1>1, <1>2, <1>3 DEF SidecarNext, BeginCall, EndCall, WorkerStep, New, Refused, Write,
       FinishFrame, DropHandle, Claim, Publish, Notify, TakeReply, Drain, SpinSees, TakeWake, Recheck,
       Wait, SpuriousWake, WorkerGoto, Process, Reply

(* What the worker works on is the next task that was posted.              *)
LEMMA CurrentIsPosted ==
    ASSUME SidecarInv, wpc \in {"process", "reply", "advance"}
    PROVE  /\ tail + 1 \in 1 .. Len(posted)
           /\ Current = posted[tail + 1]
           /\ Current \in Task /\ Current.frame \in Frame /\ Current.kind \in Kind
  <1> USE AsyncChecksumAssumption DEF SidecarInv, SidecarTypeOK
  <1>1. tail + 1 \in 1 .. Len(posted)
    BY DEF Length
  <1>2. Current = posted[tail + 1]
    BY <1>1 DEF Current, InRing
  <1>3. Current \in Task
    BY <1>1, <1>2
  <1> QED
    BY <1>1, <1>2, <1>3 DEF Task

(* What a frame has posted, before it is finished, ranks within what it    *)
(* has written.                                                            *)
LEMMA RankWritten ==
    ASSUME SidecarInv, NEW i \in 1 .. Len(posted), posted[i].kind # "finish"
    PROVE  /\ posted[i].frame \in Frame /\ wrote[posted[i].frame] \in Nat
           /\ Rank(posted[i]) = posted[i].block /\ Rank(posted[i]) \in Nat
           /\ Rank(posted[i]) <= wrote[posted[i].frame]
  <1>1. posted \in Seq(Task)
    BY DEF SidecarInv
  <1>2. posted[i].kind \in Kind /\ posted[i].frame \in Frame /\ posted[i].block \in 0 .. MaxWrites
    BY <1>1, PostedTask
  <1>3. Rank(posted[i]) = posted[i].block
    BY <1>1, PostedTask
  <1>4. wrote[posted[i].frame] \in 0 .. MaxWrites
    BY <1>2 DEF SidecarInv, SidecarTypeOK
  <1>5. posted[i].kind \in {"reset", "absorb"}
    BY <1>2 DEF Kind
  <1>6. /\ posted[i].kind = "reset" => posted[i].block = 0
        /\ posted[i].kind = "absorb" => posted[i].block \in 1 .. wrote[posted[i].frame]
    BY DEF SidecarInv, Ordered
  <1>7. posted[i].block <= wrote[posted[i].frame]
    BY <1>2, <1>4, <1>5, <1>6, AsyncChecksumAssumption
  <1> QED
    BY <1>2, <1>3, <1>4, <1>7, AsyncChecksumAssumption

(* A call posts its task after what the frame has posted before.           *)
LEMMA PostingStep ==
    ASSUME SidecarInv, SidecarNext
    PROVE  Posting'
  <1> USE AsyncChecksumAssumption DEF SidecarInv, SidecarTypeOK, ringVars, producerVars
  <1>1. ASSUME NEW f \in Frame, New(f) PROVE Posting'
    <2>1. \A i \in 1 .. Len(posted) : posted[i].frame # f
      BY <1>1 DEF New, Ordered
    <2>2. task' = [kind |-> "reset", frame |-> f, block |-> 0] /\ ppc' = "claim"
      BY <1>1 DEF New, Post
    <2> QED
      BY <1>1, <2>1, <2>2 DEF New, Posting
  <1>2. ASSUME NEW f \in Frame, Write(f) PROVE Posting'
    <2>1. task' = [kind |-> "absorb", frame |-> f, block |-> wrote[f] + 1] /\ ppc' = "claim"
      BY <1>2 DEF Write, Post
    <2>2. \A i \in 1 .. Len(posted) : posted[i].frame = f => Rank(posted[i]) < wrote[f] + 1
      <3> SUFFICES ASSUME NEW i \in 1 .. Len(posted), posted[i].frame = f
                   PROVE  Rank(posted[i]) < wrote[f] + 1
        OBVIOUS
      <3>1. posted[i].kind # "finish"
        BY <1>2 DEF Write, Finishing
      <3>2. Rank(posted[i]) \in Nat /\ wrote[f] \in Nat /\ Rank(posted[i]) <= wrote[f]
        BY <3>1, RankWritten
      <3> QED
        BY <3>2
    <2>3. Rank(task') = wrote[f] + 1
      BY <2>1 DEF Rank
    <2> QED
      BY <1>2, <2>1, <2>2, <2>3 DEF Write, Posting
  <1>3. ASSUME NEW f \in Frame, FinishFrame(f) PROVE Posting'
    <2>1. task' = [kind |-> "finish", frame |-> f, block |-> 0] /\ ppc' = "claim"
      BY <1>3 DEF FinishFrame, Post
    <2>2. \A i \in 1 .. Len(posted) : posted[i].frame = f => Rank(posted[i]) < MaxWrites + 1
      <3> SUFFICES ASSUME NEW i \in 1 .. Len(posted), posted[i].frame = f
                   PROVE  Rank(posted[i]) < MaxWrites + 1
        OBVIOUS
      <3>1. posted[i].kind # "finish"
        BY <1>3 DEF FinishFrame, Finishing
      <3>2. Rank(posted[i]) = posted[i].block /\ posted[i].block \in 0 .. MaxWrites
        BY <3>1, PostedTask
      <3> QED
        BY <3>2
    <2>3. Rank(task') = MaxWrites + 1
      BY <2>1 DEF Rank
    <2> QED
      BY <1>3, <2>1, <2>2, <2>3 DEF FinishFrame, Posting
  <1>4. ASSUME NEW f \in Frame, Refused(f) \/ DropHandle(f) PROVE Posting'
    <2>1. ppc' \in {"idle", "drain"} /\ UNCHANGED wrote
      BY <1>4 DEF Refused, DropHandle
    <2>2. ppc' = "drain" => phase'[task'.frame] \in {"open", "finished"}
      BY <1>4 DEF Refused, DropHandle, Task
    <2>3. \A g \in Frame : phase'[g] = "none" => wrote'[g] = 0
      BY <1>4 DEF Refused, DropHandle, Posting
    <2> QED
      BY <2>1, <2>2, <2>3 DEF Posting
  <1>5. CASE Store
    <2>1. posted' = Append(posted, task)
      BY <1>5 DEF Store
    <2>2. posted' # <<>> /\ posted'[Len(posted')] = task
      <3> HIDE DEF SidecarInv
      <3>1. posted \in Seq(Task) /\ task \in Task
        BY DEF SidecarInv, SidecarTypeOK
      <3> HIDE DEF SidecarTypeOK
      <3> QED
        BY <2>1, <3>1, AppendProperties
    <2> QED
      BY <1>5, <2>2 DEF Store, Posting
  <1>6. CASE Claim \/ Publish \/ Notify \/ TakeReply \/ Drain
    BY <1>6 DEF Claim, Publish, Notify, TakeReply, Drain, Posting
  <1>7. CASE WorkerStep \/ SpuriousWake
    <2>1. UNCHANGED <<ppc, task, posted, phase, wrote>>
      BY <1>7 DEF WorkerStep, SpinSees, TakeWake, Recheck, Wait, SpuriousWake, WorkerGoto, Process, Reply,
         Advance
    <2> QED
      BY <2>1 DEF Posting, Rank
  <1> QED
    BY <1>1, <1>2, <1>3, <1>4, <1>5, <1>6, <1>7 DEF SidecarNext, BeginCall, EndCall

(* A store appends the task to what was posted.                            *)
LEMMA StoreAppends ==
    ASSUME SidecarInv, Store
    PROVE  /\ task \in Task /\ task.frame \in Frame /\ task.kind \in Kind /\ task.block \in 0 .. MaxWrites
           /\ Len(posted) = head /\ Len(posted') = head + 1
           /\ \A i \in 1 .. Len(posted) : posted'[i] = posted[i]
           /\ posted'[head + 1] = task
           /\ phase[task.frame] = "open"
           /\ UNCHANGED <<tail, wpc, states, task, phase, wrote, upto, cell, sum>>
  <1>1. task \in Task /\ posted \in Seq(Task) /\ posted' = Append(posted, task)
    BY DEF SidecarInv, SidecarTypeOK, Store
  <1>2. Len(posted) = head
    BY DEF SidecarInv, Length, Store
  <1> QED
    BY <1>1, <1>2, AppendProperties DEF Store, SidecarInv, Posting, Task

(* The block that a frame has yet to post comes after those it has posted. *)
LEMMA OrderedStep ==
    ASSUME SidecarInv, SidecarNext
    PROVE  Ordered'
  <1> USE AsyncChecksumAssumption DEF SidecarInv, SidecarTypeOK
  <1>1. CASE Store
    <2>1. \A i \in 1 .. Len(posted') :
            /\ posted'[i].kind = "reset" => posted'[i].block = 0
            /\ posted'[i].kind = "absorb" => posted'[i].block \in 1 .. wrote'[posted'[i].frame]
            /\ phase'[posted'[i].frame] \in {"open", "finished", "dropped"}
      <3> SUFFICES ASSUME NEW i \in 1 .. Len(posted')
                   PROVE  /\ posted'[i].kind = "reset" => posted'[i].block = 0
                          /\ posted'[i].kind = "absorb" => posted'[i].block \in 1 .. wrote'[posted'[i].frame]
                          /\ phase'[posted'[i].frame] \in {"open", "finished", "dropped"}
        OBVIOUS
      <3>1. CASE i = head + 1
        <4>1. posted'[i] = task /\ UNCHANGED <<task, wrote, phase>> /\ phase[task.frame] = "open"
              /\ task.block \in 0 .. MaxWrites
          BY <1>1, <3>1, StoreAppends
        <4>2. /\ task.kind = "reset" => task.block = 0
              /\ task.kind = "absorb" => task.block = wrote[task.frame] /\ task.block > 0
          BY <1>1 DEF Posting, Store
        <4> QED
          BY <4>1, <4>2
      <3>2. CASE i \in 1 .. Len(posted)
        <4>1. posted'[i] = posted[i] /\ UNCHANGED <<wrote, phase>>
          BY <1>1, <3>2, StoreAppends
        <4> QED
          BY <3>2, <4>1 DEF Ordered
      <3>3. i = head + 1 \/ i \in 1 .. Len(posted)
        <4>1. Len(posted) = head /\ Len(posted') = head + 1 /\ head \in Nat
          BY <1>1, StoreAppends
        <4> QED
          BY <4>1
      <3> QED
        BY <3>1, <3>2, <3>3
    <2>2. ASSUME NEW i \in 1 .. Len(posted'), NEW j \in 1 .. Len(posted'),
                 i < j, posted'[i].frame = posted'[j].frame
          PROVE  Rank(posted'[i]) < Rank(posted'[j])
      <3>1. CASE j = head + 1
        <4> HIDE DEF SidecarInv, SidecarTypeOK
        <4>1. i \in 1 .. Len(posted) /\ posted'[i] = posted[i] /\ posted'[j] = task
          BY <1>1, <2>2, <3>1, StoreAppends
        <4> QED
          BY <1>1, <2>2, <4>1 DEF SidecarInv, Posting, Store
      <3>2. CASE j \in 1 .. Len(posted)
        <4> HIDE DEF SidecarInv, SidecarTypeOK
        <4>1. i \in 1 .. Len(posted) /\ posted'[i] = posted[i] /\ posted'[j] = posted[j]
          BY <1>1, <2>2, <3>2, StoreAppends
        <4> QED
          BY <2>2, <3>2, <4>1 DEF SidecarInv, Ordered
      <3> QED
        BY <1>1, <3>1, <3>2, StoreAppends
    <2> QED
      BY <2>1, <2>2 DEF Ordered, Rank
  <1>2. ASSUME NEW f \in Frame, Write(f) PROVE Ordered'
    <2>1. \A i \in 1 .. Len(posted) : posted[i].kind = "absorb" =>
            posted[i].block \in 1 .. wrote'[posted[i].frame]
      <3> SUFFICES ASSUME NEW i \in 1 .. Len(posted), posted[i].kind = "absorb"
                   PROVE  posted[i].block \in 1 .. wrote'[posted[i].frame]
        OBVIOUS
      <3>1. posted[i].frame \in Frame /\ posted[i].block \in 1 .. wrote[posted[i].frame]
        BY PostedTask DEF Ordered
      <3>2. PICK g \in Frame : g = posted[i].frame
        BY <3>1
      <3>3. wrote[g] \in Nat /\ wrote' = [wrote EXCEPT ![f] = @ + 1]
        BY <1>2 DEF Write
      <3>4. wrote'[g] \in {wrote[g], wrote[g] + 1}
        BY <3>3
      <3>5. ASSUME NEW w \in Nat, NEW v \in {w, w + 1}, NEW b \in 1 .. w PROVE b \in 1 .. v
        <4>1. w <= v /\ v \in Nat
          BY <3>5
        <4> QED
          BY <3>5, <4>1
      <3> QED
        BY <3>1, <3>2, <3>3, <3>4, <3>5
    <2>2. posted' = posted /\ phase' = phase
      BY <1>2 DEF Write
    <2> QED
      BY <2>1, <2>2 DEF Ordered, Rank
  <1>3. CASE UNCHANGED <<posted, wrote>> /\ \A f \in Frame : phase[f] \in {"open", "finished", "dropped"}
                => phase'[f] \in {"open", "finished", "dropped"}
    BY <1>3, PostedTask DEF Ordered, Rank
  <1>4. ASSUME NEW f \in Frame, New(f) \/ Refused(f)
        PROVE  UNCHANGED <<posted, wrote>> /\ \A g \in Frame : phase[g] \in {"open", "finished", "dropped"}
                => phase'[g] \in {"open", "finished", "dropped"}
    BY <1>4 DEF New, Refused
  <1>5. CASE TakeReply \/ Drain
    <2>1. UNCHANGED <<posted, wrote>> /\ \A g \in Frame : phase[g] \in {"open", "finished", "dropped"}
                => phase'[g] \in {"open", "finished", "dropped"}
      BY <1>5 DEF TakeReply, Drain
    <2> QED
      BY <2>1, <1>3
  <1>6. CASE UNCHANGED <<posted, wrote, phase>>
    BY <1>6, <1>3
  <1> QED
    BY <1>1, <1>2, <1>3, <1>4, <1>5, <1>6 DEF SidecarNext, BeginCall, EndCall, WorkerStep,
       FinishFrame, DropHandle, Claim, Publish, Notify, SpinSees, TakeWake, Recheck,
       Wait, SpuriousWake, WorkerGoto, Process, Reply, Advance, producerVars

(* No block that was written is left out of what is posted.                *)
LEMMA CompleteStep ==
    ASSUME SidecarInv, SidecarNext
    PROVE  Complete'
  <1> USE AsyncChecksumAssumption DEF SidecarInv, SidecarTypeOK
  <1>1. ASSUME NEW g \in Frame, New(g) PROVE Complete'
    <2>1. task' = [kind |-> "reset", frame |-> g, block |-> 0] /\ ppc' = "claim" /\ ppc = "idle"
      BY <1>1 DEF New, Post
    <2>2. wrote[g] = 0 /\ UNCHANGED <<posted, wrote>> /\ phase' = [phase EXCEPT ![g] = "open"]
      BY <1>1 DEF New, Posting
    <2>3. ASSUME NEW f \in Frame, phase'[f] \in {"open", "finished"}, NEW b \in 0 .. wrote[f], f # g
          PROVE  \E i \in 1 .. Len(posted) :
                    posted[i].frame = f /\ posted[i].kind # "finish" /\ posted[i].block = b
      <3>1. phase[f] \in {"open", "finished"} /\ ppc \notin {"claim", "store"}
        BY <2>1, <2>2, <2>3
      <3> QED
        BY <3>1 DEF Complete
    <2>4. Rank(task') = 0 /\ \A b \in 0 .. wrote[g] : b = 0
      BY <2>1, <2>2 DEF Rank
    <2> QED
      BY <2>1, <2>2, <2>3, <2>4 DEF Complete
  <1>2. ASSUME NEW g \in Frame, Write(g) PROVE Complete'
    <2>1. task' = [kind |-> "absorb", frame |-> g, block |-> wrote[g] + 1] /\ ppc' = "claim" /\ ppc = "idle"
      BY <1>2 DEF Write, Post
    <2>2. UNCHANGED <<posted, phase>> /\ wrote' = [wrote EXCEPT ![g] = @ + 1] /\ wrote[g] \in Nat
      BY <1>2 DEF Write
    <2>3. Rank(task') = wrote[g] + 1
      BY <2>1 DEF Rank
    <2>4. ASSUME NEW f \in Frame, phase'[f] \in {"open", "finished"}, NEW b \in 0 .. wrote'[f]
          PROVE  \/ f = g /\ b = wrote[g] + 1
                 \/ \E i \in 1 .. Len(posted) :
                        posted[i].frame = f /\ posted[i].kind # "finish" /\ posted[i].block = b
      <3>1. (f = g /\ b = wrote[g] + 1) \/ b \in 0 .. wrote[f]
        BY <2>2
      <3> QED
        BY <3>1, <2>1, <2>2, <2>4 DEF Complete
    <2> QED
      BY <2>1, <2>2, <2>3, <2>4 DEF Complete
  <1>3. CASE Store
    <2> SUFFICES ASSUME NEW f \in Frame, phase[f] \in {"open", "finished"}, NEW b \in 0 .. wrote[f]
                 PROVE  \E i \in 1 .. Len(posted') :
                          posted'[i].frame = f /\ posted'[i].kind # "finish" /\ posted'[i].block = b
      <3>1. UNCHANGED <<phase, wrote>>
        BY <1>3, StoreAppends
      <3> HIDE DEF SidecarInv, SidecarTypeOK
      <3> QED
        BY <3>1 DEF Complete
    <2>1. CASE task.frame = f /\ task.kind # "finish" /\ Rank(task) = b
      <3>1. task.block = b /\ head + 1 \in 1 .. Len(posted')
        BY <1>3, <2>1, StoreAppends DEF Rank
      <3> QED
        BY <1>3, <2>1, <3>1, StoreAppends
    <2>2. CASE \E i \in 1 .. Len(posted) :
                  posted[i].frame = f /\ posted[i].kind # "finish" /\ posted[i].block = b
      <3> PICK i \in 1 .. Len(posted) :
                posted[i].frame = f /\ posted[i].kind # "finish" /\ posted[i].block = b
        BY <2>2
      <3>1. i \in 1 .. Len(posted') /\ posted'[i] = posted[i]
        BY <1>3, StoreAppends
      <3> QED
        BY <3>1
    <2> QED
      BY <1>3, <2>1, <2>2 DEF Complete, Store
  <1>4. CASE /\ UNCHANGED <<posted, wrote>>
             /\ ppc \in {"claim", "store"} => ppc' \in {"claim", "store"} /\ task' = task
             /\ \A f \in Frame : phase'[f] \in {"open", "finished"} => phase[f] \in {"open", "finished"}
    <2> SUFFICES ASSUME NEW f \in Frame, phase'[f] \in {"open", "finished"}, NEW b \in 0 .. wrote[f]
                 PROVE  \/ ppc' \in {"claim", "store"} /\ task'.frame = f /\ task'.kind # "finish"
                            /\ Rank(task') = b
                        \/ \E i \in 1 .. Len(posted) :
                            posted[i].frame = f /\ posted[i].kind # "finish" /\ posted[i].block = b
      BY <1>4 DEF Complete, Rank
    <2>1. phase[f] \in {"open", "finished"}
      BY <1>4
    <2>2. CASE ppc \in {"claim", "store"} /\ task.frame = f /\ task.kind # "finish" /\ Rank(task) = b
      BY <1>4, <2>2
    <2> QED
      BY <2>1, <2>2 DEF Complete
  <1>5. ASSUME NEW f \in Frame, Refused(f) \/ FinishFrame(f) \/ DropHandle(f)
        PROVE  /\ UNCHANGED <<posted, wrote>>
               /\ ppc \in {"claim", "store"} => ppc' \in {"claim", "store"} /\ task' = task
               /\ \A g \in Frame : phase'[g] \in {"open", "finished"} => phase[g] \in {"open", "finished"}
    BY <1>5 DEF Refused, FinishFrame, DropHandle
  <1>6. CASE TakeReply \/ Drain
    <2>1. /\ UNCHANGED <<posted, wrote>> /\ ppc \notin {"claim", "store"}
          /\ phase[task.frame] \in {"open", "finished"}
          /\ \A g \in Frame : phase'[g] \in {"open", "finished"} => phase[g] \in {"open", "finished"}
      BY <1>6 DEF TakeReply, Drain, Posting
    <2> QED
      BY <2>1, <1>4
  <1>7. CASE Claim \/ Publish \/ Notify
    <2>1. UNCHANGED <<posted, wrote, task, phase>> /\ (ppc \in {"claim", "store"} => ppc' \in {"claim", "store"})
      BY <1>7 DEF Claim, Publish, Notify
    <2> QED
      BY <2>1, <1>4
  <1>8. CASE UNCHANGED <<posted, wrote, phase, ppc, task>>
    BY <1>8, <1>4
  <1> QED
    BY <1>1, <1>2, <1>3, <1>4, <1>5, <1>6, <1>7, <1>8 DEF SidecarNext, BeginCall, EndCall, WorkerStep,
       SpinSees, TakeWake, Recheck, Wait, SpuriousWake, WorkerGoto, Process, Reply, Advance, producerVars

(* A task the worker has yet to carry out belongs to a frame still there.  *)
LEMMA PendingIsHere ==
    ASSUME SidecarInv, NEW i \in 1 .. Len(posted), i > Done
    PROVE  phase[posted[i].frame] = "open"
  <1> USE AsyncChecksumAssumption DEF SidecarInv, SidecarTypeOK
  <1> DEFINE f == posted[i].frame
  <1>1. f \in Frame /\ Done \in Nat /\ tail <= Done
    BY PostedTask DEF Done
  <1>2. phase[f] \in {"open", "finished", "dropped"}
    BY DEF Ordered
  <1>3. phase[f] # "dropped"
    <2>1. phase[posted[i].frame] = "dropped" => i <= tail
      BY DEF Upto
    <2>2. i \in Nat /\ tail \in Nat
      OBVIOUS
    <2> QED
      BY <1>1, <2>1, <2>2
  <1>4. CASE phase[f] = "finished"
    <2> PICK k \in 1 .. tail + 1 : k <= Done /\ posted[k].frame = f /\ posted[k].kind = "finish"
      BY <1>1, <1>4 DEF Finishing
    <2>1. k \in 1 .. Len(posted) /\ k < i
      BY <1>1
    <2>2. Rank(posted[k]) < Rank(posted[i])
      BY <2>1 DEF Ordered
    <2>3. Rank(posted[k]) = MaxWrites + 1 /\ Rank(posted[i]) \in 0 .. MaxWrites + 1
      BY <2>1, PostedTask
    <2> QED
      BY <2>2, <2>3
  <1> QED
    BY <1>2, <1>3, <1>4

(* When the worker comes to a block, or to a finish, of a frame, the tasks *)
(* it has carried out hold the frame's reset and every block before.       *)
LEMMA PrefixAbsorbed ==
    ASSUME SidecarInv, wpc = "process",
           NEW b \in Nat,
           \/ Current.kind = "absorb" /\ b = Current.block - 1
           \/ Current.kind = "finish" /\ b = wrote[Current.frame]
    PROVE  states[Current.frame] = Blocks(b)
  <1> USE AsyncChecksumAssumption DEF SidecarInv, SidecarTypeOK
  <1> DEFINE f == Current.frame
             k == tail + 1
  <1>1. /\ k \in 1 .. Len(posted) /\ Current = posted[k]
        /\ f \in Frame /\ wrote[f] \in 0 .. MaxWrites /\ Done = tail
    BY CurrentIsPosted DEF Done
  <1>2. phase[f] = "open"
    BY <1>1, PendingIsHere
  <1>3. Current.kind = "absorb" => Current.block \in 1 .. wrote[f]
    BY <1>1 DEF Ordered
  <1>4. b <= wrote[f] /\ b < Rank(posted[k]) /\ Rank(posted[k]) \in Int
    BY <1>1, <1>3, PostedTask, SMTT(20)
  <1> HIDE DEF f, k
  <1>0. 0 \in 0 .. b /\ b \in 0 .. b
    OBVIOUS
  <1>5. ASSUME NEW c \in 0 .. b
        PROVE  \E i \in 1 .. tail :
                  posted[i].frame = f /\ posted[i].kind # "finish" /\ posted[i].block = c
    <2>1. \/ ppc \in {"claim", "store"} /\ task.frame = f /\ Rank(task) = c
          \/ \E i \in 1 .. Len(posted) :
                posted[i].frame = f /\ posted[i].kind # "finish" /\ posted[i].block = c
      <3>1. c \in 0 .. wrote[f] /\ f \in Frame
        BY <1>1, <1>4
      <3>2. phase[f] \in {"open", "finished"}
        BY <1>2
      <3> HIDE DEF SidecarTypeOK
      <3> QED
        BY <3>1, <3>2 DEF Complete
    <2>2. CASE ppc \in {"claim", "store"} /\ task.frame = f /\ Rank(task) = c
      <3>1. Rank(posted[k]) < c
        <4>1. posted[k].frame = task.frame
          BY <1>1, <2>2 DEF f
        <4> HIDE DEF SidecarTypeOK
        <4> QED
          BY <1>1, <2>2, <4>1 DEF Posting
      <3> QED
        BY <1>4, <3>1
    <2>3. CASE \E i \in 1 .. Len(posted) :
                posted[i].frame = f /\ posted[i].kind # "finish" /\ posted[i].block = c
      <3> PICK i \in 1 .. Len(posted) :
                posted[i].frame = f /\ posted[i].kind # "finish" /\ posted[i].block = c
        BY <2>3
      <3>1. Rank(posted[i]) = c
        BY PostedTask
      <3>2. ~(k < i)
        <4>1. k < i => Rank(posted[k]) < Rank(posted[i])
          BY <1>1 DEF Ordered, f
        <4> QED
          BY <1>4, <3>1, <4>1
      <3>3. i # k
        BY <1>4, <3>1
      <3> QED
        BY <1>1, <3>2, <3>3 DEF k
    <2> QED
      BY <2>1, <2>2, <2>3
  <1>6. PICK r \in 1 .. tail : posted[r].frame = f /\ posted[r].kind = "reset"
    <2> PICK r \in 1 .. tail : posted[r].frame = f /\ posted[r].kind # "finish" /\ posted[r].block = 0
      BY <1>0, <1>5
    <2>1. r \in 1 .. Len(posted)
      BY <1>1 DEF k
    <2>2. posted[r].kind # "absorb"
      BY <2>1, <1>1, SMTT(20) DEF Ordered
    <2> QED
      BY <2>1, <2>2, PostedTask DEF Kind
  <1>7. r \in 1 .. Done /\ r \in 1 .. Len(posted)
    BY <1>1, <1>6 DEF k
  <1>8. PICK n \in 0 .. wrote[f] : states[f] = Blocks(n)
    BY <1>6, <1>7 DEF Absorbed
  <1>9. n \in Nat /\ Len(states[f]) = n
    BY <1>1, <1>8 DEF Blocks
  <1>10. \A j \in 1 .. Len(posted) : posted[j].frame = f /\ posted[j].kind = "absorb" =>
                (j <= Done <=> posted[j].block <= n)
    BY <1>6, <1>7, <1>9 DEF Absorbed
  <1>11. b <= n
    <2>1. CASE b = 0
      BY <2>1, <1>9
    <2>2. CASE b # 0
      <3> PICK i \in 1 .. tail : posted[i].frame = f /\ posted[i].kind # "finish" /\ posted[i].block = b
        BY <1>0, <1>5
      <3>1. i \in 1 .. Len(posted) /\ i <= Done
        BY <1>1 DEF k
      <3>2. posted[i].kind = "absorb"
        BY <2>2, <3>1, PostedTask DEF Ordered, Kind
      <3> QED
        BY <1>10, <3>1, <3>2
    <2> QED
      BY <2>1, <2>2
  <1>12. n <= b
    <2>1. CASE Current.kind = "absorb"
      <3>1. ~(Current.block <= n) /\ b = Current.block - 1
        BY <1>1, <1>10, <2>1 DEF k, f
      <3> QED
        BY <1>9, <3>1, <1>3, <2>1
    <2>2. CASE Current.kind = "finish"
      BY <2>2, <1>1, <1>8 DEF f
    <2> QED
      BY <2>1, <2>2
  <1>13. n = b
    BY <1>9, <1>11, <1>12
  <1> QED
    BY <1>8, <1>13 DEF f

(* Only Process carries a task out.                                        *)
LEMMA DoneStep ==
    ASSUME SidecarInv, SidecarNext
    PROVE  /\ Done \in Nat /\ tail <= Done /\ Done <= head /\ Done <= Len(posted)
           /\ Process => Done' = Done + 1 /\ Done = tail /\ tail' = tail
           /\ ~Process => Done' = Done /\ UNCHANGED <<states, sum>>
  <1> USE AsyncChecksumAssumption DEF SidecarInv, SidecarTypeOK
  <1>1. Done \in Nat /\ tail <= Done /\ Done <= head /\ Done <= Len(posted)
    BY DEF Done, Length
  <1>2. CASE Process
    <2>1. Current.kind \in Kind
      BY <1>2, CurrentIsPosted DEF Process
    <2>2. wpc' \in {"reply", "advance"} /\ wpc = "process" /\ tail' = tail
      BY <1>2, <2>1, ProcessByKind DEF Process
    <2> QED
      BY <1>1, <1>2, <2>2 DEF Done
  <1>3. CASE Advance
    BY <1>1, <1>3 DEF Advance, Done, Process
  <1>4. ASSUME ~Process, ~Advance
        PROVE  UNCHANGED <<states, sum, tail>> /\ (wpc' \in {"reply", "advance"} <=> wpc \in {"reply", "advance"})
    <2>1. CASE BeginCall
      BY <2>1 DEF BeginCall, New, Refused, Write, FinishFrame, DropHandle, ringVars
    <2>2. CASE EndCall
      BY <2>2 DEF EndCall, Claim, Store, Publish, Notify, TakeReply, Drain, ringVars
    <2>3. CASE SpinSees \/ TakeWake \/ Recheck \/ Wait \/ SpuriousWake \/ Reply
      BY <2>3 DEF SpinSees, TakeWake, Recheck, Wait, SpuriousWake, WorkerGoto, Reply
    <2> QED
      BY <1>4, <2>1, <2>2, <2>3 DEF SidecarNext, WorkerStep
  <1> QED
    BY <1>1, <1>2, <1>3, <1>4 DEF Done

(* Which steps write to posted and to wrote.                               *)
LEMMA HistoryStep ==
    ASSUME SidecarInv, SidecarNext
    PROVE  /\ Store \/ UNCHANGED posted
           /\ \A f \in Frame : wrote[f] \in Nat /\ wrote'[f] \in Nat /\ wrote[f] <= wrote'[f]
  <1> USE DEF SidecarInv, SidecarTypeOK
  <1>1. ASSUME NEW f \in Frame, Write(f)
        PROVE  UNCHANGED posted /\ \A g \in Frame : wrote'[g] \in Nat /\ wrote[g] <= wrote'[g]
    BY <1>1 DEF Write
  <1>2. CASE \E f \in Frame : New(f) \/ Refused(f) \/ FinishFrame(f) \/ DropHandle(f)
    BY <1>2 DEF New, Refused, FinishFrame, DropHandle
  <1>3. CASE EndCall
    BY <1>3 DEF EndCall, Claim, Store, Publish, Notify, TakeReply, Drain
  <1>4. CASE WorkerStep \/ SpuriousWake
    <2>1. UNCHANGED <<posted, wrote>>
      BY <1>4 DEF WorkerStep, SpinSees, TakeWake, Recheck, Wait, SpuriousWake, WorkerGoto, Process, Reply,
         Advance, producerVars
    <2> QED
      BY <2>1
  <1> QED
    BY <1>1, <1>2, <1>3, <1>4 DEF SidecarNext, BeginCall

(* A posted block has a number, its place among the frame's tasks.         *)
LEMMA PostedBlock ==
    ASSUME SidecarInv, NEW j \in 1 .. Len(posted), posted[j].kind = "absorb"
    PROVE  posted[j].block \in Nat /\ posted[j].block > 0 /\ Rank(posted[j]) = posted[j].block
  <1>1. posted[j].block \in 0 .. MaxWrites /\ Rank(posted[j]) = posted[j].block
    BY PostedTask DEF SidecarInv
  <1>2. posted[j].block >= 1
    BY DEF SidecarInv, Ordered
  <1> QED
    BY <1>1, <1>2

(* The state of each frame follows the tasks carried out.                  *)
LEMMA AbsorbedStep ==
    ASSUME SidecarInv, SidecarNext
    PROVE  Absorbed'
  <1> USE DEF SidecarInv
  <1>0. tail \in Nat /\ states \in [Frame -> Seq(0 .. MaxWrites)] /\ MaxWrites \in Nat
    BY AsyncChecksumAssumption DEF SidecarTypeOK
  <1> SUFFICES ASSUME NEW r \in 1 .. Done', posted'[r].kind = "reset", NEW f, f = posted'[r].frame
               PROVE  /\ \E n \in 0 .. wrote'[f] :
                            /\ states'[f] = Blocks(n)
                            /\ n > 0 => \E j \in 1 .. Done' :
                                posted'[j].frame = f /\ posted'[j].kind = "absorb" /\ posted'[j].block = n
                      /\ \A j \in 1 .. Len(posted') : posted'[j].frame = f /\ posted'[j].kind = "absorb" =>
                            (j <= Done' <=> posted'[j].block <= Len(states'[f]))
    BY DEF Absorbed, Blocks
  <1>1. Done \in Nat /\ Done <= Len(posted)
    BY DoneStep
  <1>2. CASE ~Process /\ ~Store
    <2>1. UNCHANGED <<posted, states>> /\ Done' = Done
      BY <1>2, DoneStep, HistoryStep
    <2>2. f \in Frame
      BY <2>1, <1>1, PostedTask
    <2>3. wrote[f] \in Nat /\ wrote'[f] \in Nat /\ wrote[f] <= wrote'[f]
      BY <2>2, HistoryStep
    <2>4. \A n \in 0 .. wrote[f] : n \in 0 .. wrote'[f]
      BY <2>3
    <2> QED
      BY <2>1, <2>2, <2>4 DEF Absorbed
  <1>3. CASE Store
    <2>1. Done' = Done /\ UNCHANGED <<states, wrote>>
      BY <1>3, StoreAppends DEF Done
    <2>2. r \in 1 .. Done /\ r \in 1 .. Len(posted) /\ posted'[r] = posted[r]
      BY <1>1, <1>3, <2>1, StoreAppends
    <2>3. f \in Frame
      BY <2>2, PostedTask
    <2>4. PICK n \in 0 .. wrote[f] :
                /\ states[f] = Blocks(n)
                /\ n > 0 => \E j \in 1 .. Done :
                    posted[j].frame = f /\ posted[j].kind = "absorb" /\ posted[j].block = n
      BY <2>2 DEF Absorbed
    <2>5. n \in Nat /\ Len(states[f]) = n
      <3>1. wrote[f] \in Nat
        BY <2>3, HistoryStep
      <3> QED
        BY <2>4, <3>1 DEF Blocks
    <2>6. \A j \in 1 .. Done : j \in 1 .. Len(posted) /\ posted'[j] = posted[j]
      BY <1>1, <1>3, StoreAppends
    <2>7. ASSUME NEW j \in 1 .. Len(posted'), posted'[j].frame = f, posted'[j].kind = "absorb"
          PROVE  j <= Done' <=> posted'[j].block <= Len(states'[f])
      <3>1. CASE j \in 1 .. Len(posted)
        <4>1. posted'[j] = posted[j]
          BY <1>3, <3>1, StoreAppends
        <4>2. j <= Done <=> posted[j].block <= Len(states[f])
          BY <2>2, <2>7, <3>1, <4>1 DEF Absorbed
        <4> QED
          BY <2>1, <4>1, <4>2
      <3>2. CASE j = head + 1
        <4>1. posted'[j] = task /\ j > Done
          BY <1>1, <1>3, <3>2, StoreAppends
        <4>2. task.block > 0 /\ Rank(task) = task.block /\ task.block \in Nat
          BY <1>3, <2>7, <4>1, StoreAppends DEF Posting, Store, Rank
        <4>3. n > 0 => n < task.block
          <5> SUFFICES ASSUME n > 0 PROVE n < task.block
            OBVIOUS
          <5> PICK k \in 1 .. Done :
                    posted[k].frame = f /\ posted[k].kind = "absorb" /\ posted[k].block = n
            BY <2>4
          <5>1. k \in 1 .. Len(posted)
            BY <2>6
          <5>2. Rank(posted[k]) = n
            BY <5>1, PostedTask
          <5>3. Rank(posted[k]) < Rank(task)
            BY <1>3, <2>7, <4>1, <5>1 DEF Posting, Store
          <5> QED
            BY <4>2, <5>2, <5>3
        <4>4. n < task.block
          BY <2>5, <4>2, <4>3
        <4>5. ~(j <= Done)
          BY <1>1, <4>1
        <4> QED
          BY <2>1, <2>5, <4>1, <4>2, <4>4, <4>5
      <3> QED
        BY <1>3, <3>1, <3>2, StoreAppends
    <2>8. n > 0 => \E j \in 1 .. Done' :
                    posted'[j].frame = f /\ posted'[j].kind = "absorb" /\ posted'[j].block = n
      BY <2>1, <2>4, <2>6
    <2> QED
      BY <2>1, <2>4, <2>7, <2>8
  <1>4. CASE Process
    <2> DEFINE k == tail + 1
               g == Current.frame
    <2>1. /\ k \in 1 .. Len(posted) /\ Current = posted[k] /\ Current.kind \in Kind /\ g \in Frame
          /\ Current.block \in 0 .. MaxWrites
          /\ wpc = "process" /\ UNCHANGED <<posted, wrote>> /\ Done = tail /\ Done' = k
      BY <1>4, CurrentIsPosted, PostedTask, DoneStep DEF Process, producerVars
    <2>2. f \in Frame /\ r \in 1 .. Len(posted) /\ posted[r].frame = f /\ posted[r].kind = "reset"
      BY <2>1, PostedTask
    <2> HIDE DEF k, g
    <2>3. ASSUME f # g
          PROVE  /\ r \in 1 .. Done /\ states'[f] = states[f]
                 /\ \A j \in 1 .. Len(posted) : posted[j].frame = f => (j <= Done' <=> j <= Done)
      <3>1. states'[f] = states[f]
        BY <1>0, <1>4, <2>1, <2>2, <2>3, ProcessByKind DEF g
      <3>2. \A j \in 1 .. Len(posted) : posted[j].frame = f => j # k
        BY <2>1, <2>3 DEF g
      <3> QED
        BY <1>0, <1>1, <2>1, <2>2, <3>1, <3>2 DEF k
    <2>4. CASE f # g
      <3>1. \A j \in 1 .. Done : j \in 1 .. Done'
        BY <1>1, <2>1 DEF k
      <3>2. PICK n \in 0 .. wrote[f] :
                /\ states[f] = Blocks(n)
                /\ n > 0 => \E j \in 1 .. Done :
                    posted[j].frame = f /\ posted[j].kind = "absorb" /\ posted[j].block = n
        BY <2>2, <2>3, <2>4 DEF Absorbed
      <3>3. \A j \in 1 .. Len(posted) : posted[j].frame = f /\ posted[j].kind = "absorb" =>
                            (j <= Done <=> posted[j].block <= Len(states[f]))
        BY <2>2, <2>3, <2>4 DEF Absorbed
      <3> QED
        BY <2>1, <2>3, <2>4, <3>1, <3>2, <3>3
    <2>5. CASE f = g /\ Current.kind = "reset"
      <3>1. states'[f] = <<>>
        BY <1>0, <1>4, <2>1, <2>2, <2>5, ProcessByKind DEF g
      <3>2. <<>> = Blocks(0)
        BY DEF Blocks
      <3>3. ASSUME NEW j \in 1 .. Len(posted), posted[j].frame = f, posted[j].kind = "absorb"
            PROVE  j > k /\ posted[j].block > 0
        <4>1. posted[j].block > 0 /\ posted[j].block \in Nat
          BY <3>3, PostedBlock
        <4>2. Rank(posted[j]) = posted[j].block
          BY <3>3, PostedBlock
        <4>3. Rank(posted[k]) = 0
          BY <2>1, <2>5 DEF Ordered, Rank
        <4>4. j # k
          BY <2>1, <2>5, <3>3
        <4>5. ~(j < k)
          <5>1. j < k => Rank(posted[j]) < Rank(posted[k])
            BY <2>1, <2>5, <3>3 DEF Ordered, g
          <5> QED
            BY <4>1, <4>2, <4>3, <5>1
        <4> QED
          BY <2>1, <4>1, <4>4, <4>5 DEF k
      <3>4. 0 \in 0 .. wrote[f]
        BY <2>2, HistoryStep
      <3>5. Len(states'[f]) = 0
        BY <3>1
      <3>6. \A j \in 1 .. Len(posted) : posted[j].frame = f /\ posted[j].kind = "absorb" =>
                (j <= Done' <=> posted[j].block <= Len(states'[f]))
        <4> SUFFICES ASSUME NEW j \in 1 .. Len(posted), posted[j].frame = f, posted[j].kind = "absorb"
                     PROVE  ~(j <= Done') /\ ~(posted[j].block <= Len(states'[f]))
          OBVIOUS
        <4>1. j > k /\ posted[j].block > 0 /\ posted[j].block \in Nat
          BY <3>3, PostedBlock
        <4> QED
          BY <1>0, <2>1, <3>5, <4>1 DEF k
      <3> QED
        BY <2>1, <3>1, <3>2, <3>4, <3>6
    <2>6. ASSUME f = g, Current.kind # "reset"
          PROVE  r \in 1 .. Done
      BY <1>0, <1>1, <2>1, <2>2, <2>6 DEF k
    <2>7. CASE f = g /\ Current.kind = "absorb"
      <3> DEFINE b == Current.block
      <3>1. b \in 1 .. wrote[f] /\ b - 1 \in Nat /\ b \in Nat
        BY <2>1, <2>2, <2>7 DEF Ordered, g
      <3>2. states[f] = Blocks(b - 1)
        BY <2>1, <2>7, <3>1, PrefixAbsorbed DEF g
      <3>3. states'[f] = Append(states[f], b)
        BY <1>0, <1>4, <2>1, <2>2, <2>7, ProcessByKind DEF g
      <3> HIDE DEF b
      <3>4. Append(Blocks(b - 1), b) = Blocks(b)
        BY <3>1 DEF Blocks
      <3>5. Len(states[f]) = b - 1 /\ Len(states'[f]) = b
        BY <3>1, <3>2, <3>3, <3>4 DEF Blocks
      <3>6. k \in 1 .. Done' /\ posted[k].frame = f /\ posted[k].kind = "absorb" /\ posted[k].block = b
        BY <2>1, <2>7 DEF g, b
      <3>7. ASSUME NEW j \in 1 .. Len(posted), posted[j].frame = f, posted[j].kind = "absorb"
            PROVE  j <= Done' <=> posted[j].block <= Len(states'[f])
        <4>1. j <= Done <=> posted[j].block <= b - 1
          BY <2>2, <2>6, <2>7, <3>5, <3>7 DEF Absorbed
        <4>2. posted[j].block \in Nat /\ Rank(posted[j]) = posted[j].block /\ Rank(posted[k]) = b
          <5>1. posted[j].block \in Nat /\ Rank(posted[j]) = posted[j].block
            BY <3>7, PostedBlock
          <5>2. Rank(posted[k]) = posted[k].block
            BY <2>1, <3>6, PostedBlock
          <5> QED
            BY <3>6, <5>1, <5>2
        <4>3. k < j => b < posted[j].block
          BY <2>1, <3>6, <3>7, <4>2 DEF Ordered
        <4>4. j = k => posted[j].block = b
          BY <3>6
        <4>5. j \in Nat /\ k \in Nat /\ Done' = k /\ k = Done + 1
          BY <1>1, <2>1 DEF k
        <4>6. CASE j <= Done
          BY <1>1, <3>1, <3>5, <4>1, <4>2, <4>5, <4>6
        <4>7. CASE j = k
          BY <3>1, <3>5, <4>4, <4>5, <4>7
        <4>8. CASE k < j
          BY <3>1, <3>5, <4>2, <4>3, <4>5, <4>8
        <4> QED
          BY <1>1, <4>5, <4>6, <4>7, <4>8
      <3>8. states'[f] = Blocks(b) /\ b \in 0 .. wrote[f]
        BY <3>1, <3>2, <3>3, <3>4
      <3> QED
        BY <2>1, <3>6, <3>7, <3>8
    <2>8. CASE f = g /\ Current.kind = "finish"
      <3>1. states' = states
        BY <1>4, <2>1, <2>8, ProcessByKind
      <3>2. \A j \in 1 .. Len(posted) : posted[j].kind = "absorb" => j # k
        BY <2>1, <2>8
      <3>3. \A j \in 1 .. Len(posted) : posted[j].kind = "absorb" => (j <= Done' <=> j <= Done)
        BY <1>1, <2>1, <3>2 DEF k
      <3>4. \A j \in 1 .. Done : j \in 1 .. Done'
        BY <1>1, <2>1 DEF k
      <3>5. PICK n \in 0 .. wrote[f] :
                /\ states[f] = Blocks(n)
                /\ n > 0 => \E j \in 1 .. Done :
                    posted[j].frame = f /\ posted[j].kind = "absorb" /\ posted[j].block = n
        BY <2>2, <2>6, <2>8 DEF Absorbed
      <3>6. \A j \in 1 .. Len(posted) : posted[j].frame = f /\ posted[j].kind = "absorb" =>
                            (j <= Done <=> posted[j].block <= Len(states[f]))
        BY <2>2, <2>6, <2>8 DEF Absorbed
      <3> QED
        BY <2>1, <3>1, <3>3, <3>4, <3>5, <3>6
    <2> QED
      BY <2>1, <2>4, <2>5, <2>7, <2>8 DEF Kind
  <1> QED
    BY <1>2, <1>3, <1>4

(* The worker keeps what it has carried out, and phases move on only by    *)
(* the calls that end them.                                                *)
LEMMA FinishingStep ==
    ASSUME SidecarInv, SidecarNext
    PROVE  Finishing'
  <1> USE DEF SidecarInv
  <1>0. /\ tail \in Nat /\ head \in Nat /\ MaxWrites \in Nat
        /\ phase \in [Frame -> {"none", "open", "finished", "dropped", "inline"}]
        /\ cell \in [Frame -> BOOLEAN] /\ sum \in [Frame -> Seq(0 .. MaxWrites)] /\ task.frame \in Frame
    <2>1. SidecarTypeOK
      OBVIOUS
    <2>2. /\ tail \in Nat /\ head \in tail .. tail + Ring /\ task \in Task
          /\ phase \in [Frame -> {"none", "open", "finished", "dropped", "inline"}]
          /\ cell \in [Frame -> BOOLEAN] /\ sum \in [Frame -> Seq(0 .. MaxWrites)]
      BY ONLY <2>1 DEF SidecarTypeOK
    <2>3. Ring \in Nat /\ MaxWrites \in Nat
      BY ONLY AsyncChecksumAssumption
    <2>4. head \in Nat
      BY ONLY <2>2, <2>3
    <2>5. task.frame \in Frame
      BY ONLY <2>2 DEF Task
    <2> QED
      BY ONLY <2>2, <2>3, <2>4, <2>5
  <1>1. Done \in Nat /\ Done <= Len(posted) /\ Len(posted) \in Nat
    BY DoneStep
  <1>2. ASSUME NEW i \in 1 .. Len(posted), posted[i].kind = "finish",
               UNCHANGED <<wrote, sum>>, Done' = Done
        PROVE  i <= Done' => sum'[posted[i].frame] = Blocks(wrote'[posted[i].frame])
    BY <1>2 DEF Finishing
  (* Where a finish may be on its way.                                      *)
  <1>3. ASSUME NEW i \in 1 .. Len(posted), posted[i].kind = "finish"
        PROVE  phase'[posted[i].frame] = "open" =>
                    ppc' \in {"publish", "notify", "reply"} /\ task'.frame = posted[i].frame
                        /\ task'.kind = "finish"
    <2> DEFINE f == posted[i].frame
    <2>1. f \in Frame /\ phase[f] # "none"
      BY PostedTask DEF Ordered
    <2>2. phase[f] = "open" => ppc \in {"publish", "notify", "reply"} /\ task.frame = f /\ task.kind = "finish"
      BY <1>3 DEF Finishing
    <2> HIDE DEF f
    <2>3. CASE BeginCall
      BY <1>0, <2>1, <2>2, <2>3 DEF BeginCall, New, Refused, Write, FinishFrame, DropHandle, f
    <2>4. CASE EndCall
      BY <1>0, <2>1, <2>2, <2>4 DEF EndCall, Claim, Store, Publish, Notify, TakeReply, Drain, f
    <2>5. CASE WorkerStep \/ SpuriousWake
      <3>1. UNCHANGED <<phase, ppc, task>>
        BY <2>5 DEF WorkerStep, SpinSees, TakeWake, Recheck, Wait, SpuriousWake, WorkerGoto, Process, Reply,
           Advance, producerVars
      <3> QED
        BY <2>2, <3>1 DEF f
    <2> QED
      BY <2>3, <2>4, <2>5 DEF SidecarNext
  <1>4. \A i \in 1 .. Len(posted') : posted'[i].kind = "finish" =>
            LET f == posted'[i].frame
            IN /\ phase'[f] = "open" =>
                    ppc' \in {"publish", "notify", "reply"} /\ task'.frame = f /\ task'.kind = "finish"
               /\ i <= Done' => sum'[f] = Blocks(wrote'[f])
    <2>1. CASE Store
      <3>1. Done' = Done /\ UNCHANGED <<wrote, sum>>
        BY <2>1, StoreAppends DEF Done
      <3> SUFFICES ASSUME NEW i \in 1 .. Len(posted'), posted'[i].kind = "finish"
                   PROVE  /\ phase'[posted'[i].frame] = "open" =>
                                ppc' \in {"publish", "notify", "reply"} /\ task'.frame = posted'[i].frame
                                    /\ task'.kind = "finish"
                          /\ i <= Done' => sum'[posted'[i].frame] = Blocks(wrote'[posted'[i].frame])
        OBVIOUS
      <3>2. CASE i \in 1 .. Len(posted)
        <4>1. posted'[i] = posted[i]
          BY <2>1, <3>2, StoreAppends
        <4> QED
          BY <1>2, <1>3, <3>1, <3>2, <4>1
      <3>3. CASE i = head + 1
        <4>1. posted'[i] = task /\ ppc' = "publish" /\ task' = task
          BY <2>1, <3>3, StoreAppends DEF Store
        <4>2. ~(i <= Done')
          BY <1>0, <1>1, <2>1, <3>1, <3>3, StoreAppends
        <4> QED
          BY <4>1, <4>2
      <3> QED
        BY <2>1, <3>2, <3>3, StoreAppends
    <2>2. CASE Process
      <3> DEFINE k == tail + 1
      <3>1. /\ k \in 1 .. Len(posted) /\ Current = posted[k] /\ Current.kind \in Kind /\ Current.frame \in Frame
            /\ wpc = "process" /\ UNCHANGED <<posted, wrote, phase, ppc, task>> /\ Done = tail /\ Done' = k
        BY <2>2, CurrentIsPosted, DoneStep DEF Process, producerVars
      <3> HIDE DEF k
      <3> SUFFICES ASSUME NEW i \in 1 .. Len(posted), posted[i].kind = "finish", i <= Done'
                   PROVE  sum'[posted[i].frame] = Blocks(wrote[posted[i].frame])
        BY <1>3, <3>1
      <3> DEFINE f == posted[i].frame
      <3>2. f \in Frame
        BY PostedTask
      <3>3. CASE i = k
        <4>1. states[f] = Blocks(wrote[f])
          <5>1. wrote[f] \in Nat
            BY <3>2, HistoryStep
          <5> QED
            BY <3>1, <3>3, <5>1, PrefixAbsorbed
        <4>2. sum'[f] = states[f]
          BY <1>0, <2>2, <3>1, <3>2, <3>3, ProcessByKind
        <4> QED
          BY <4>1, <4>2
      <3>4. CASE i <= Done
        <4>1. sum[f] = Blocks(wrote[f])
          BY <3>4 DEF Finishing
        <4>2. Current.kind = "finish" => Current.frame # f
          <5> SUFFICES ASSUME Current.kind = "finish", Current.frame = f PROVE FALSE
            OBVIOUS
          <5>1. Rank(posted[i]) < Rank(posted[k])
            BY <1>1, <3>1, <3>4 DEF Ordered, k
          <5>2. Rank(posted[i]) = MaxWrites + 1 /\ Rank(posted[k]) = MaxWrites + 1
            BY <3>1 DEF Rank
          <5> QED
            BY <1>0, <5>1, <5>2
        <4>3. sum'[f] = sum[f]
          BY <1>0, <2>2, <3>1, <3>2, <4>2, ProcessByKind
        <4> QED
          BY <4>1, <4>3
      <3> QED
        BY <1>0, <1>1, <3>1, <3>3, <3>4 DEF k
    <2>3. ASSUME NEW g \in Frame, Write(g)
          PROVE  \A i \in 1 .. Len(posted) : posted[i].kind = "finish" =>
                    (i <= Done' => sum'[posted[i].frame] = Blocks(wrote'[posted[i].frame]))
      <3> SUFFICES ASSUME NEW i \in 1 .. Len(posted), posted[i].kind = "finish", i <= Done'
                   PROVE  sum'[posted[i].frame] = Blocks(wrote'[posted[i].frame])
        OBVIOUS
      <3>1. posted[i].frame \in Frame /\ posted[i].frame # g
        BY <2>3, PostedTask DEF Write, Finishing
      <3>2. wrote'[posted[i].frame] = wrote[posted[i].frame] /\ sum' = sum /\ Done' = Done
        BY <2>3, <3>1 DEF Write, Done, ringVars, SidecarTypeOK
      <3> QED
        BY <3>2 DEF Finishing
    <2>4. CASE ~Store /\ ~Process
      <3>1. posted' = posted /\ Done' = Done /\ sum' = sum
        BY <2>4, DoneStep, HistoryStep
      <3>2. UNCHANGED wrote \/ \E g \in Frame : Write(g)
        BY DEF SidecarNext, BeginCall, EndCall, WorkerStep, New, Refused, FinishFrame, DropHandle, Claim,
           Store, Publish, Notify, TakeReply, Drain, SpinSees, TakeWake, Recheck, Wait, SpuriousWake,
           WorkerGoto, Process, Reply, Advance, producerVars
      <3> QED
        BY <1>2, <1>3, <2>3, <3>1, <3>2
    <2> QED
      BY <2>1, <2>2, <2>4
  <1>5. ASSUME NEW f \in Frame, cell'[f]
        PROVE  \E i \in 1 .. tail' + 1 :
                  /\ i <= Done' /\ posted'[i].frame = f /\ posted'[i].kind = "finish"
                  /\ i = tail' + 1 => wpc' = "advance"
    <2>1. CASE Reply
      <3>1. /\ tail' = tail /\ wpc' = "advance" /\ posted' = posted /\ wpc = "reply"
            /\ cell' = [cell EXCEPT ![Current.frame] = TRUE]
        BY <2>1 DEF Reply, producerVars
      <3>2. Done' = tail + 1 /\ Current = posted[tail + 1]
        BY <3>1, CurrentIsPosted DEF Done
      <3>3. CASE f = Current.frame
        <4>1. tail + 1 \in 1 .. tail' + 1 /\ posted[tail + 1].kind = "finish"
          BY <1>0, <3>1 DEF Finishing
        <4> QED
          BY <1>0, <3>1, <3>2, <3>3, <4>1
      <3>4. CASE cell[f]
        <4> PICK i \in 1 .. tail + 1 :
                  /\ i <= Done /\ posted[i].frame = f /\ posted[i].kind = "finish"
                  /\ i = tail + 1 => wpc = "advance"
          BY <3>4 DEF Finishing
        <4> QED
          BY <1>0, <3>1, <3>2
      <3> QED
        BY <1>0, <1>5, <3>1, <3>3, <3>4
    <2>2. ASSUME ~Reply PROVE cell[f]
      BY <1>5, <2>2 DEF SidecarNext, BeginCall, EndCall, WorkerStep, New, Refused, Write, FinishFrame, DropHandle,
         Claim, Store, Publish, Notify, TakeReply, Drain, SpinSees, TakeWake, Recheck, Wait, SpuriousWake,
         WorkerGoto, Process, Advance, producerVars
    <2>3. CASE ~Reply
      <3>1. PICK i \in 1 .. tail + 1 :
                  /\ i <= Done /\ posted[i].frame = f /\ posted[i].kind = "finish"
                  /\ i = tail + 1 => wpc = "advance"
        BY <2>2, <2>3 DEF Finishing
      <3>2. posted'[i] = posted[i]
        BY <1>1, <3>1, HistoryStep, StoreAppends
      <3>3. CASE Advance
        BY <1>0, <3>1, <3>2, <3>3 DEF Advance, Done
      <3>4. CASE Process
        <4>1. Done' = Done + 1 /\ tail' = tail /\ Done = tail
          BY <3>4, DoneStep
        <4> QED
          BY <1>0, <3>1, <3>2, <4>1
      <3>5. CASE ~Advance /\ ~Process
        <4>1. Done' = Done
          BY <3>5, DoneStep
        <4>2. tail' = tail /\ (wpc = "advance" => wpc' = "advance")
          BY <2>3, <3>5 DEF SidecarNext, BeginCall, EndCall, WorkerStep, New, Refused, Write, FinishFrame,
             DropHandle, Claim, Store, Publish, Notify, TakeReply, Drain, SpinSees, TakeWake, Recheck, Wait,
             SpuriousWake, WorkerGoto, ringVars
        <4> QED
          BY <3>1, <3>2, <4>1, <4>2
      <3> QED
        BY <3>3, <3>4, <3>5
    <2> QED
      BY <2>1, <2>3
  <1>6. ASSUME NEW f \in Frame, phase'[f] = "finished" PROVE cell'[f]
    <2>1. phase[f] = "finished" \/ (TakeReply /\ f = task.frame)
      BY <1>0, <1>6 DEF SidecarNext, BeginCall, EndCall, WorkerStep, New, Refused, Write, FinishFrame, DropHandle,
         Claim, Store, Publish, Notify, TakeReply, Drain, SpinSees, TakeWake, Recheck, Wait, SpuriousWake,
         WorkerGoto, Process, Reply, Advance, producerVars
    <2>2. cell[f]
      BY <2>1 DEF Finishing, TakeReply
    <2>3. cell' = cell \/ cell' = [cell EXCEPT ![Current.frame] = TRUE]
      BY DEF SidecarNext, BeginCall, EndCall, WorkerStep, New, Refused, Write, FinishFrame, DropHandle,
         Claim, Store, Publish, Notify, TakeReply, Drain, SpinSees, TakeWake, Recheck, Wait, SpuriousWake,
         WorkerGoto, Process, Reply, Advance, producerVars
    <2> QED
      BY <1>0, <2>2, <2>3
  <1>7. wpc' = "reply" => posted'[tail' + 1].kind = "finish"
    <2>1. CASE Process
      <3>1. /\ Current = posted[tail + 1] /\ Current.kind \in Kind /\ posted' = posted /\ tail' = tail
        BY <2>1, CurrentIsPosted DEF Process, producerVars
      <3> QED
        BY <2>1, <3>1, ProcessByKind
    <2>2. CASE ~Process
      <3>1. wpc' = "reply" => wpc = "reply" /\ tail' = tail
        BY <2>2 DEF SidecarNext, BeginCall, EndCall, WorkerStep, New, Refused, Write, FinishFrame, DropHandle,
           Claim, Store, Publish, Notify, TakeReply, Drain, SpinSees, TakeWake, Recheck, Wait, SpuriousWake,
           WorkerGoto, Reply, Advance, ringVars
      <3>2. wpc = "reply" => tail + 1 \in 1 .. Len(posted) /\ posted[tail + 1].kind = "finish"
        BY CurrentIsPosted DEF Finishing
      <3>3. wpc = "reply" => posted'[tail + 1] = posted[tail + 1]
        BY <3>2, HistoryStep, StoreAppends
      <3> QED
        BY <3>1, <3>2, <3>3
    <2> QED
      BY <2>1, <2>2
  <1> QED
    BY <1>4, <1>5, <1>6, <1>7 DEF Finishing, Blocks

(* A frame goes away with nothing of its own left to the worker.           *)
LEMMA UptoStep ==
    ASSUME SidecarInv, SidecarNext
    PROVE  Upto'
  <1> USE DEF SidecarInv
  <1>0. /\ tail \in Nat /\ head \in Nat /\ task.frame \in Frame /\ upto \in [Frame -> Nat]
        /\ phase \in [Frame -> {"none", "open", "finished", "dropped", "inline"}]
    BY DEF SidecarTypeOK, Task
  <1>1. \A i \in 1 .. Len(posted) : i \in Nat /\ i <= Len(posted) /\ posted[i].frame \in Frame
    BY PostedTask
  <1>2. CASE Store
    <2>1. /\ Len(posted) = head /\ Len(posted') = head + 1 /\ posted'[head + 1] = task
          /\ \A i \in 1 .. Len(posted) : posted'[i] = posted[i]
          /\ phase[task.frame] = "open" /\ ppc' = "publish"
          /\ UNCHANGED <<head, tail, task, phase, upto>> /\ ppc = "store"
      BY <1>2, StoreAppends DEF Store
    <2>2. ASSUME NEW i \in 1 .. Len(posted')
          PROVE  /\ \/ i <= upto[posted'[i].frame]
                    \/ i = Len(posted') /\ task.frame = posted'[i].frame
                 /\ phase[posted'[i].frame] = "dropped" => i <= tail
      <3>1. CASE i = head + 1
        BY <2>1, <3>1
      <3>2. CASE i \in 1 .. Len(posted)
        BY <2>1, <3>2 DEF Upto
      <3> QED
        BY <1>0, <2>1, <3>1, <3>2
    <2> QED
      BY <2>1, <2>2 DEF Upto
  <1>3. CASE Notify
    <2>1. /\ seq = head - 1 /\ upto' = [upto EXCEPT ![task.frame] = seq + 1] /\ ppc = "notify"
          /\ Len(posted) = head /\ UNCHANGED <<posted, phase, tail, head>>
      BY <1>3 DEF Notify, Length, ringVars
    <2>2. upto'[task.frame] = head /\ \A f \in Frame : f # task.frame => upto'[f] = upto[f]
      BY <1>0, <2>1
    <2>3. ASSUME NEW i \in 1 .. Len(posted) PROVE i <= upto'[posted[i].frame]
      <3>1. CASE posted[i].frame = task.frame
        BY <1>1, <2>1, <2>2, <3>1
      <3>2. CASE posted[i].frame # task.frame
        BY <1>1, <2>2, <3>2 DEF Upto
      <3> QED
        BY <3>1, <3>2
    <2>4. \A f \in Frame : upto'[f] <= head
      BY <1>0, <2>2 DEF Upto
    <2> QED
      BY <2>1, <2>3, <2>4 DEF Upto
  <1>4. CASE Drain
    <2>1. /\ ppc = "drain" /\ tail >= upto[task.frame] /\ phase' = [phase EXCEPT ![task.frame] = "dropped"]
          /\ UNCHANGED <<posted, upto, tail, head>>
      BY <1>4 DEF Drain, ringVars
    <2>2. \A i \in 1 .. Len(posted) : i <= upto[posted[i].frame]
      BY <2>1 DEF Upto
    <2>3. ASSUME NEW i \in 1 .. Len(posted), phase'[posted[i].frame] = "dropped" PROVE i <= tail
      <3>1. CASE posted[i].frame = task.frame
        BY <1>0, <1>1, <2>1, <2>2, <3>1
      <3>2. CASE posted[i].frame # task.frame
        BY <1>0, <1>1, <2>1, <2>3, <3>2 DEF Upto
      <3> QED
        BY <3>1, <3>2
    <2> QED
      BY <2>1, <2>2, <2>3 DEF Upto
  <1>5. CASE /\ UNCHANGED <<posted, upto>> /\ tail <= tail' /\ head <= head' /\ tail' \in Nat /\ head' \in Nat
             /\ \A f \in Frame : phase'[f] = "dropped" => phase[f] = "dropped"
             /\ ppc \in {"publish", "notify"} => ppc' \in {"publish", "notify"} /\ task' = task
    <2>1. ASSUME NEW i \in 1 .. Len(posted)
          PROVE  /\ \/ i <= upto[posted[i].frame]
                    \/ i = Len(posted) /\ ppc' \in {"publish", "notify"} /\ task'.frame = posted[i].frame
                 /\ phase'[posted[i].frame] = "dropped" => i <= tail'
      BY <1>0, <1>1, <1>5 DEF Upto
    <2>2. \A f \in Frame : upto[f] <= head'
      BY <1>0, <1>5 DEF Upto
    <2> QED
      BY <1>5, <2>1, <2>2 DEF Upto
  <1>6. ASSUME NEW f \in Frame, New(f) \/ Refused(f) \/ Write(f) \/ FinishFrame(f) \/ DropHandle(f)
        PROVE  Upto'
    <2>1. UNCHANGED <<posted, upto, tail, head>> /\ ppc = "idle"
      BY <1>6 DEF New, Refused, Write, FinishFrame, DropHandle, ringVars
    <2>2. \A g \in Frame : phase'[g] = "dropped" => phase[g] = "dropped"
      BY <1>0, <1>6 DEF New, Refused, Write, FinishFrame, DropHandle
    <2> QED
      BY <1>0, <1>5, <2>1, <2>2
  <1>7. CASE Claim \/ Publish \/ TakeReply
    <2>1. /\ UNCHANGED <<posted, upto, tail>> /\ head <= head' /\ head' \in Nat
          /\ ppc \in {"publish", "notify"} => ppc' \in {"publish", "notify"} /\ task' = task
      BY <1>0, <1>7 DEF Claim, Publish, TakeReply, ringVars, Length
    <2>2. \A g \in Frame : phase'[g] = "dropped" => phase[g] = "dropped"
      BY <1>0, <1>7 DEF Claim, Publish, TakeReply
    <2> QED
      BY <1>0, <1>5, <2>1, <2>2
  <1>8. CASE WorkerStep \/ SpuriousWake
    <2>1. UNCHANGED <<posted, upto, head, phase, ppc, task>> /\ (tail' = tail \/ tail' = tail + 1)
      BY <1>8 DEF WorkerStep, SpinSees, TakeWake, Recheck, Wait, SpuriousWake, WorkerGoto, Process, Reply,
         Advance, producerVars
    <2> QED
      BY <1>0, <1>5, <2>1
  <1> QED
    BY <1>2, <1>3, <1>4, <1>6, <1>7, <1>8 DEF SidecarNext, BeginCall, EndCall

(* The worker sees a finish of a frame still open: its caller has posted it *)
(* and spins on the reply.                                                  *)
LEMMA FinishAwaited ==
    ASSUME SidecarInv, NEW i \in 1 .. Len(posted), i <= head,
           posted[i].kind = "finish", phase[posted[i].frame] = "open"
    PROVE  ppc \in {"notify", "reply"} /\ task.frame = posted[i].frame
  <1>0. head \in Nat /\ MaxWrites \in Nat
    BY AsyncChecksumAssumption DEF SidecarInv, SidecarTypeOK
  <1>1. ppc \in {"publish", "notify", "reply"} /\ task.frame = posted[i].frame /\ task.kind = "finish"
    BY DEF SidecarInv, Finishing
  <1>2. ASSUME ppc = "publish" PROVE FALSE
    <2>1. posted[head + 1] = task /\ head + 1 \in 1 .. Len(posted)
      BY <1>0, <1>2 DEF SidecarInv, Posting, Length
    <2>2. Rank(posted[i]) < Rank(posted[head + 1])
      BY <1>0, <1>1, <2>1 DEF SidecarInv, Ordered
    <2>3. Rank(posted[i]) = MaxWrites + 1 /\ Rank(posted[head + 1]) = MaxWrites + 1
      BY <1>1, <2>1 DEF Rank
    <2> QED
      BY <1>0, <2>2, <2>3
  <1> QED
    BY <1>1, <1>2

-----------------------------------------------------------------------------
(* The invariant is inductive.                                             *)
LEMMA SidecarInductive == SidecarSpec => []SidecarInv
  <1>1. SidecarInv /\ [SidecarNext]_sidecarVars => SidecarInv'
    <2> SUFFICES ASSUME SidecarInv, [SidecarNext]_sidecarVars PROVE SidecarInv'
      OBVIOUS
    <2>1. CASE SidecarNext
      <3>1. SidecarTypeOK' /\ posted' \in Seq(Task)'
        BY <2>1, SidecarTypeStep
      <3>2. Length' /\ InRing' /\ Posting' /\ Ordered' /\ Complete'
        BY <2>1, LengthStep, InRingStep, PostingStep, OrderedStep, CompleteStep
      <3>3. Absorbed' /\ Finishing' /\ Upto'
        BY <2>1, AbsorbedStep, FinishingStep, UptoStep
      <3> QED
        BY <3>1, <3>2, <3>3 DEF SidecarInv
    <2>2. CASE UNCHANGED sidecarVars
      <3> USE <2>2 DEF SidecarInv, sidecarVars
      <3>1. SidecarTypeOK' /\ posted' \in Seq(Task)'
        BY DEF SidecarTypeOK
      <3>2. Length' /\ InRing' /\ Posting'
        BY DEF Length, InRing, Posting, Rank
      <3>3. Ordered' /\ Complete'
        BY DEF Ordered, Complete, Rank
      <3>4. Absorbed' /\ Finishing' /\ Upto'
        BY DEF Absorbed, Finishing, Upto, Done
      <3> QED
        BY <3>1, <3>2, <3>3, <3>4
    <2> QED
      BY <2>1, <2>2
  <1> QED
    BY SidecarInitInv, <1>1, PTL DEF SidecarSpec

(* The variables of the ring, its worker and its producer keep their types. *)
THEOREM SidecarTypeCorrect == SidecarSpec => []SidecarTypeOK
  <1>1. SidecarInv => SidecarTypeOK
    BY DEF SidecarInv
  <1> QED
    BY <1>1, SidecarInductive, PTL

(* The checksum that finish returns is the one the caller would have       *)
(* computed itself: the frame's blocks, each once and in order, whatever    *)
(* frames are nested in it and however far the worker lags.                 *)
THEOREM SumSafe == SidecarSpec => []SumIsInline
  <1>1. SidecarInv => SumIsInline
    <2> SUFFICES ASSUME SidecarInv, NEW f \in Frame, phase[f] = "finished"
                 PROVE  sum[f] = Blocks(wrote[f])
      BY DEF SumIsInline, Blocks
    <2>1. Done \in Nat /\ Done <= Len(posted)
      BY DEF SidecarInv, SidecarTypeOK, Length, Done
    <2> PICK i \in 1 .. tail + 1 : i <= Done /\ posted[i].frame = f /\ posted[i].kind = "finish"
      BY DEF SidecarInv, Finishing
    <2>2. i \in 1 .. Len(posted)
      BY <2>1
    <2> QED
      BY <2>2 DEF SidecarInv, Finishing
  <1> QED
    BY <1>1, SidecarInductive, PTL

(* No block is read after its frame's handle has gone, and no finish        *)
(* replies to a cell that the caller has left.                              *)
THEOREM BlocksSafe == SidecarSpec => []BlocksOutlived
  <1>1. SidecarInv => BlocksOutlived
    <2> SUFFICES ASSUME SidecarInv, NEW i \in tail .. head - 1, NEW t, t = slots[i % Ring],
                        i > tail \/ wpc # "advance"
                 PROVE  /\ t.kind = "absorb" => phase[t.frame] = "open"
                        /\ t.kind = "finish" =>
                             phase[t.frame] = "open" /\ task.frame = t.frame /\ ppc \in {"notify", "reply"}
      BY DEF BlocksOutlived
    <2>0. tail \in Nat /\ head \in Nat /\ head <= Len(posted)
      BY DEF SidecarInv, SidecarTypeOK, Length
    <2>1. i + 1 \in 1 .. Len(posted) /\ i + 1 > tail /\ i + 1 <= head
      BY <2>0
    <2>2. t = posted[i + 1]
      BY <2>0, <2>1 DEF SidecarInv, InRing
    <2>3. CASE i + 1 > Done
      <3>1. phase[t.frame] = "open"
        BY <2>1, <2>2, <2>3, PendingIsHere
      <3> QED
        BY <2>1, <2>2, <3>1, FinishAwaited
    <2>4. CASE ~(i + 1 > Done)
      <3>1. i = tail /\ wpc = "reply"
        BY <2>0, <2>4 DEF Done
      <3>2. t.kind = "finish"
        BY <2>2, <3>1 DEF SidecarInv, Finishing
      <3>3. t.frame \in Frame /\ ~cell[t.frame]
        <4>1. t.frame \in Frame
          BY <2>1, <2>2, PostedTask DEF SidecarInv
        <4>2. ASSUME cell[t.frame] PROVE FALSE
          <5> PICK k \in 1 .. tail + 1 : /\ posted[k].frame = t.frame /\ posted[k].kind = "finish"
                                         /\ k = tail + 1 => wpc = "advance"
            BY <4>1, <4>2 DEF SidecarInv, Finishing
          <5>1. k < i + 1 /\ k \in 1 .. Len(posted)
            BY <2>0, <2>1, <3>1
          <5>2. Rank(posted[k]) < Rank(posted[i + 1])
            BY <2>1, <2>2, <5>1 DEF SidecarInv, Ordered
          <5>3. Rank(posted[k]) = MaxWrites + 1 /\ Rank(posted[i + 1]) = MaxWrites + 1
            BY <2>2, <3>2 DEF Rank
          <5> QED
            BY <5>2, <5>3, AsyncChecksumAssumption
        <4> QED
          BY <4>1, <4>2
      <3>4. phase[t.frame] # "dropped"
        BY <2>0, <2>1, <2>2, <3>1 DEF SidecarInv, Upto
      <3>5. phase[t.frame] = "open"
        BY <2>1, <2>2, <3>3, <3>4 DEF SidecarInv, Ordered, Finishing
      <3> QED
        BY <2>1, <2>2, <3>2, <3>5, FinishAwaited
    <2> QED
      BY <2>3, <2>4
  <1> QED
    BY <1>1, SidecarInductive, PTL

-----------------------------------------------------------------------------
(* The bulk encoder, whose instance is that of its proofs (BulkMtProofs).   *)
EncoderInv == part = "encoder" => Encoder!BulkInv

LEMMA EncoderKeeps ==
    /\ ThreadsInit => EncoderInv
    /\ EncoderInv /\ [ThreadsNext]_threadsVars => EncoderInv'
    /\ EncoderInv => ScheduleFree
  <1>0. Encoder!BulkMtAssumption
    BY Assumptions
  <1>1. ThreadsInit => EncoderInv
    BY <1>0, Encoder!BulkInit DEF ThreadsInit, EncoderInv
  <1>2. ASSUME EncoderInv, part = "encoder", part' = part, Encoder!Next PROVE EncoderInv'
    BY <1>0, <1>2, Encoder!BulkStep DEF EncoderInv
  <1>3. ASSUME EncoderInv, part' = part, UNCHANGED bulkVars PROVE EncoderInv'
    <2>1. UNCHANGED Encoder!vars
      BY <1>3 DEF bulkVars, Encoder!vars
    <2> QED
      BY <1>0, <1>3, <2>1, Encoder!BulkStutter DEF EncoderInv
  <1>4. EncoderInv /\ [ThreadsNext]_threadsVars => EncoderInv'
    <2> SUFFICES ASSUME EncoderInv, [ThreadsNext]_threadsVars PROVE EncoderInv'
      OBVIOUS
    <2>1. CASE part = "encoder" /\ Encoder!Next /\ UNCHANGED <<part, poolVars, sidecarVars, pieceVars>>
      BY <1>2, <2>1
    <2>2. CASE UNCHANGED <<part, bulkVars>>
      BY <1>3, <2>2
    <2>3. CASE part = "executor" /\ part' = part
      BY <2>3 DEF EncoderInv
    <2> QED
      BY <2>1, <2>2, <2>3 DEF ThreadsNext, threadsVars
  <1>5. EncoderInv => ScheduleFree
    BY Encoder!BulkImplies DEF EncoderInv, ScheduleFree
  <1> QED
    BY <1>1, <1>4, <1>5

(* Which worker takes a job, how far the build or the feed is when it does  *)
(* and when a panic falls never show in the frame that a bulk encode        *)
(* returns: slot by slot it is what the input alone determines, and a panic *)
(* is resumed instead (compress_slice_mt).                                  *)
THEOREM ScheduleSafe == ThreadsSpec => []ScheduleFree
  <1>1. ThreadsInit => EncoderInv
    BY EncoderKeeps
  <1>2. EncoderInv /\ [ThreadsNext]_threadsVars => EncoderInv'
    BY EncoderKeeps
  <1>3. EncoderInv => ScheduleFree
    BY EncoderKeeps
  <1> QED
    BY <1>1, <1>2, <1>3, PTL DEF ThreadsSpec

-----------------------------------------------------------------------------
(* The piece executor, whose instance is that of its proofs (PiecesProofs). *)
ExecutorInv == part = "executor" => Executor!PiecesInv

LEMMA ExecutorKeeps ==
    /\ ThreadsInit => ExecutorInv
    /\ ExecutorInv /\ [ThreadsNext]_threadsVars => ExecutorInv'
    /\ ExecutorInv => ReadsFinal /\ VerdictIsRound /\ OutcomeIsSerial
  <1>0. Executor!PiecesAssumption
    BY Assumptions
  <1>1. ThreadsInit => ExecutorInv
    BY <1>0, Executor!PiecesInit DEF ThreadsInit, ExecutorInv
  <1>2. ASSUME ExecutorInv, part = "executor", part' = part, Executor!Next PROVE ExecutorInv'
    BY <1>0, <1>2, Executor!PiecesStep DEF ExecutorInv
  <1>3. ASSUME ExecutorInv, part' = part, UNCHANGED pieceVars PROVE ExecutorInv'
    <2>1. UNCHANGED Executor!vars
      BY <1>3 DEF pieceVars, Executor!vars, Executor!inputVars, Executor!stageVars, Executor!gridVars,
                  Executor!execVars
    <2> QED
      BY <1>0, <1>3, <2>1, Executor!PiecesStutter DEF ExecutorInv
  <1>4. ExecutorInv /\ [ThreadsNext]_threadsVars => ExecutorInv'
    <2> SUFFICES ASSUME ExecutorInv, [ThreadsNext]_threadsVars PROVE ExecutorInv'
      OBVIOUS
    <2>1. CASE part = "executor" /\ Executor!Next /\ UNCHANGED <<part, poolVars, sidecarVars, bulkVars>>
      BY <1>2, <2>1
    <2>2. CASE UNCHANGED <<part, pieceVars>>
      BY <1>3, <2>2
    <2> QED
      BY <2>1, <2>2 DEF ThreadsNext, threadsVars
  <1>5. ExecutorInv => ReadsFinal /\ VerdictIsRound /\ OutcomeIsSerial
    BY <1>0, Executor!PiecesImply DEF ExecutorInv, ReadsFinal, VerdictIsRound, OutcomeIsSerial
  <1> QED
    BY <1>1, <1>4, <1>5

LEMMA ExecutorStands == ThreadsSpec => []ExecutorInv
  <1>1. ThreadsInit => ExecutorInv
    BY ExecutorKeeps
  <1>2. ExecutorInv /\ [ThreadsNext]_threadsVars => ExecutorInv'
    BY ExecutorKeeps
  <1> QED
    BY <1>1, <1>2, PTL DEF ThreadsSpec

(* A piece in flight reads below its start exactly what in-order execution  *)
(* would read, and only what has been executed; the checksum has absorbed   *)
(* only executed pieces (run_exec).                                         *)
THEOREM ReadsSafe == ThreadsSpec => []ReadsFinal
  <1>1. ExecutorInv => ReadsFinal
    BY ExecutorKeeps
  <1> QED
    BY <1>1, ExecutorStands, PTL

(* Whatever the interleaving of staging, cutting and walking, the caller    *)
(* finds the winner of a verdict over the completely staged frame           *)
(* (try_settle, decode_pieces).                                             *)
THEOREM VerdictSafe == ThreadsSpec => []VerdictIsRound
  <1>1. ExecutorInv => VerdictIsRound
    BY ExecutorKeeps
  <1> QED
    BY <1>1, ExecutorStands, PTL

(* The call succeeds exactly when the serial decoder does, and its size,    *)
(* checksum and output errors are the serial ones (decode_pieces).          *)
THEOREM OutcomeSafe == ThreadsSpec => []OutcomeIsSerial
  <1>1. ExecutorInv => OutcomeIsSerial
    BY ExecutorKeeps
  <1> QED
    BY <1>1, ExecutorStands, PTL

=============================================================================
