---------------------------- MODULE PiecesProofs ----------------------------
(***************************************************************************)
(* Proofs about Pieces, for every set of workers, every set of frames and  *)
(* every job formula: the winner is the one a verdict over the staged frame *)
(* would choose, pieces in flight read only what is final, and the call     *)
(* returns what the serial decoder does.                                    *)
(***************************************************************************)
EXTENDS Pieces, NaturalLemmas, FiniteSetTheorems, TLAPS

-----------------------------------------------------------------------------
(* The inductive invariant.                                                 *)

Label == {"top", "claim", "stage", "validate", "gate", "exec", "verdict", "left",
          "stageError", "verdictTaken", "install", "join", "returned"}
Result == {"none", "aborted", "ok", "stage", "exec", "place", "size", "sum", "panic"}
GridState == [alive : BOOLEAN, cut : Nat, nextValidate : Nat, validated : Nat,
              tops : UNION {[0 .. n - 1 -> Nat] : n \in Nat}]

TypeOK ==
    /\ \E f \in Frames : frame = Laid(f)
    /\ staging \in [Seg -> {"ok", "err", "panic"}] /\ placeOk \in BOOLEAN /\ sumOk \in BOOLEAN
    /\ phase \in {"staging", "execute", "serial"} /\ aborting \in BOOLEAN /\ poison \in BOOLEAN
    /\ slots \in [Seg -> {"pending", "ok", "failed"}]
    /\ stagedCount \in Nat /\ nextStage \in 1 .. NSeg + 1 /\ stageErrors \subseteq Seg
    /\ contig \in 0 .. NSeg
    /\ grids \in [Candidates -> GridState]
    /\ winner \in Candidates \cup {0} /\ allDead \in BOOLEAN /\ stageFailed \in BOOLEAN
    /\ pieces \in Candidates \cup {0} /\ nextPiece \in Nat /\ done \subseteq Nat
    /\ watermarkPiece \in Nat /\ absorbNext \in Nat /\ execErr \in BOOLEAN
    /\ onCv \subseteq Thread /\ parked \in BOOLEAN
    /\ pc \in [Thread -> Label]
    /\ job \in [Thread -> [grid : Candidates \cup {0}, id : Nat]]
    /\ res \in Result

(* The jobs of grid g that threads at label are busy with: no two threads   *)
(* have the same.                                                           *)
Busy(label, g) == {job[t].id : t \in {x \in Thread : pc[x] = label /\ job[x].grid = g}}
Alone == \A t, u \in Thread :
    /\ \/ pc[t] = "stage" /\ pc[u] = "stage"
       \/ pc[t] = "validate" /\ pc[u] = "validate"
       \/ pc[t] \in {"gate", "exec"} /\ pc[u] \in {"gate", "exec"}
    /\ job[t] = job[u]
    => t = u

(* A segment is staged once it is claimed and nobody is busy with it.       *)
Finished(s) == s < nextStage /\ s \notin Busy("stage", 0)

StagingInv ==
    /\ stagedCount + Cardinality(Busy("stage", 0)) = nextStage - 1
    /\ \A t \in Thread : pc[t] = "stage" => job[t].grid = 0 /\ job[t].id \in 1 .. nextStage - 1
    /\ \A s \in Seg :
        /\ slots[s] = "ok" <=> Finished(s) /\ staging[s] = "ok"
        /\ slots[s] = "failed" <=> Finished(s) /\ staging[s] = "err"
        /\ s \in stageErrors <=> slots[s] = "failed"
        /\ Finished(s) /\ staging[s] = "panic" => aborting
    /\ stageFailed <=> stageErrors # {}
    /\ \A s \in 1 .. contig : slots[s] = "ok"
    /\ ~aborting /\ ~stageFailed /\ contig < NSeg => slots[contig + 1] # "ok"

FaultInv ==
    /\ poison => Panics
    /\ execErr => phase = "execute" /\ \E i \in DOMAIN frame.table : frame.table[i].exec = "err"
    /\ aborting => poison \/ execErr \/ pc[Caller] \in {"join", "returned"}

(* Multiple k of job size j is a block start; the pieces in a staged prefix *)
(* that ends at pos.                                                        *)
OnBlock(j, k) == k * j \in {frame.table[i].start : i \in DOMAIN frame.table}
Inside(j, pos) == {k \in 0 .. NPieces(j) - 1 : End(j, k) <= pos}

Recorded(j, k) == ValidatePiece(j, k).ok /\ grids[j].tops[k] = ValidatePiece(j, k).top

(* What the round form asks of a grid.                                      *)
Usable(j) ==
    /\ \A k \in 1 .. NPieces(j) - 1 : OnBlock(j, k)
    /\ \A k \in 0 .. NPieces(j) - 1 : ValidatePiece(j, k).ok
    /\ \A k \in 1 .. NPieces(j) - 1 : LagDeep(j, k, ValidatePiece(j, k).top)

GridInv(j) ==
    /\ grids[j].cut <= NPieces(j) /\ grids[j].nextValidate <= grids[j].cut
    /\ grids[j].tops \in [0 .. grids[j].cut - 1 -> Nat]
    /\ grids[j].validated + Cardinality(Busy("validate", j)) = grids[j].nextValidate
    /\ Busy("validate", j) \subseteq 0 .. grids[j].nextValidate - 1
    /\ grids[j].alive =>
        /\ grids[j].cut = Cardinality(Inside(j, StagedPos(contig)))
        /\ \A k \in 1 .. NPieces(j) - 1 : Start(j, k) < StagedPos(contig) => OnBlock(j, k)
        /\ \A k \in 0 .. grids[j].nextValidate - 1 : k \notin Busy("validate", j) => Recorded(j, k)
    /\ ~grids[j].alive => stageFailed \/ StagedPos(NSeg) # Fcs \/ ~Usable(j)

WinnerInv ==
    /\ winner # 0 =>
        /\ FullyWalked(grids[winner], winner)
        /\ \A k \in 0 .. NPieces(winner) - 1 : Recorded(winner, k)
        /\ Usable(winner)
        /\ StagedPos(contig) >= Fcs
        /\ \A j \in Candidates : j < winner => ~grids[j].alive
    /\ allDead => \A j \in Candidates : ~grids[j].alive
    /\ stagedCount = NSeg /\ ~aborting /\ ~stageFailed /\ StagedPos(NSeg) # Fcs =>
        winner = 0 /\ \A j \in Candidates : ~grids[j].alive

(* The verdict is taken only once everything is staged.                     *)
VerdictInv ==
    /\ pc[Caller] \in {"top", "stage"} => phase = "staging"
    /\ pc[Caller] \in {"stageError", "verdictTaken", "install"} =>
        /\ phase = "staging" /\ stagedCount = NSeg /\ ~aborting
        /\ winner # 0 \/ allDead \/ stageFailed
    /\ pc[Caller] \in {"verdictTaken", "install"} \/ phase # "staging" =>
        /\ stagedCount = NSeg /\ StagedOk /\ winner = RoundWinner
        /\ winner # 0 \/ allDead
    /\ pc[Caller] = "install" \/ phase = "execute" => winner # 0 /\ placeOk

ExecInv ==
    /\ \A t \in Thread : pc[t] \in {"gate", "exec"} =>
        /\ phase = "execute" /\ job[t].grid = pieces
        /\ job[t].id < nextPiece /\ job[t].id \notin done
    /\ pc[Caller] \in {"claim", "gate", "exec", "verdict"} => phase = "execute"
    /\ pc[Caller] # "validate" /\ \A t \in Thread : pc[t] = "validate" => job[t].grid \in Candidates
    /\ pieces = IF phase = "execute" THEN winner ELSE 0
    /\ phase # "execute" => done = {} /\ absorbNext = 0
    /\ phase = "execute" =>
        /\ nextPiece <= NPieces(pieces) /\ done \subseteq 0 .. nextPiece - 1
        /\ \A k \in done : frame.piece[pieces][k].exec = "ok"
        /\ 0 .. watermarkPiece - 1 \subseteq done /\ watermarkPiece \notin done
    /\ 0 .. absorbNext - 1 \subseteq done
    /\ \A t \in Thread : pc[t] = "exec" => Watermark >= grids[pieces].tops[job[t].id]

OutcomeInv ==
    /\ phase = "serial" => pc[Caller] \in {"join", "returned"}
    /\ pc[Caller] \in {"join", "returned"} =>
        /\ res # "none"
        /\ res = "aborted" => poison /\ pc[Caller] = "join"
        /\ res = "ok" => StagedOk /\ SerialResult = "ok"
        /\ res \in {"place", "size", "sum"} => res = SerialResult
        /\ res = "exec" => frame.serial # "ok"
        /\ res = "stage" => \E s \in Seg : staging[s] = "err"
        /\ res = "panic" => Panics

PiecesInv ==
    /\ TypeOK /\ Alone /\ StagingInv /\ FaultInv
    /\ \A j \in Candidates : GridInv(j)
    /\ WinnerInv /\ VerdictInv /\ ExecInv /\ OutcomeInv

-----------------------------------------------------------------------------
(* The pieces of a grid tile the pledge.                                    *)

LEMMA PiecesCover ==
    ASSUME NEW fcs \in Nat \ {0}, NEW j \in Nat \ {0}
    PROVE  /\ DivCeil(fcs, j) \in Nat \ {0}
           /\ (DivCeil(fcs, j) - 1) * j < fcs /\ fcs <= DivCeil(fcs, j) * j
  <1> DEFINE a == fcs + j - 1
             n == a \div j
  <1>1. a \in Nat /\ j \in Nat /\ j > 0
    OBVIOUS
  <1>2. n \in Nat /\ j * n <= a /\ a < j * n + j
    BY <1>1, Division
  <1>3. n # 0
    BY <1>2
  <1> HIDE DEF n
  <1>4. (n - 1) * j = j * n - j /\ n * j = j * n /\ j * n \in Nat
    BY <1>2
  <1>5. (n - 1) * j < fcs /\ fcs <= n * j
    BY <1>2, <1>4
  <1> QED
    BY <1>2, <1>3, <1>5 DEF DivCeil, n

LEMMA GridFacts ==
    ASSUME Fcs \in Nat \ {0}, NEW j \in Nat \ {0}
    PROVE  /\ NPieces(j) \in Nat \ {0}
           /\ \A k \in Nat : Start(j, k) \in Nat /\ End(j, k) \in Nat
           /\ Start(j, 0) = 0
           /\ \A k \in 0 .. NPieces(j) - 1 :
                /\ Start(j, k) < End(j, k) /\ End(j, k) <= Fcs
                /\ End(j, k) = IF k = NPieces(j) - 1 THEN Fcs ELSE Start(j, k + 1)
           /\ \A k, l \in Nat : k <= l => Start(j, k) <= Start(j, l)
  <1> DEFINE n == NPieces(j)
  <1>1. n \in Nat \ {0} /\ (n - 1) * j < Fcs /\ Fcs <= n * j
    BY PiecesCover DEF NPieces
  <1>2. ASSUME NEW k \in Nat, NEW l \in Nat, k <= l PROVE k * j <= l * j
    BY <1>2
  <1>3. ASSUME NEW k \in Nat PROVE k * j \in Nat /\ (k + 1) * j \in Nat /\ (k + 1) * j = k * j + j
    BY <1>3
  <1>4. 0 * j = 0
    OBVIOUS
  <1> HIDE DEF n
  <1>5. ASSUME NEW k \in 0 .. n - 1
        PROVE  /\ Start(j, k) < End(j, k) /\ End(j, k) <= Fcs
               /\ End(j, k) = IF k = n - 1 THEN Fcs ELSE Start(j, k + 1)
    <2>1. k \in Nat /\ k * j \in Nat /\ (k + 1) * j \in Nat /\ (k + 1) * j = k * j + j
      BY <1>3
    <2>2. CASE k = n - 1
      <3>1. k + 1 = n
        BY <1>1, <2>2
      <3>2. k * j < Fcs /\ Fcs <= (k + 1) * j
        BY <1>1, <2>2, <3>1
      <3> QED
        BY <2>1, <2>2, <3>2 DEF Start, End, Low
    <2>3. CASE k # n - 1
      <3>1. k + 1 <= n - 1 /\ k + 1 \in Nat /\ n - 1 \in Nat
        BY <1>1, <2>3
      <3>2. (k + 1) * j <= (n - 1) * j /\ (n - 1) * j \in Nat
        BY <1>2, <1>3, <3>1
      <3>3. (k + 1) * j < Fcs
        BY <1>1, <2>1, <3>2
      <3> QED
        BY <2>1, <2>3, <3>3 DEF Start, End, Low
    <2> QED
      BY <2>2, <2>3
  <1>6. ASSUME NEW k \in Nat PROVE Start(j, k) \in Nat /\ End(j, k) \in Nat
    BY <1>3 DEF Start, End, Low
  <1> QED
    BY <1>1, <1>2, <1>4, <1>5, <1>6 DEF Start, n

LEMMA PieceAt ==
    ASSUME Fcs \in Nat \ {0}, NEW j \in Nat \ {0}, NEW x \in Nat, x < Fcs
    PROVE  \E k \in 0 .. NPieces(j) - 1 : Start(j, k) <= x /\ x < End(j, k)
  <1> DEFINE T == {k \in 0 .. NPieces(j) - 1 : Start(j, k) <= x}
  <1>1. /\ NPieces(j) \in Nat \ {0} /\ Start(j, 0) = 0
        /\ \A k \in 0 .. NPieces(j) - 1 :
            End(j, k) = IF k = NPieces(j) - 1 THEN Fcs ELSE Start(j, k + 1)
        /\ \A k \in Nat : Start(j, k) \in Nat
    BY GridFacts
  <1>2. 0 \in T /\ T \subseteq 0 .. NPieces(j) - 1 /\ NPieces(j) - 1 \in Nat
    BY <1>1
  <1>3. PICK k \in T : \A y \in T : y <= k
    BY <1>2, GreatestElement
  <1>4. CASE k = NPieces(j) - 1
    BY <1>1, <1>3, <1>4
  <1>5. CASE k # NPieces(j) - 1
    <2>1. k + 1 \in 0 .. NPieces(j) - 1 /\ ~(k + 1 <= k)
      BY <1>1, <1>3, <1>5
    <2>2. k + 1 \notin T
      BY <1>3, <2>1
    <2>3. x < Start(j, k + 1)
      BY <1>1, <2>1, <2>2
    <2> QED
      BY <1>1, <1>3, <1>5, <2>3
  <1> QED
    BY <1>4, <1>5

(* The pieces inside a prefix are the first ones.                           *)
LEMMA InsideIs ==
    ASSUME Fcs \in Nat \ {0}, NEW j \in Nat \ {0}, NEW pos \in Nat
    PROVE  /\ Cardinality(Inside(j, pos)) \in 0 .. NPieces(j)
           /\ \A k \in 0 .. NPieces(j) - 1 : End(j, k) <= pos <=> k < Cardinality(Inside(j, pos))
  <1> DEFINE n == NPieces(j)
             T == {k \in 0 .. n - 1 : ~(End(j, k) <= pos)}
  <1>1. n \in Nat \ {0} /\ (\A k \in Nat : End(j, k) \in Nat /\ Start(j, k) \in Nat)
    BY GridFacts
  <1>2. ASSUME NEW k \in 0 .. n - 1, NEW l \in 0 .. n - 1, k <= l PROVE End(j, k) <= End(j, l)
    <2>1. /\ End(j, l) <= Fcs
          /\ End(j, k) = (IF k = n - 1 THEN Fcs ELSE Start(j, k + 1))
          /\ End(j, l) = (IF l = n - 1 THEN Fcs ELSE Start(j, l + 1))
          /\ End(j, k) <= Fcs
      BY GridFacts
    <2>2. k # n - 1 => Start(j, k + 1) <= Start(j, l + 1)
      <3>1. k + 1 \in Nat /\ l + 1 \in Nat /\ k + 1 <= l + 1
        BY <1>2
      <3> QED
        BY <3>1, GridFacts
    <2>3. k = n - 1 => l = n - 1
      BY <1>1, <1>2
    <2> QED
      BY <1>1, <2>1, <2>2, <2>3
  <1>3. \E m \in 0 .. n : \A k \in 0 .. n - 1 : End(j, k) <= pos <=> k < m
    <2>1. CASE T = {}
      <3>1. \A k \in 0 .. n - 1 : End(j, k) <= pos /\ k < n
        BY <1>1, <2>1
      <3> QED
        BY <1>1, <3>1
    <2>2. CASE T # {}
      <3>1. PICK m \in T : \A y \in T : m <= y
        <4>1. T \subseteq Nat
          OBVIOUS
        <4> QED
          BY <2>2, <4>1, LeastElement
      <3>2. ASSUME NEW k \in 0 .. n - 1 PROVE End(j, k) <= pos <=> k < m
        <4>1. m \in 0 .. n - 1 /\ ~(End(j, m) <= pos)
          BY <3>1
        <4>2. m <= k => End(j, m) <= End(j, k)
          BY <1>2, <4>1
        <4>3. End(j, k) \in Nat /\ End(j, m) \in Nat
          BY <1>1, <4>1
        <4>4. m <= k => ~(End(j, k) <= pos)
          BY <4>1, <4>2, <4>3
        <4>5. k < m => k \notin T
          BY <3>1, <4>1
        <4> QED
          BY <4>1, <4>4, <4>5
      <3>3. m \in 0 .. n
        BY <1>1, <3>1
      <3> QED
        BY <3>2, <3>3
    <2> QED
      BY <2>1, <2>2
  <1>4. PICK m \in 0 .. n : \A k \in 0 .. n - 1 : End(j, k) <= pos <=> k < m
    BY <1>3
  <1>5. Inside(j, pos) = 0 .. m - 1
    BY <1>1, <1>4 DEF Inside
  <1>6. Cardinality(0 .. m - 1) = m
    <2>1. m - 1 \in Int /\ 0 \in Int /\ Cardinality(0 .. m - 1) = IF 0 > m - 1 THEN 0 ELSE (m - 1) - 0 + 1
      BY <1>4, FS_Interval
    <2> QED
      BY <1>4, <2>1
  <1> QED
    BY <1>4, <1>5, <1>6

-----------------------------------------------------------------------------
(* The block table.                                                         *)

LEMMA MaxIs ==
    ASSUME NEW b \in Nat, NEW S, S \subseteq Int, \A y \in S : y <= b, 0 \in S
    PROVE  Max(S) \in S /\ Max(S) \in Nat /\ \A y \in S : y <= Max(S)
  <1> DEFINE T == S \cap (0 .. b)
  <1>1. T \subseteq 0 .. b /\ T # {}
    OBVIOUS
  <1>2. PICK m \in T : \A y \in T : y <= m
    BY <1>1, GreatestElement
  <1>3. m \in S /\ m >= 0 /\ \A y \in S : m >= y
    BY <1>2
  <1> DEFINE x == Max(S)
  <1>4. x \in S /\ \A y \in S : x >= y
    BY <1>3 DEF Max
  <1> HIDE DEF x
  <1>5. x \in Int /\ (\A y \in S : y \in Int) /\ x >= 0
    BY <1>4
  <1>6. x \in Nat /\ \A y \in S : y <= x
    BY <1>4, <1>5
  <1> QED
    BY <1>4, <1>6 DEF x

LEMMA MinIs ==
    ASSUME NEW S, S \subseteq Nat, S # {}
    PROVE  Min(S) \in S /\ \A y \in S : Min(S) <= y
  <1>1. PICK m \in S : \A y \in S : m =< y
    BY LeastElement
  <1> QED
    BY <1>1 DEF Min

LEMMA LastIs ==
    ASSUME NEW b \in Nat, NEW S, S \subseteq 1 .. b, S # {}
    PROVE  Max(S) \in S /\ \A y \in S : y <= Max(S)
  <1>1. S \subseteq 0 .. b
    OBVIOUS
  <1>2. PICK m \in S : \A y \in S : y <= m
    BY <1>1, GreatestElement
  <1>3. m \in S /\ \A y \in S : m >= y
    BY <1>2
  <1>4. Max(S) \in S /\ \A y \in S : Max(S) >= y
    BY <1>3 DEF Max
  <1> QED
    BY <1>4

LEMMA TableTyped ==
    ASSUME NEW f, FrameOK(f)
    PROVE  /\ Len(f.table) \in Nat /\ DOMAIN f.table = 1 .. Len(f.table)
           /\ f.fcs \in Nat \ {0} /\ f.fcs < Unset /\ f.nSeg \in Nat \ {0}
           /\ \A i \in DOMAIN f.table :
                /\ f.table[i].seg \in 1 .. f.nSeg
                /\ f.table[i].start \in Nat /\ f.table[i].out \in Nat
                /\ f.table[i].off \in Nat \cup {Rep}
                /\ f.table[i].exec \in {"ok", "err", "panic"}
                /\ f.table[i].out = 0 => f.table[i].off = 0 /\ f.table[i].exec = "ok"
  <1> DEFINE R == [seg : 1 .. f.nSeg, start : Nat, out : Nat, off : Nat \cup {Rep},
                   exec : {"ok", "err", "panic"}]
             s == f.table
  <1>1. s \in Seq(R) /\ f.fcs \in Nat \ {0} /\ f.fcs < Unset /\ f.nSeg \in Nat \ {0}
    BY DEF FrameOK
  <1>2. \A i \in 1 .. Len(s) : s[i].out = 0 => s[i].off = 0 /\ s[i].exec = "ok"
    BY DEF FrameOK
  <1>3. \A r \in R : /\ r.seg \in 1 .. f.nSeg /\ r.start \in Nat /\ r.out \in Nat
                     /\ r.off \in Nat \cup {Rep} /\ r.exec \in {"ok", "err", "panic"}
    OBVIOUS
  <1> HIDE DEF R, s
  <1>4. Len(s) \in Nat /\ DOMAIN s = 1 .. Len(s) /\ \A i \in 1 .. Len(s) : s[i] \in R
    BY <1>1
  <1>5. \A i \in DOMAIN s :
            /\ s[i].seg \in 1 .. f.nSeg /\ s[i].start \in Nat /\ s[i].out \in Nat
            /\ s[i].off \in Nat \cup {Rep} /\ s[i].exec \in {"ok", "err", "panic"}
            /\ s[i].out = 0 => s[i].off = 0 /\ s[i].exec = "ok"
    BY <1>2, <1>3, <1>4
  <1> QED
    BY <1>1, <1>4, <1>5 DEF s

(* Blocks follow one another.                                               *)
LEMMA TableOrder ==
    ASSUME NEW f, FrameOK(f)
    PROVE  \A i, l \in DOMAIN f.table : i < l =>
                /\ f.table[i].start + f.table[i].out <= f.table[l].start
                /\ f.table[i].seg <= f.table[l].seg
  <1> DEFINE t == f.table
             n == Len(t)
             Follows(i, l) == t[i].start + t[i].out <= t[l].start /\ t[i].seg <= t[l].seg
             S == {l \in Nat : l <= n => \A i \in 1 .. l - 1 : Follows(i, l)}
  <1>1. /\ n \in Nat /\ DOMAIN t = 1 .. n
        /\ \A i \in 1 .. n : t[i].start \in Nat /\ t[i].out \in Nat /\ t[i].seg \in Nat
    BY TableTyped
  <1>2. \A i \in 1 .. n - 1 : t[i + 1].start = t[i].start + t[i].out /\ t[i].seg <= t[i + 1].seg
    BY DEF FrameOK
  <1> HIDE DEF n, t
  <1>3. 0 \in S
    BY DEF Follows
  <1>4. ASSUME NEW l \in Nat, l \in S PROVE l + 1 \in S
    <2> SUFFICES ASSUME l + 1 <= n, NEW i \in 1 .. l PROVE Follows(i, l + 1)
      OBVIOUS
    <2>1. l \in 1 .. n - 1 /\ l <= n /\ l \in 1 .. n /\ l + 1 \in 1 .. n /\ i \in 1 .. n
      BY <1>1
    <2>2. Follows(l, l + 1)
      BY <1>1, <1>2, <2>1
    <2>3. i = l \/ Follows(i, l)
      BY <1>4, <2>1
    <2>4. CASE i = l
      BY <2>2, <2>4
    <2>5. CASE Follows(i, l)
      <3>1. /\ t[i].start \in Nat /\ t[i].out \in Nat /\ t[i].seg \in Nat
            /\ t[l].start \in Nat /\ t[l].out \in Nat /\ t[l].seg \in Nat
            /\ t[l + 1].start \in Nat /\ t[l + 1].out \in Nat /\ t[l + 1].seg \in Nat
        BY <1>1, <2>1
      <3> QED
        BY <2>2, <2>5, <3>1
    <2> QED
      BY <2>3, <2>4, <2>5
  <1> HIDE DEF S
  <1>5. Nat \subseteq S
    BY <1>3, <1>4, SetInduction
  <1>6. ASSUME NEW i \in DOMAIN t, NEW l \in DOMAIN t, i < l PROVE Follows(i, l)
    <2>1. l \in Nat /\ l <= n /\ i \in 1 .. l - 1
      BY <1>1, <1>6
    <2> QED
      BY <1>5, <2>1 DEF S
  <1> QED
    BY <1>6 DEF t

(* The output of the first n segments ends behind each of their blocks, at  *)
(* or before each of the others.                                            *)
LEMMA EndIs ==
    ASSUME NEW f, FrameOK(f), NEW n \in Nat
    PROVE  /\ EndOf(f.table, n) \in Nat
           /\ \A i \in DOMAIN f.table : f.table[i].seg <= n =>
                f.table[i].start + f.table[i].out <= EndOf(f.table, n)
           /\ \A i \in DOMAIN f.table : ~(f.table[i].seg <= n) =>
                EndOf(f.table, n) <= f.table[i].start
           /\ EndOf(f.table, n) # 0 => \E i \in DOMAIN f.table :
                f.table[i].seg <= n /\ EndOf(f.table, n) = f.table[i].start + f.table[i].out
  <1> DEFINE t == f.table
             last(i) == t[i].start + t[i].out
             S == {0} \cup {last(i) : i \in {x \in DOMAIN t : t[x].seg <= n}}
  <1>1. /\ Len(t) \in Nat /\ DOMAIN t = 1 .. Len(t)
        /\ \A i \in DOMAIN t : t[i].start \in Nat /\ t[i].out \in Nat /\ t[i].seg \in Nat
    BY TableTyped
  <1>2. \A i, l \in DOMAIN t : i < l => last(i) <= t[l].start /\ t[i].seg <= t[l].seg
    BY TableOrder
  <1> HIDE DEF t
  <1>3. \E b \in Nat : \A y \in S : y <= b
    <2>1. CASE Len(t) = 0
      BY <1>1, <2>1
    <2>2. CASE Len(t) # 0
      <3> DEFINE z == Len(t)
      <3>1. z \in DOMAIN t /\ last(z) \in Nat
        BY <1>1, <2>2
      <3>2. ASSUME NEW i \in DOMAIN t PROVE last(i) <= last(z) /\ last(i) \in Nat
        <4>1. i \in Nat /\ i <= z /\ z \in Nat
          BY <1>1
        <4>2. i < z \/ i = z
          BY <4>1
        <4>3. i < z => last(i) <= t[z].start
          BY <1>2, <3>1
        <4> HIDE DEF z
        <4>4. t[i].start \in Nat /\ t[i].out \in Nat /\ t[z].start \in Nat /\ t[z].out \in Nat
          BY <1>1, <3>1
        <4> QED
          BY <4>2, <4>3, <4>4
      <3> HIDE DEF last, z
      <3>3. \A y \in S : y <= last(z)
        BY <3>1, <3>2
      <3> QED
        BY <3>1, <3>3
    <2> QED
      BY <2>1, <2>2
  <1>4. PICK b \in Nat : \A y \in S : y <= b
    BY <1>3
  <1>5. S \subseteq Int /\ 0 \in S
    BY <1>1
  <1> DEFINE m == Max(S)
  <1>6. m \in S /\ m \in Nat /\ \A y \in S : y <= m
    <2> HIDE DEF S
    <2> QED
      BY <1>4, <1>5, MaxIs
  <1>7. EndOf(t, n) = m
    BY DEF EndOf
  <1> HIDE DEF m
  <1>8. m # 0 => \E i \in DOMAIN t : t[i].seg <= n /\ m = last(i)
    BY <1>6
  <1>9. ASSUME NEW i \in DOMAIN t, t[i].seg <= n PROVE last(i) <= m
    BY <1>6, <1>9
  <1>10. ASSUME NEW i \in DOMAIN t, ~(t[i].seg <= n) PROVE m <= t[i].start
    <2>1. CASE m = 0
      BY <1>1, <2>1
    <2>2. CASE m # 0
      <3>1. PICK l \in DOMAIN t : t[l].seg <= n /\ m = last(l)
        BY <1>6, <2>2
      <3>2. i \in Nat /\ l \in Nat /\ t[l].seg \in Nat /\ t[i].seg \in Nat
        BY <1>1
      <3>3. ~(t[i].seg <= t[l].seg)
        BY <1>10, <3>1, <3>2
      <3>4. i # l
        BY <3>2, <3>3
      <3>5. l < i
        BY <1>2, <3>2, <3>3, <3>4
      <3> QED
        BY <1>2, <3>1, <3>5
    <2> QED
      BY <2>1, <2>2
  <1> QED
    BY <1>6, <1>7, <1>9, <1>10, <1>8 DEF t

-----------------------------------------------------------------------------
(* Walks.                                                                   *)

Known(table, blks, i) == {x \in blks : x <= i /\ table[x].off \notin {0, Rep}}

LEMMA OffsetIs ==
    ASSUME NEW f, FrameOK(f), NEW blks, blks \subseteq DOMAIN f.table, NEW hist \in Nat,
           NEW i \in DOMAIN f.table
    PROVE  /\ Offset(f.table, blks, hist, i) \in Nat
           /\ Known(f.table, blks, i) = {} => Offset(f.table, blks, hist, i) = hist
           /\ Known(f.table, blks, i) # {} =>
                Offset(f.table, blks, hist, i) = f.table[Max(Known(f.table, blks, i))].off
           /\ Source(f.table, blks, hist, i) \in Int
  <1> DEFINE t == f.table
             K == Known(t, blks, i)
  <1>1. /\ Len(t) \in Nat /\ DOMAIN t = 1 .. Len(t) /\ t[i].start \in Nat
        /\ \A x \in DOMAIN t : t[x].off \in Nat \cup {Rep}
    BY TableTyped
  <1>2. K # {} => Max(K) \in K
    <2>1. K \subseteq 1 .. Len(t)
      BY <1>1 DEF Known
    <2> HIDE DEF K
    <2> QED
      BY <1>1, <2>1, LastIs
  <1>3. K # {} => t[Max(K)].off \in Nat
    <2>1. \A x \in K : t[x].off \in Nat
      BY <1>1 DEF Known
    <2> QED
      BY <1>2, <2>1
  <1>4. Offset(t, blks, hist, i) = IF K = {} THEN hist ELSE t[Max(K)].off
    BY DEF Offset, Known
  <1>5. Offset(t, blks, hist, i) \in Nat
    BY <1>3, <1>4
  <1>6. Source(t, blks, hist, i) \in Int
    BY <1>1, <1>5 DEF Source
  <1> QED
    BY <1>4, <1>5, <1>6

(* What a walk measures bounds what it reads.                               *)
LEMMA WalkIs ==
    ASSUME PiecesAssumption, NEW f, FrameOK(f), NEW blks, blks \subseteq DOMAIN f.table,
           NEW start \in Nat
    PROVE  /\ Walk(f.table, blks, start).ok \in BOOLEAN
           /\ Walk(f.table, blks, start).top \in Nat
           /\ Walk(f.table, blks, start).ok =>
                \A x \in Walk(f.table, blks, start).reads :
                    x \in Nat /\ x < Walk(f.table, blks, start).top /\ x < start
  <1> DEFINE t == f.table
             w == Walk(t, blks, start)
             src(i) == Source(t, blks, IF start = 0 THEN 1 ELSE Unset, i)
             matches == {i \in blks : t[i].off # 0}
             crosses == {i \in matches : src(i) < start}
             S == {0} \cup {Low(src(i) + t[i].out + Slack, start) : i \in crosses}
             Reads(i) == {x \in src(i) .. src(i) + t[i].out - 1 : x < start}
  <1>1. /\ w.ok = \A i \in matches : src(i) >= 0
        /\ w.top = Max(S)
        /\ w.reads = UNION {Reads(i) : i \in crosses}
    BY DEF Walk
  <1>2. \A i \in blks : src(i) \in Int /\ t[i].out \in Nat
    <2>1. (IF start = 0 THEN 1 ELSE Unset) \in Nat
      BY DEF Unset
    <2> QED
      BY <2>1, OffsetIs, TableTyped
  <1>3. Slack \in Nat
    BY DEF PiecesAssumption
  <1> HIDE DEF w, src, t
  <1>4. ASSUME NEW y \in S PROVE y \in Int /\ y <= start
    <2>1. CASE y = 0
      BY <2>1
    <2>2. CASE y # 0
      <3>1. PICK i \in blks : y = Low(src(i) + t[i].out + Slack, start)
        BY <2>2
      <3> QED
        BY <1>2, <1>3, <3>1 DEF Low
    <2> QED
      BY <2>1, <2>2
  <1>5. Max(S) \in Nat /\ \A y \in S : y <= Max(S)
    <2>1. S \subseteq Int /\ (\A y \in S : y <= start) /\ 0 \in S
      BY <1>4
    <2> HIDE DEF S
    <2> QED
      BY <2>1, MaxIs
  <1>6. ASSUME w.ok, NEW x \in w.reads PROVE x \in Nat /\ x < w.top /\ x < start
    <2>1. PICK i \in crosses : x \in Reads(i)
      BY <1>1
    <2>2. src(i) \in Int /\ t[i].out \in Nat /\ src(i) >= 0
      BY <1>1, <1>2, <1>6
    <2>3. x \in Nat /\ x < start /\ x < src(i) + t[i].out
      BY <2>1, <2>2
    <2> DEFINE y == Low(src(i) + t[i].out + Slack, start)
    <2>4. y \in S /\ y \in Int
      BY <1>4
    <2>5. x < y
      BY <1>3, <2>2, <2>3 DEF Low
    <2>6. y <= w.top
      BY <1>1, <1>5, <2>4
    <2> HIDE DEF y
    <2> QED
      BY <1>1, <1>5, <2>3, <2>4, <2>5, <2>6
  <1> QED
    BY <1>1, <1>5, <1>6 DEF w, t

(* A piece whose standalone walk never leaves the output resolves each      *)
(* offset as the whole frame does.                                          *)
LEMMA SameSource ==
    ASSUME PiecesAssumption, NEW f, FrameOK(f), NEW j \in Nat \ {0}, NEW k \in Nat,
           Walk(f.table, BlocksOf(f.table, f.fcs, j, k), k * j).ok,
           NEW i \in BlocksOf(f.table, f.fcs, j, k), f.table[i].off # 0
    PROVE  /\ Source(f.table, DOMAIN f.table, 1, i) =
                Source(f.table, BlocksOf(f.table, f.fcs, j, k), IF k * j = 0 THEN 1 ELSE Unset, i)
           /\ Source(f.table, DOMAIN f.table, 1, i) >= 0
  <1> DEFINE t == f.table
             a == k * j
             b == Low((k + 1) * j, f.fcs)
             blks == BlocksOf(t, f.fcs, j, k)
             hist == IF a = 0 THEN 1 ELSE Unset
             D == DOMAIN t
             K == Known(t, blks, i)
             G == Known(t, D, i)
  <1>1. a \in Nat /\ b \in Nat /\ b <= f.fcs
    <2>1. (k + 1) * j \in Nat /\ f.fcs \in Nat
      BY TableTyped
    <2> QED
      BY <2>1 DEF Low
  <1>2. blks = {x \in D : t[x].start >= a /\ t[x].start < b}
    BY DEF BlocksOf
  <1>3. /\ Len(t) \in Nat /\ D = 1 .. Len(t) /\ f.fcs \in Nat /\ f.fcs < Unset
        /\ \A x \in D : t[x].start \in Nat /\ t[x].out \in Nat
    BY TableTyped
  <1>4. \A x, y \in D : x < y => t[x].start + t[x].out <= t[y].start
    BY TableOrder
  <1>5. Source(t, blks, hist, i) >= 0
    BY DEF Walk
  <1>6. hist \in Nat /\ i \in D /\ i \in blks /\ blks \subseteq D
    BY <1>2 DEF Unset
  <1>7. /\ Offset(t, blks, hist, i) \in Nat
        /\ K = {} => Offset(t, blks, hist, i) = hist
        /\ K # {} => Offset(t, blks, hist, i) = t[Max(K)].off
    <2>1. /\ hist \in Nat /\ i \in DOMAIN f.table /\ blks \subseteq DOMAIN f.table
          /\ t = f.table /\ K = Known(f.table, blks, i) /\ FrameOK(f)
      BY <1>6
    <2> HIDE DEF hist, a, b, blks, t, D, K, G
    <2> QED
      BY ONLY <2>1, OffsetIs
  <1>8. /\ G = {} => Offset(t, D, 1, i) = 1
        /\ G # {} => Offset(t, D, 1, i) = t[Max(G)].off
    <2>1. /\ 1 \in Nat /\ i \in DOMAIN f.table /\ D \subseteq DOMAIN f.table
          /\ t = f.table /\ G = Known(f.table, D, i) /\ FrameOK(f)
      BY <1>6
    <2> HIDE DEF hist, a, b, blks, t, D, K, G
    <2> QED
      BY ONLY <2>1, OffsetIs
  <1> HIDE DEF a, b, blks, t, D
  <1>9. ASSUME NEW x \in D, NEW y \in D, x <= y PROVE t[x].start <= t[y].start
    <2>1. t[x].start \in Nat /\ t[x].out \in Nat /\ t[y].start \in Nat
      BY ONLY <1>3, x \in D, y \in D
    <2>2. CASE x = y
      BY ONLY <2>1, <2>2
    <2>3. CASE x # y
      <3>1. x < y
        BY ONLY <1>3, <1>9, <2>3, x \in D, y \in D
      <3>2. t[x].start + t[x].out <= t[y].start
        BY ONLY <1>4, <3>1, x \in D, y \in D
      <3> QED
        BY ONLY <2>1, <3>2
    <2> QED
      BY ONLY <2>2, <2>3
  <1>10. Offset(t, D, 1, i) = Offset(t, blks, hist, i)
    <2>1. CASE K = {}
      <3>1. t[i].start < f.fcs
        BY <1>1, <1>2, <1>3, <1>6
      <3>2. Source(t, blks, hist, i) = t[i].start - hist
        BY <1>7, <2>1 DEF Source
      <3>3. a = 0
        BY <1>3, <1>5, <1>6, <3>1, <3>2 DEF Unset
      <3>4. ASSUME NEW x \in G PROVE x \in K
        <4>1. x \in D /\ x <= i
          BY DEF Known
        <4>2. t[x].start <= t[i].start
          BY <1>6, <1>9, <4>1
        <4>3. t[i].start < b /\ t[x].start \in Nat /\ t[i].start \in Nat
          BY <1>2, <1>3, <1>6, <4>1
        <4>4. x \in blks
          BY <1>1, <1>2, <3>3, <4>1, <4>2, <4>3
        <4> QED
          BY <4>4 DEF Known
      <3>5. G = {}
        BY <2>1, <3>4
      <3> QED
        BY <1>7, <1>8, <2>1, <3>3, <3>5
    <2>2. CASE K # {}
      <3>1. K \subseteq 1 .. Len(t) /\ G \subseteq 1 .. Len(t) /\ K \subseteq G
        BY <1>3, <1>6 DEF Known
      <3> DEFINE m == Max(K)
                 g == Max(G)
      <3>2. m \in K /\ (\A y \in K : y <= m) /\ g \in G /\ \A y \in G : y <= g
        <4> HIDE DEF K, G
        <4> QED
          BY <1>3, <2>2, <3>1, LastIs
      <3> HIDE DEF m, g
      <3>3. g \in D /\ g <= i /\ m \in blks /\ m \in D /\ m <= g
        BY <1>6, <3>1, <3>2 DEF Known
      <3>4. t[m].start <= t[g].start /\ t[g].start <= t[i].start
        BY <1>6, <1>9, <3>3
      <3>5. /\ t[i].start < b /\ t[m].start >= a /\ t[m].start \in Nat
            /\ t[i].start \in Nat /\ t[g].start \in Nat
        BY <1>2, <1>3, <1>6, <3>3
      <3>6. g \in blks
        BY <1>1, <1>2, <3>3, <3>4, <3>5
      <3>7. g \in K
        BY <3>2, <3>6 DEF Known
      <3>8. g = m
        BY <3>1, <3>2, <3>3, <3>7
      <3> QED
        BY <1>7, <1>8, <2>2, <3>1, <3>8 DEF m, g
    <2> QED
      BY <2>1, <2>2
  <1>11. Source(t, D, 1, i) = Source(t, blks, hist, i)
    BY <1>10 DEF Source
  <1> QED
    BY <1>5, <1>11 DEF t, D, blks, a

-----------------------------------------------------------------------------
(* The frame.                                                               *)

LEMMA BadIs ==
    ASSUME NEW f, FrameOK(f), NEW blks, blks \subseteq DOMAIN f.table
    PROVE  /\ FirstBad(f.table, blks) \in {"ok", "err", "panic"}
           /\ FirstBad(f.table, blks) = "ok" => \A i \in blks : f.table[i].exec = "ok"
           /\ FirstBad(f.table, blks) # "ok" =>
                \E i \in DOMAIN f.table : f.table[i].exec = FirstBad(f.table, blks)
  <1> DEFINE t == f.table
             bad == {i \in blks : t[i].exec # "ok"}
  <1>1. \A i \in DOMAIN t : i \in Nat /\ t[i].exec \in {"ok", "err", "panic"}
    BY TableTyped
  <1>2. FirstBad(t, blks) = IF bad = {} THEN "ok" ELSE t[Min(bad)].exec
    BY DEF FirstBad
  <1>3. bad # {} => Min(bad) \in bad
    <2>1. bad \subseteq Nat
      BY <1>1
    <2> HIDE DEF bad
    <2> QED
      BY <2>1, MinIs
  <1> QED
    BY <1>1, <1>2, <1>3

LEMMA SerialIs ==
    ASSUME NEW f, FrameOK(f)
    PROVE  /\ Serially(f.table) \in {"ok", "err", "panic"}
           /\ Serially(f.table) = "ok" => \A i \in DOMAIN f.table : f.table[i].exec = "ok"
           /\ Serially(f.table) = "panic" => \E i \in DOMAIN f.table : f.table[i].exec = "panic"
           /\ Serially(f.table) = "ok" <=>
                \A i \in DOMAIN f.table :
                    /\ f.table[i].off # 0 => Source(f.table, DOMAIN f.table, 1, i) >= 0
                    /\ f.table[i].exec = "ok"
  <1> DEFINE t == f.table
             past == {i \in DOMAIN t : t[i].off # 0 /\ Source(t, DOMAIN t, 1, i) < 0}
             bad == past \cup {i \in DOMAIN t : t[i].exec # "ok"}
  <1>1. \A i \in DOMAIN t : i \in Nat /\ t[i].exec \in {"ok", "err", "panic"}
    BY TableTyped
  <1>2. Serially(t) = IF bad = {} THEN "ok" ELSE IF Min(bad) \in past THEN "err" ELSE t[Min(bad)].exec
    BY DEF Serially
  <1>3. bad # {} => Min(bad) \in bad
    <2>1. bad \subseteq Nat
      BY <1>1
    <2> HIDE DEF bad
    <2> QED
      BY <2>1, MinIs
  <1>4. \A i \in DOMAIN t : Source(t, DOMAIN t, 1, i) \in Int
    <2>1. DOMAIN t \subseteq DOMAIN t /\ 1 \in Nat
      OBVIOUS
    <2> QED
      BY <2>1, OffsetIs
  <1>5. bad = {} <=> \A i \in DOMAIN t :
            (t[i].off # 0 => Source(t, DOMAIN t, 1, i) >= 0) /\ t[i].exec = "ok"
    <2>1. \A i \in DOMAIN t : Source(t, DOMAIN t, 1, i) < 0 <=> ~(Source(t, DOMAIN t, 1, i) >= 0)
      BY <1>4
    <2> QED
      BY <2>1
  <1>6. Serially(t) = "ok" <=> bad = {}
    BY <1>1, <1>2, <1>3
  <1>7. Serially(t) = "panic" => \E i \in DOMAIN t : t[i].exec = "panic"
    BY <1>1, <1>2, <1>3
  <1>8. Serially(t) \in {"ok", "err", "panic"}
    BY <1>1, <1>2, <1>3
  <1> HIDE DEF bad, past
  <1> QED
    BY <1>5, <1>6, <1>7, <1>8

(* What the proofs about the steps use of the frame.                        *)
FrameFacts ==
    /\ Fcs \in Nat \ {0} /\ NSeg \in Nat \ {0}
    /\ Candidates \subseteq Nat \ {0}
    /\ \A n \in 0 .. NSeg : StagedPos(n) \in Nat
    /\ \A n, m \in 0 .. NSeg : n <= m => StagedPos(n) <= StagedPos(m)
    /\ \A j \in Candidates : \A k \in 0 .. NPieces(j) - 1 :
        /\ ValidatePiece(j, k).ok \in BOOLEAN /\ ValidatePiece(j, k).top \in Nat
        /\ frame.piece[j][k].exec \in {"ok", "err", "panic"}
        /\ frame.piece[j][k].exec # "ok" =>
            \E i \in DOMAIN frame.table : frame.table[i].exec = frame.piece[j][k].exec
        /\ ValidatePiece(j, k).ok =>
            \A x \in ValidatePiece(j, k).reads :
                x \in Nat /\ x < ValidatePiece(j, k).top /\ x < Start(j, k)
    /\ \A n \in 0 .. NSeg : \A j \in Candidates : \A k \in 1 .. NPieces(j) - 1 :
        Start(j, k) < StagedPos(n) => (OnBlock(j, k) <=> Start(j, k) \in StagedStarts(n))
    /\ \A j \in Candidates : \A k \in 1 .. NPieces(j) - 1 :
        OnBlock(j, k) <=> Start(j, k) \in StagedStarts(NSeg)
    /\ frame.serial \in {"ok", "err", "panic"}
    /\ frame.serial = "ok" => \A i \in DOMAIN frame.table : frame.table[i].exec = "ok"
    /\ frame.serial = "panic" => \E i \in DOMAIN frame.table : frame.table[i].exec = "panic"
    /\ \A j \in Candidates :
        /\ StagedPos(NSeg) = Fcs
        /\ \A k \in 0 .. NPieces(j) - 1 :
            ValidatePiece(j, k).ok /\ frame.piece[j][k].exec = "ok"
        => frame.serial = "ok"

LEMMA FrameIs ==
    ASSUME PiecesAssumption, NEW f \in Frames, frame = Laid(f)
    PROVE  FrameFacts
  <1> DEFINE t == f.table
  <1>1. FrameOK(f)
    BY DEF PiecesAssumption
  <1>2. /\ Fcs = f.fcs /\ NSeg = f.nSeg /\ frame.table = t /\ frame.serial = Serially(t)
        /\ frame.ends = [n \in 0 .. NSeg |-> EndOf(t, n)]
        /\ frame.piece = [j \in JobsOf(Fcs) |-> [k \in Pieces(Fcs, j) |-> PieceOf(t, Fcs, j, k)]]
    BY DEF Laid, Fcs, NSeg
  <1> HIDE DEF t
  <1>3. Fcs \in Nat \ {0} /\ NSeg \in Nat \ {0} /\ Fcs < Unset
    BY <1>1, <1>2, TableTyped
  <1>4. Candidates = JobsOf(Fcs)
    BY <1>2 DEF Candidates
  <1>5. Candidates \subseteq Nat \ {0}
    <2> SUFFICES ASSUME NEW j \in JobsOf(Fcs) PROVE j \in Nat \ {0}
      BY <1>4
    <2>1. CASE j \in RaisedSizes
      BY <2>1 DEF PiecesAssumption
    <2>2. CASE j \notin RaisedSizes
      <3>1. PICK w \in FormulaWorkers : j = High(DivCeil(Fcs, 2 * w), JobFloor)
        BY <2>2 DEF JobsOf
      <3>2. 2 * w \in Nat \ {0} /\ JobFloor \in Nat \ {0}
        BY DEF PiecesAssumption
      <3>3. DivCeil(Fcs, 2 * w) \in Nat
        BY <1>3, <3>2, PiecesCover
      <3> QED
        BY <3>1, <3>2, <3>3 DEF High
    <2> QED
      BY <2>1, <2>2
  <1>6. \A n \in 0 .. NSeg : StagedPos(n) = EndOf(t, n)
    BY <1>2 DEF StagedPos
  <1>7. ASSUME NEW n \in Nat
        PROVE  /\ EndOf(t, n) \in Nat
               /\ \A i \in DOMAIN t : t[i].seg <= n => t[i].start + t[i].out <= EndOf(t, n)
               /\ \A i \in DOMAIN t : ~(t[i].seg <= n) => EndOf(t, n) <= t[i].start
    BY <1>1, EndIs DEF t
  <1>8. \A j \in Candidates : \A k \in 0 .. NPieces(j) - 1 :
            frame.piece[j][k] = PieceOf(t, Fcs, j, k)
    BY <1>2, <1>4 DEF NPieces, Pieces
  <1>19. ASSUME NEW j \in Candidates, NEW k \in 0 .. NPieces(j) - 1
         PROVE  /\ frame.piece[j][k].exec = FirstBad(t, BlocksOf(t, Fcs, j, k))
                /\ ValidatePiece(j, k) = Walk(t, BlocksOf(t, Fcs, j, k), k * j)
    <2> DEFINE blks == BlocksOf(t, Fcs, j, k)
               wk == Walk(t, blks, k * j)
               ex == FirstBad(t, blks)
    <2>1. frame.piece[j][k] = PieceOf(t, Fcs, j, k)
      BY <1>8
    <2>2. PieceOf(t, Fcs, j, k) = [walk |-> wk, exec |-> ex]
      BY DEF PieceOf
    <2>3. ValidatePiece(j, k) = frame.piece[j][k].walk
      BY DEF ValidatePiece
    <2> HIDE DEF wk, ex
    <2>4. ValidatePiece(j, k) = wk /\ frame.piece[j][k].exec = ex
      BY <2>1, <2>2, <2>3
    <2> QED
      BY <2>4 DEF wk, ex
  <1>9. DOMAIN t = 1 .. Len(t) /\ Len(t) \in Nat
        /\ \A i \in DOMAIN t : /\ t[i].start \in Nat /\ t[i].out \in Nat /\ t[i].seg \in 1 .. NSeg
                               /\ t[i].out = 0 => t[i].off = 0 /\ t[i].exec = "ok"
    BY <1>1, <1>2, TableTyped DEF t
  <1>10. ASSUME NEW n \in 0 .. NSeg, NEW m \in 0 .. NSeg, n <= m
         PROVE  StagedPos(n) <= StagedPos(m)
    <2>1. n \in Nat /\ m \in Nat
      OBVIOUS
    <2>2. \A x \in DOMAIN t : t[x].seg <= n => t[x].seg <= m
      BY <1>9, <1>10, <2>1
    <2>3. CASE EndOf(t, n) = 0
      BY <1>6, <1>7, <2>1, <2>3
    <2>4. CASE EndOf(t, n) # 0
      <3>1. \E i \in DOMAIN t : t[i].seg <= n /\ EndOf(t, n) = t[i].start + t[i].out
        BY <1>1, <2>1, <2>4, EndIs DEF t
      <3> QED
        BY <1>6, <1>7, <2>1, <2>2, <3>1
    <2> QED
      BY <2>3, <2>4
  <1>11. ASSUME NEW j \in Candidates, NEW k \in 0 .. NPieces(j) - 1
         PROVE  /\ ValidatePiece(j, k).ok \in BOOLEAN /\ ValidatePiece(j, k).top \in Nat
                /\ frame.piece[j][k].exec \in {"ok", "err", "panic"}
                /\ frame.piece[j][k].exec = "ok" => \A i \in BlocksOf(t, Fcs, j, k) : t[i].exec = "ok"
                /\ frame.piece[j][k].exec # "ok" =>
                    \E i \in DOMAIN t : t[i].exec = frame.piece[j][k].exec
                /\ ValidatePiece(j, k).ok =>
                    \A x \in ValidatePiece(j, k).reads :
                        x \in Nat /\ x < ValidatePiece(j, k).top /\ x < Start(j, k)
    <2> DEFINE blks == BlocksOf(t, Fcs, j, k)
    <2>1. blks \subseteq DOMAIN t
      BY DEF BlocksOf
    <2>2. frame.piece[j][k].exec = FirstBad(t, blks) /\ ValidatePiece(j, k) = Walk(t, blks, Start(j, k))
      BY <1>19 DEF Start
    <2>3. Start(j, k) \in Nat
      <3>1. j \in Nat \ {0} /\ NPieces(j) \in Nat \ {0}
        BY <1>3, <1>5, GridFacts
      <3> QED
        BY <1>3, <3>1, GridFacts
    <2> HIDE DEF blks
    <2>4. /\ FirstBad(t, blks) \in {"ok", "err", "panic"}
          /\ FirstBad(t, blks) = "ok" => \A i \in blks : t[i].exec = "ok"
          /\ FirstBad(t, blks) # "ok" => \E i \in DOMAIN t : t[i].exec = FirstBad(t, blks)
      BY <1>1, <2>1, BadIs DEF t
    <2>5. /\ Walk(t, blks, Start(j, k)).ok \in BOOLEAN /\ Walk(t, blks, Start(j, k)).top \in Nat
          /\ Walk(t, blks, Start(j, k)).ok =>
                \A x \in Walk(t, blks, Start(j, k)).reads :
                    x \in Nat /\ x < Walk(t, blks, Start(j, k)).top /\ x < Start(j, k)
      BY <1>1, <2>1, <2>3, WalkIs DEF t
    <2> QED
      BY <2>2, <2>4, <2>5 DEF blks
  <1>12. ASSUME NEW n \in 0 .. NSeg, NEW x \in Nat, x < StagedPos(n), NEW i \in DOMAIN t, t[i].start = x
         PROVE  t[i].seg <= n
    <2>1. n \in Nat /\ x < EndOf(t, n) /\ EndOf(t, n) \in Nat
      BY <1>6, <1>7, <1>12
    <2> QED
      BY <1>7, <1>12, <2>1
  <1>13. ASSUME NEW j \in Candidates, NEW k \in Nat PROVE k * j \in Nat /\ Start(j, k) = k * j
    BY <1>5 DEF Start
  <1>14. ASSUME NEW n \in 0 .. NSeg, NEW j \in Candidates, NEW k \in 1 .. NPieces(j) - 1,
                Start(j, k) < StagedPos(n)
         PROVE  OnBlock(j, k) <=> Start(j, k) \in StagedStarts(n)
    <2>1. k \in Nat /\ Start(j, k) \in Nat /\ Start(j, k) = k * j
      <3>1. NPieces(j) \in Nat \ {0}
        BY <1>3, <1>5, GridFacts
      <3>2. k \in Nat
        BY <3>1
      <3> QED
        BY <1>13, <3>2
    <2>2. \A i \in DOMAIN t : t[i].start = Start(j, k) => t[i].seg <= n
      BY <1>12, <1>14, <2>1
    <2> QED
      BY <1>2, <2>1, <2>2 DEF OnBlock, StagedStarts
  <1>15. ASSUME NEW j \in Candidates, NEW k \in 1 .. NPieces(j) - 1
         PROVE  OnBlock(j, k) <=> Start(j, k) \in StagedStarts(NSeg)
    <2>1. \A i \in DOMAIN t : t[i].seg <= NSeg
      BY <1>3, <1>9
    <2> QED
      BY <1>2, <2>1 DEF OnBlock, StagedStarts, Start
  <1>16. ASSUME NEW j \in Candidates, StagedPos(NSeg) = Fcs,
                \A k \in 0 .. NPieces(j) - 1 : ValidatePiece(j, k).ok /\ frame.piece[j][k].exec = "ok"
         PROVE  frame.serial = "ok"
    <2> SUFFICES ASSUME NEW i \in DOMAIN t
                 PROVE  (t[i].off # 0 => Source(t, DOMAIN t, 1, i) >= 0) /\ t[i].exec = "ok"
      BY <1>1, <1>2, SerialIs DEF t
    <2>1. CASE t[i].start < Fcs
      <3>1. j \in Nat \ {0}
        BY <1>5
      <3>2. PICK k \in 0 .. NPieces(j) - 1 : Start(j, k) <= t[i].start /\ t[i].start < End(j, k)
        BY <1>3, <1>9, <2>1, <3>1, PieceAt
      <3> DEFINE blks == BlocksOf(t, Fcs, j, k)
      <3>3. i \in blks
        BY <3>2 DEF BlocksOf, Start, End
      <3>4. t[i].exec = "ok"
        BY <1>11, <1>16, <3>3
      <3>5. Walk(t, blks, k * j).ok
        BY <1>16, <1>19
      <3>6. k \in Nat
        <4>1. NPieces(j) \in Nat \ {0}
          BY <1>3, <3>1, GridFacts
        <4> QED
          BY <4>1
      <3>7. t[i].off # 0 => Source(t, DOMAIN t, 1, i) >= 0
        BY <1>1, <1>2, <3>1, <3>3, <3>5, <3>6, SameSource DEF t
      <3> QED
        BY <3>4, <3>7
    <2>2. CASE ~(t[i].start < Fcs)
      <3>1. t[i].seg <= NSeg /\ NSeg \in Nat /\ NSeg \in 0 .. NSeg
        BY <1>3, <1>9
      <3>2. t[i].start + t[i].out <= Fcs
        BY <1>6, <1>7, <1>16, <3>1
      <3>3. t[i].out = 0
        BY <1>3, <1>9, <2>2, <3>2
      <3> QED
        BY <1>9, <3>3
    <2> QED
      BY <2>1, <2>2
  <1>17. /\ frame.serial \in {"ok", "err", "panic"}
         /\ frame.serial = "ok" => \A i \in DOMAIN t : t[i].exec = "ok"
         /\ frame.serial = "panic" => \E i \in DOMAIN t : t[i].exec = "panic"
    BY <1>1, <1>2, SerialIs DEF t
  <1>18. \A n \in 0 .. NSeg : StagedPos(n) \in Nat
    <2>1. \A n \in 0 .. NSeg : n \in Nat
      OBVIOUS
    <2> QED
      BY <1>6, <1>7, <2>1
  <1>20. \A j \in Candidates : \A k \in 0 .. NPieces(j) - 1 :
            /\ ValidatePiece(j, k).ok \in BOOLEAN /\ ValidatePiece(j, k).top \in Nat
            /\ frame.piece[j][k].exec \in {"ok", "err", "panic"}
            /\ frame.piece[j][k].exec # "ok" =>
                \E i \in DOMAIN frame.table : frame.table[i].exec = frame.piece[j][k].exec
            /\ ValidatePiece(j, k).ok =>
                \A x \in ValidatePiece(j, k).reads :
                    x \in Nat /\ x < ValidatePiece(j, k).top /\ x < Start(j, k)
    <2> SUFFICES ASSUME NEW j \in Candidates, NEW k \in 0 .. NPieces(j) - 1
                 PROVE  /\ ValidatePiece(j, k).ok \in BOOLEAN /\ ValidatePiece(j, k).top \in Nat
                        /\ frame.piece[j][k].exec \in {"ok", "err", "panic"}
                        /\ frame.piece[j][k].exec # "ok" =>
                            \E i \in DOMAIN frame.table : frame.table[i].exec = frame.piece[j][k].exec
                        /\ ValidatePiece(j, k).ok =>
                            \A x \in ValidatePiece(j, k).reads :
                                x \in Nat /\ x < ValidatePiece(j, k).top /\ x < Start(j, k)
      OBVIOUS
    <2>1. frame.piece[j][k].exec # "ok" =>
            \E i \in DOMAIN frame.table : frame.table[i].exec = frame.piece[j][k].exec
      <3> DEFINE e == frame.piece[j][k].exec
      <3>1. frame.table = t
        BY <1>2
      <3>2. e # "ok" => \E i \in DOMAIN t : t[i].exec = e
        BY <1>11
      <3> HIDE DEF e
      <3>3. e # "ok" => \E i \in DOMAIN frame.table : frame.table[i].exec = e
        BY <3>1, <3>2
      <3> QED
        BY <3>3 DEF e
    <2> QED
      BY <1>11, <2>1
  <1>21. \A j \in Candidates :
            /\ StagedPos(NSeg) = Fcs
            /\ \A k \in 0 .. NPieces(j) - 1 :
                ValidatePiece(j, k).ok /\ frame.piece[j][k].exec = "ok"
            => frame.serial = "ok"
    BY <1>16
  <1>22. /\ frame.serial \in {"ok", "err", "panic"}
         /\ frame.serial = "ok" => \A i \in DOMAIN frame.table : frame.table[i].exec = "ok"
         /\ frame.serial = "panic" => \E i \in DOMAIN frame.table : frame.table[i].exec = "panic"
    BY <1>2, <1>17
  <1> QED
    BY <1>3, <1>5, <1>10, <1>14, <1>15, <1>18, <1>20, <1>21, <1>22 DEF FrameFacts

(* A piece reads below its start what in-order execution reads there.       *)
LEMMA ReadsAre ==
    ASSUME PiecesAssumption, \E f \in Frames : frame = Laid(f), pieces \in Candidates,
           NEW k \in 0 .. NPieces(pieces) - 1, ValidatePiece(pieces, k).ok
    PROVE  SerialReads(k) = ValidatePiece(pieces, k).reads
  <1> PICK f \in Frames : frame = Laid(f)
    OBVIOUS
  <1> DEFINE t == f.table
             j == pieces
             blks == BlocksOf(t, Fcs, j, k)
             own(i) == Source(t, blks, IF k * j = 0 THEN 1 ELSE Unset, i)
             src(i) == Source(t, DOMAIN t, 1, i)
             matches == {i \in blks : t[i].off # 0}
             Below(i, s) == {x \in s .. s + t[i].out - 1 : x < k * j}
  <1>1. FrameOK(f) /\ FrameFacts
    BY FrameIs DEF PiecesAssumption
  <1>2. /\ Fcs = f.fcs /\ frame.table = t
        /\ frame.piece = [g \in JobsOf(Fcs) |-> [l \in Pieces(Fcs, g) |-> PieceOf(t, Fcs, g, l)]]
    BY DEF Laid, Fcs
  <1>3. j \in Nat \ {0} /\ k \in Nat
    <2>1. j \in Nat \ {0} /\ NPieces(j) \in Nat \ {0}
      BY <1>1, GridFacts DEF FrameFacts
    <2> QED
      BY <2>1
  <1>4. frame.piece[j][k] = PieceOf(t, Fcs, j, k)
    <2>1. Candidates = JobsOf(Fcs)
      BY <1>2 DEF Candidates
    <2> QED
      BY <1>2, <2>1 DEF NPieces, Pieces
  <1>5. ValidatePiece(j, k) = Walk(t, blks, k * j)
    BY <1>4 DEF ValidatePiece, PieceOf
  <1>6. ValidatePiece(j, k).reads = UNION {Below(i, own(i)) : i \in {x \in matches : own(x) < k * j}}
    BY <1>5 DEF Walk
  <1>7. SerialReads(k) = UNION {Below(i, src(i)) : i \in matches}
    BY <1>2 DEF SerialReads, Start
  <1>8. \A i \in matches : src(i) = own(i) /\ src(i) >= 0
    BY <1>1, <1>2, <1>3, <1>5, SameSource
  <1>9. \A i \in matches : src(i) \in Int /\ t[i].out \in Nat /\ k * j \in Nat
    <2>1. blks \subseteq DOMAIN t /\ DOMAIN t \subseteq DOMAIN t /\ 1 \in Nat
      BY DEF BlocksOf
    <2>2. \A i \in DOMAIN t : src(i) \in Int
      BY <1>1, <2>1, OffsetIs
    <2>3. \A i \in DOMAIN t : t[i].out \in Nat
      BY <1>1, TableTyped
    <2> QED
      BY <1>3, <2>1, <2>2, <2>3
  <1> HIDE DEF own, src, t, j, blks
  <1>10. \A i \in matches : ~(own(i) < k * j) => Below(i, src(i)) = {}
    BY <1>8, <1>9
  <1>11. \A i \in matches : Below(i, src(i)) = Below(i, own(i))
    BY <1>8
  <1> HIDE DEF Below, matches
  <1>12. UNION {Below(i, src(i)) : i \in matches}
            = UNION {Below(i, own(i)) : i \in {x \in matches : own(x) < k * j}}
    BY <1>10, <1>11
  <1> QED
    BY <1>6, <1>7, <1>12 DEF j

-----------------------------------------------------------------------------
(* Refreshing and settling the grids.                                       *)

LEMMA RefreshIs ==
    ASSUME FrameFacts, NEW j \in Candidates, NEW g \in GridState, NEW n \in 0 .. NSeg,
           NEW complete \in BOOLEAN, g.tops \in [0 .. g.cut - 1 -> Nat]
    PROVE  /\ Refresh(g, j, n, complete) \in GridState
           /\ Refresh(g, j, n, complete).nextValidate = g.nextValidate
           /\ Refresh(g, j, n, complete).validated = g.validated
           /\ Refresh(g, j, n, complete).alive =>
                /\ g.alive
                /\ Refresh(g, j, n, complete).cut = Cardinality(Inside(j, StagedPos(n)))
                /\ \A k \in 1 .. NPieces(j) - 1 :
                    complete \/ Start(j, k) < StagedPos(n) => Start(j, k) \in StagedStarts(n)
           /\ ~Refresh(g, j, n, complete).alive =>
                /\ Refresh(g, j, n, complete).cut = g.cut
                /\ g.alive => \E k \in 1 .. NPieces(j) - 1 :
                    /\ complete \/ Start(j, k) < StagedPos(n)
                    /\ Start(j, k) \notin StagedStarts(n)
           /\ Refresh(g, j, n, complete).tops \in [0 .. Refresh(g, j, n, complete).cut - 1 -> Nat]
           /\ \A k \in Nat : k < g.cut /\ k < Refresh(g, j, n, complete).cut =>
                Refresh(g, j, n, complete).tops[k] = g.tops[k]
  <1> DEFINE pos == StagedPos(n)
             starts == StagedStarts(n)
             decided == {k \in 1 .. NPieces(j) - 1 : complete \/ Start(j, k) < pos}
             live == g.alive /\ \A k \in decided : Start(j, k) \in starts
             count == Cardinality({k \in 0 .. NPieces(j) - 1 : End(j, k) <= pos})
             cut == IF live THEN count ELSE g.cut
             tops == [k \in 0 .. cut - 1 |-> IF k < g.cut THEN g.tops[k] ELSE 0]
             r == [g EXCEPT !.alive = live, !.cut = cut, !.tops = tops]
  <1>1. Refresh(g, j, n, complete) = r
    BY DEF Refresh
  <1>2. count = Cardinality(Inside(j, pos)) /\ count \in Nat
    <2>1. Fcs \in Nat \ {0} /\ j \in Nat \ {0} /\ pos \in Nat
      BY DEF FrameFacts
    <2>2. Cardinality(Inside(j, pos)) \in 0 .. NPieces(j) /\ NPieces(j) \in Nat
      BY <2>1, InsideIs, GridFacts
    <2> QED
      BY <2>2 DEF Inside
  <1>3. g.cut \in Nat /\ g.alive \in BOOLEAN
    BY DEF GridState
  <1>4. live \in BOOLEAN
    BY <1>3
  <1> HIDE DEF live, count
  <1>5. cut \in Nat
    BY <1>2, <1>3, <1>4
  <1> HIDE DEF cut
  <1>6. tops \in [0 .. cut - 1 -> Nat]
    <2>1. \A k \in 0 .. cut - 1 : k < g.cut => g.tops[k] \in Nat
      BY <1>3, <1>5
    <2> QED
      BY <2>1
  <1>7. \A k \in Nat : k < g.cut /\ k < cut => tops[k] = g.tops[k]
    BY <1>3, <1>5
  <1> HIDE DEF tops
  <1>8. r \in GridState /\ r.nextValidate = g.nextValidate /\ r.validated = g.validated
        /\ r.alive = live /\ r.cut = cut /\ r.tops = tops
    BY <1>4, <1>5, <1>6 DEF GridState
  <1> HIDE DEF r
  <1>9. live => /\ g.alive /\ cut = count
                /\ \A k \in 1 .. NPieces(j) - 1 : complete \/ Start(j, k) < pos => Start(j, k) \in starts
    BY DEF live, cut
  <1>10. ~live => /\ cut = g.cut
                  /\ g.alive => \E k \in 1 .. NPieces(j) - 1 :
                        (complete \/ Start(j, k) < pos) /\ Start(j, k) \notin starts
    BY DEF live, cut
  <1> QED
    BY <1>1, <1>2, <1>6, <1>7, <1>8, <1>9, <1>10

Deep(gs, j) == \A k \in 1 .. gs[j].cut - 1 : LagDeep(j, k, gs[j].tops[k])

LEMMA SettleIs ==
    ASSUME FrameFacts, NEW gs \in [Candidates -> GridState], NEW win \in Candidates \cup {0},
           allDead \in BOOLEAN
    PROVE  /\ Settle(gs, win).grids \in [Candidates -> GridState]
           /\ Settle(gs, win).winner \in Candidates \cup {0}
           /\ Settle(gs, win).allDead \in BOOLEAN
           /\ \A j \in Candidates :
                \/ Settle(gs, win).grids[j] = gs[j]
                \/ /\ Settle(gs, win).grids[j] = [gs[j] EXCEPT !.alive = FALSE]
                   /\ gs[j].alive /\ FullyWalked(gs[j], j) /\ ~Deep(gs, j)
           /\ win # 0 => Settle(gs, win) = [grids |-> gs, winner |-> win, allDead |-> allDead]
           /\ win = 0 /\ Settle(gs, win).winner # 0 =>
                /\ Settle(gs, win).grids[Settle(gs, win).winner] = gs[Settle(gs, win).winner]
                /\ gs[Settle(gs, win).winner].alive
                /\ FullyWalked(gs[Settle(gs, win).winner], Settle(gs, win).winner)
                /\ Deep(gs, Settle(gs, win).winner)
                /\ \A j \in Candidates : j < Settle(gs, win).winner => ~Settle(gs, win).grids[j].alive
                /\ Settle(gs, win).allDead = allDead
           /\ win = 0 /\ Settle(gs, win).winner = 0 /\ Settle(gs, win).allDead =>
                \A j \in Candidates : ~Settle(gs, win).grids[j].alive
  <1> DEFINE Alive == {j \in Candidates : gs[j].alive}
             Reached == {j \in Alive : \A i \in Alive : i <= j => FullyWalked(gs[i], i)}
             Steep == {j \in Reached : Deep(gs, j)}
             wins(j) == \A i \in Steep : j <= i
             Shallow == {j \in Reached \ Steep : \A i \in Steep : j < i}
             least == CHOOSE j \in Steep : wins(j)
             hs == [j \in Candidates |-> IF j \in Shallow THEN [gs[j] EXCEPT !.alive = FALSE] ELSE gs[j]]
             s == Settle(gs, win)
  <1>1. s = IF win # 0 THEN [grids |-> gs, winner |-> win, allDead |-> allDead]
            ELSE IF Steep # {} THEN [grids |-> hs, winner |-> least, allDead |-> allDead]
            ELSE [grids |-> hs, winner |-> 0, allDead |-> Alive = Shallow]
    <2>1. DOMAIN gs = Candidates
      OBVIOUS
    <2> QED
      BY <2>1 DEF Settle, Deep
  <1>2. Candidates \subseteq Nat \ {0}
    BY DEF FrameFacts
  <1>3. Alive \subseteq Candidates /\ Reached \subseteq Alive /\ Steep \subseteq Reached
        /\ Shallow \subseteq Reached
    OBVIOUS
  <1>4. ASSUME NEW j \in Candidates
        PROVE  /\ gs[j] \in GridState /\ hs[j] \in GridState
               /\ j \notin Shallow => hs[j] = gs[j]
               /\ j \in Shallow => /\ hs[j] = [gs[j] EXCEPT !.alive = FALSE] /\ ~hs[j].alive
                                   /\ gs[j].alive /\ FullyWalked(gs[j], j) /\ ~Deep(gs, j)
    <2>1. gs[j] \in GridState
      OBVIOUS
    <2> DEFINE dead == [gs[j] EXCEPT !.alive = FALSE]
    <2>2. dead \in GridState /\ ~dead.alive
      BY <2>1 DEF GridState
    <2>3. hs[j] = IF j \in Shallow THEN dead ELSE gs[j]
      OBVIOUS
    <2>4. j \in Shallow => gs[j].alive /\ FullyWalked(gs[j], j) /\ ~Deep(gs, j)
      <3> SUFFICES ASSUME j \in Shallow PROVE gs[j].alive /\ FullyWalked(gs[j], j) /\ ~Deep(gs, j)
        OBVIOUS
      <3>1. j \in Reached /\ j \notin Steep /\ j \in Alive
        OBVIOUS
      <3>2. j <= j
        BY <1>2
      <3> QED
        BY <3>1, <3>2
    <2> HIDE DEF dead, hs, Shallow
    <2>5. hs[j] \in GridState /\ (j \notin Shallow => hs[j] = gs[j])
          /\ (j \in Shallow => hs[j] = dead /\ ~hs[j].alive)
      BY <2>1, <2>2, <2>3
    <2> QED
      BY <2>1, <2>4, <2>5 DEF dead
  <1>5. hs \in [Candidates -> GridState]
    BY <1>4
  <1>6. Steep # {} => least \in Steep /\ \A i \in Steep : least <= i
    <2> SUFFICES ASSUME Steep # {} PROVE least \in Steep /\ \A i \in Steep : least <= i
      OBVIOUS
    <2>1. Steep \subseteq Nat
      BY <1>2, <1>3
    <2> HIDE DEF Steep
    <2>2. \E j \in Steep : wins(j)
      BY <2>1, LeastElement
    <2>3. least \in Steep /\ wins(least)
      BY <2>2
    <2> QED
      BY <2>3
  <1> HIDE DEF s, hs, least
  <1>7. CASE win # 0
    BY <1>1, <1>4, <1>7 DEF s
  <1>8. CASE win = 0 /\ Steep # {}
    <2>1. s.grids = hs /\ s.winner = least /\ s.allDead = allDead
      BY <1>1, <1>8
    <2>2. least \in Steep /\ least \in Reached /\ least \in Alive /\ least \in Candidates /\ least \in Nat \ {0}
      BY <1>2, <1>3, <1>6, <1>8
    <2>3. gs[least].alive /\ Deep(gs, least) /\ FullyWalked(gs[least], least)
      <3>1. least <= least
        BY <2>2
      <3> QED
        BY <2>2, <3>1
    <2>4. least \notin Shallow
      BY <2>2
    <2>5. ASSUME NEW j \in Candidates, j < least PROVE ~hs[j].alive
      <3>1. CASE j \notin Alive
        <4>1. j \notin Shallow
          BY <1>3, <3>1
        <4> QED
          BY <1>4, <3>1, <4>1
      <3>2. CASE j \in Alive
        <4>1. j \in Nat /\ j <= least
          BY <1>2, <2>2, <2>5
        <4>2. ASSUME NEW i \in Alive, i <= j PROVE FullyWalked(gs[i], i)
          <5>1. i <= least
            BY <1>2, <2>2, <4>1, <4>2
          <5> QED
            BY <2>2, <5>1
        <4>3. j \in Reached
          BY <3>2, <4>2
        <4>4. j \notin Steep
          BY <1>6, <1>8, <2>2, <2>5, <4>1
        <4>5. \A i \in Steep : j < i
          <5>1. \A i \in Steep : i \in Nat /\ least <= i
            BY <1>2, <1>3, <1>6, <1>8
          <5> QED
            BY <2>2, <2>5, <4>1, <5>1
        <4>6. j \in Shallow
          BY <4>3, <4>4, <4>5
        <4> QED
          BY <1>4, <4>6
      <3> QED
        BY <3>1, <3>2
    <2> HIDE DEF Shallow, Steep, Reached, Alive
    <2>6. hs[least] = gs[least]
      BY <1>4, <2>2, <2>4
    <2> QED
      BY <1>4, <1>5, <1>8, <2>1, <2>2, <2>3, <2>5, <2>6 DEF s
  <1>9. CASE win = 0 /\ Steep = {}
    <2>1. s.grids = hs /\ s.winner = 0 /\ s.allDead = (Alive = Shallow)
      BY <1>1, <1>9
    <2>2. Alive = Shallow => \A j \in Candidates : ~hs[j].alive
      <3> SUFFICES ASSUME Alive = Shallow, NEW j \in Candidates PROVE ~hs[j].alive
        OBVIOUS
      <3>1. CASE j \in Shallow
        BY <1>4, <3>1
      <3>2. CASE j \notin Shallow
        <4>1. j \notin Alive
          BY <3>2
        <4> QED
          BY <1>4, <3>2, <4>1
      <3> QED
        BY <3>1, <3>2
    <2> HIDE DEF Shallow, Steep, Reached, Alive
    <2> QED
      BY <1>4, <1>5, <1>9, <2>1, <2>2 DEF s
  <1> QED
    BY <1>7, <1>8, <1>9

-----------------------------------------------------------------------------
(* What the steps do.                                                       *)

(* The input stands still, and with it everything that depends on it alone. *)
LEMMA InputsFixed ==
    ASSUME Next
    PROVE  frame' = frame /\ staging' = staging /\ placeOk' = placeOk /\ sumOk' = sumOk
  <1>1. UNCHANGED inputVars
    <2>1. ASSUME NEW t \in Thread, ThreadStep(t) PROVE UNCHANGED inputVars
      BY <2>1 DEF ThreadStep, QuickStep, Quit, ClaimStage, ClaimValidate, ClaimExec, ClaimWait,
                  PassGate, GateWait, ExecDone, StageDone, ValidateDone
    <2>2. ASSUME CallerStep PROVE UNCHANGED inputVars
      BY <2>2 DEF CallerStep, Park, Ready, TakeStageError, Serial, Place, Install, AwaitPieces,
                  Verdict, Return
    <2> QED
      BY <2>1, <2>2 DEF Next
  <1> QED
    BY <1>1 DEF inputVars

LEMMA FactsStay ==
    ASSUME FrameFacts, frame' = frame
    PROVE  /\ FrameFacts'
           /\ Fcs' = Fcs /\ NSeg' = NSeg /\ Seg' = Seg /\ Candidates' = Candidates
           /\ \A n : StagedPos(n)' = StagedPos(n)
           /\ \A j : NPieces(j)' = NPieces(j) /\ Usable(j)' = Usable(j)
           /\ \A j, k : /\ Start(j, k)' = Start(j, k) /\ End(j, k)' = End(j, k)
                        /\ ValidatePiece(j, k)' = ValidatePiece(j, k)
                        /\ OnBlock(j, k)' = OnBlock(j, k)
                        /\ LagDeep(j, k, 0)' = LagDeep(j, k, 0)
           /\ \A j, k, m : LagDeep(j, k, m)' = LagDeep(j, k, m)
           /\ \A j, pos : Inside(j, pos)' = Inside(j, pos)
           /\ RoundWinner' = RoundWinner
  <1>1. Fcs' = Fcs /\ NSeg' = NSeg /\ Seg' = Seg /\ Candidates' = Candidates
    BY DEF Fcs, NSeg, Seg, Candidates
  <1> QED
    BY <1>1 DEF FrameFacts, StagedPos, NPieces, Start, End, ValidatePiece, OnBlock, LagDeep, Inside,
                Usable, RoundWinner, StagedStarts

(* The contiguous prefix is extended as far as it goes.                     *)
LEMMA ReachIs ==
    ASSUME NSeg \in Nat, NEW sl
    PROVE  \E n \in 0 .. NSeg : (\A i \in 1 .. n : sl[i] = "ok") /\ (n < NSeg => sl[n + 1] # "ok")
  <1> DEFINE T == {n \in 0 .. NSeg : n < NSeg => sl[n + 1] # "ok"}
  <1>1. T \subseteq Nat /\ NSeg \in T
    OBVIOUS
  <1>2. PICK n \in T : \A m \in T : n <= m
    <2> HIDE DEF T
    <2> QED
      BY <1>1, LeastElement
  <1>3. ASSUME NEW i \in 1 .. n PROVE sl[i] = "ok"
    <2>1. i - 1 \in 0 .. NSeg /\ i - 1 < NSeg /\ ~(n <= i - 1) /\ (i - 1) + 1 = i
      BY <1>2
    <2>2. i - 1 \notin T
      BY <1>2, <2>1
    <2> QED
      BY <2>1, <2>2
  <1> QED
    BY <1>2, <1>3

Corrupt(n, count) == count = NSeg /\ StagedPos(n) # Fcs
Fresh(n, count) ==
    IF Corrupt(n, count) THEN Kill(grids)
    ELSE [j \in Candidates |-> Refresh(grids[j], j, n, count = NSeg)]
Advances(t) == ~aborting' /\ ~stageFailed' /\ job[t].id = contig + 1

LEMMA StageEffects ==
    ASSUME PiecesInv, FrameFacts, NEW t \in Thread, StageDone(t)
    PROVE  /\ pc[t] = "stage" /\ pc' = [pc EXCEPT ![t] = AfterJob(t)]
           /\ slots' = [slots EXCEPT ![job[t].id] = IF staging[job[t].id] = "ok" THEN "ok"
                                                  ELSE IF staging[job[t].id] = "err" THEN "failed" ELSE @]
           /\ stagedCount' = stagedCount + 1
           /\ aborting' = (aborting \/ staging[job[t].id] = "panic")
           /\ poison' = (poison \/ staging[job[t].id] = "panic")
           /\ stageFailed' = (stageFailed \/ staging[job[t].id] = "err")
           /\ stageErrors' = IF staging[job[t].id] = "err" THEN stageErrors \cup {job[t].id} ELSE stageErrors
           /\ Advances(t) =>
                /\ contig' \in 0 .. NSeg
                /\ \A i \in 1 .. contig' : slots'[i] = "ok"
                /\ contig' < NSeg => slots'[contig' + 1] # "ok"
                /\ SetGrids(Settle(Fresh(contig', stagedCount'),
                                   IF Corrupt(contig', stagedCount') THEN 0 ELSE winner))
           /\ ~Advances(t) =>
                /\ contig' = contig
                /\ grids' = IF staging[job[t].id] = "err" THEN Kill(grids) ELSE grids
                /\ winner' = winner /\ allDead' = allDead
           /\ UNCHANGED <<nextStage, execVars, phase, job, res>>
           /\ onCv' \in {{}, onCv} /\ parked' \in {parked, FALSE}
  <1> DEFINE s == job[t].id
             out == staging[s]
             newSlots == [slots EXCEPT ![s] = IF out = "ok" THEN "ok" ELSE IF out = "err" THEN "failed" ELSE @]
             advances == ~(aborting \/ out = "panic") /\ ~(stageFailed \/ out = "err") /\ s = contig + 1
             reach == CHOOSE n \in 0 .. NSeg :
                        /\ \A i \in 1 .. n : newSlots[i] = "ok"
                        /\ n < NSeg => newSlots[n + 1] # "ok"
             count == stagedCount + 1
             corrupt == count = NSeg /\ StagedPos(reach) # Fcs
             fresh == IF corrupt THEN Kill(grids)
                      ELSE [j \in DOMAIN grids |-> Refresh(grids[j], j, reach, count = NSeg)]
             settled == Settle(fresh, IF corrupt THEN Withdraw(winner) ELSE winner)
  <1>1. DOMAIN grids = Candidates /\ NSeg \in Nat
    BY DEF PiecesInv, TypeOK, FrameFacts
  <1>2. /\ reach \in 0 .. NSeg
        /\ \A i \in 1 .. reach : newSlots[i] = "ok"
        /\ reach < NSeg => newSlots[reach + 1] # "ok"
    <2> HIDE DEF newSlots
    <2>1. \E n \in 0 .. NSeg : (\A i \in 1 .. n : newSlots[i] = "ok") /\ (n < NSeg => newSlots[n + 1] # "ok")
      BY <1>1, ReachIs
    <2> QED
      BY <2>1
  <1>3. /\ pc[t] = "stage" /\ pc' = [pc EXCEPT ![t] = AfterJob(t)]
        /\ slots' = newSlots /\ stagedCount' = count
        /\ aborting' = (aborting \/ out = "panic")
        /\ poison' = (poison \/ out = "panic")
        /\ stageFailed' = (stageFailed \/ out = "err")
        /\ stageErrors' = IF out = "err" THEN stageErrors \cup {s} ELSE stageErrors
        /\ UNCHANGED <<nextStage, execVars, phase, job, res>>
    BY DEF StageDone, Goto
  <1>4. onCv' \in {{}, onCv}
    BY DEF StageDone, WakeWorkers
  <1>5. parked' \in {parked, FALSE}
    <2>1. parked \in BOOLEAN
      BY DEF PiecesInv, TypeOK
    <2>2. \E y \in BOOLEAN : parked' = (parked /\ ~y)
      <3>1. parked' = (parked /\ ~(winner' # 0 \/ allDead' \/ count = NSeg \/ (aborting \/ out = "panic")))
        BY DEF StageDone, WakeCaller
      <3>2. (winner' # 0 \/ allDead' \/ count = NSeg \/ (aborting \/ out = "panic")) \in BOOLEAN
        OBVIOUS
      <3> QED
        BY <3>1, <3>2, Zenon
    <2> QED
      BY <2>1, <2>2
  <1>6. contig' = IF advances THEN reach ELSE contig
    BY DEF StageDone
  <1>7. IF advances THEN SetGrids(settled)
        ELSE /\ grids' = IF out = "err" THEN Kill(grids) ELSE grids
             /\ winner' = winner /\ allDead' = allDead
    BY DEF StageDone
  <1>8. advances <=> Advances(t)
    BY <1>3 DEF Advances
  <1>9. advances => fresh = Fresh(contig', stagedCount') /\ corrupt = Corrupt(contig', stagedCount')
    <2> SUFFICES ASSUME advances
                 PROVE  fresh = Fresh(contig', stagedCount') /\ corrupt = Corrupt(contig', stagedCount')
      OBVIOUS
    <2>1. contig' = reach /\ stagedCount' = count
      BY <1>3, <1>6
    <2> HIDE DEF reach, count
    <2> QED
      BY <1>1, <2>1 DEF Fresh, Corrupt
  <1> HIDE DEF advances, fresh, corrupt, reach, newSlots
  <1>10. Advances(t) =>
            /\ contig' \in 0 .. NSeg
            /\ \A i \in 1 .. contig' : slots'[i] = "ok"
            /\ contig' < NSeg => slots'[contig' + 1] # "ok"
    BY <1>2, <1>3, <1>6, <1>8
  <1>11. Advances(t) => SetGrids(Settle(Fresh(contig', stagedCount'),
                                   IF Corrupt(contig', stagedCount') THEN 0 ELSE winner))
    BY <1>7, <1>8, <1>9 DEF Withdraw
  <1> QED
    BY <1>3, <1>4, <1>5, <1>6, <1>7, <1>8, <1>10, <1>11 DEF newSlots

LEMMA ValidateEffects ==
    ASSUME PiecesInv, FrameFacts, NEW t \in Thread, ValidateDone(t),
           job[t].grid \in Candidates, job[t].id \in 0 .. grids[job[t].grid].cut - 1
    PROVE  \E gs \in [Candidates -> GridState] :
            /\ SetGrids(Settle(gs, winner))
            /\ \A j \in Candidates : j # job[t].grid => gs[j] = grids[j]
            /\ gs[job[t].grid].alive = (grids[job[t].grid].alive /\ ValidatePiece(job[t].grid, job[t].id).ok)
            /\ gs[job[t].grid].cut = grids[job[t].grid].cut
            /\ gs[job[t].grid].nextValidate = grids[job[t].grid].nextValidate
            /\ gs[job[t].grid].validated = grids[job[t].grid].validated + 1
            /\ gs[job[t].grid].tops =
                IF ValidatePiece(job[t].grid, job[t].id).ok
                THEN [grids[job[t].grid].tops EXCEPT ![job[t].id] = ValidatePiece(job[t].grid, job[t].id).top]
                ELSE grids[job[t].grid].tops
            /\ gs[job[t].grid].tops \in [0 .. grids[job[t].grid].cut - 1 -> Nat]
  <1> DEFINE g == job[t].grid
             k == job[t].id
             walk == ValidatePiece(g, k)
             old == grids[g]
             tops == IF walk.ok THEN [old.tops EXCEPT ![k] = walk.top] ELSE old.tops
             new == [old EXCEPT !.validated = @ + 1, !.tops = tops, !.alive = @ /\ walk.ok]
             gs == [grids EXCEPT ![g].validated = @ + 1,
                                 ![g].tops = IF walk.ok THEN [@ EXCEPT ![k] = walk.top] ELSE @,
                                 ![g].alive = @ /\ walk.ok]
  <1>1. grids \in [Candidates -> GridState]
    BY DEF PiecesInv, TypeOK
  <1>2. old \in GridState /\ old.tops \in [0 .. old.cut - 1 -> Nat] /\ old.cut <= NPieces(g)
    BY <1>1 DEF PiecesInv, GridInv
  <1>3. old.validated \in Nat /\ old.alive \in BOOLEAN /\ old.cut \in Nat
    BY <1>2 DEF GridState
  <1>4. walk.ok \in BOOLEAN /\ walk.top \in Nat
    <2>1. NPieces(g) \in Nat
      <3>1. Fcs \in Nat \ {0} /\ g \in Nat \ {0}
        BY DEF FrameFacts
      <3> QED
        BY <3>1, GridFacts
    <2>2. k \in 0 .. NPieces(g) - 1
      BY <1>2, <1>3, <2>1
    <2> QED
      BY <2>2 DEF FrameFacts
  <1>5. SetGrids(Settle(gs, winner))
    BY DEF ValidateDone
  <1>6. gs = [grids EXCEPT ![g] = new]
    BY <1>1
  <1> HIDE DEF walk, gs, old
  <1>7. tops \in [0 .. old.cut - 1 -> Nat]
    BY <1>2, <1>4
  <1>8. /\ new \in GridState /\ new.alive = (old.alive /\ walk.ok) /\ new.cut = old.cut
        /\ new.nextValidate = old.nextValidate /\ new.validated = old.validated + 1
        /\ new.tops = tops
    <2> HIDE DEF tops
    <2>1. new = [old EXCEPT !.validated = old.validated + 1, !.tops = tops, !.alive = old.alive /\ walk.ok]
      BY <1>2 DEF GridState
    <2>2. tops \in UNION {[0 .. n - 1 -> Nat] : n \in Nat}
      BY <1>3, <1>7
    <2> DEFINE live == old.alive /\ walk.ok
    <2>3. live \in BOOLEAN
      BY <1>3, <1>4
    <2>4. old.validated + 1 \in Nat
      BY <1>3
    <2>5. new = [old EXCEPT !.validated = old.validated + 1, !.tops = tops, !.alive = live]
      BY <2>1
    <2> HIDE DEF live, new
    <2> QED
      <3> DEFINE up == old.validated + 1
      <3>1. new = [old EXCEPT !.validated = up, !.tops = tops, !.alive = live] /\ up \in Nat
        BY <2>4, <2>5
      <3> HIDE DEF up
      <3>2. /\ new \in GridState /\ new.alive = live /\ new.cut = old.cut
            /\ new.nextValidate = old.nextValidate /\ new.validated = up
            /\ new.tops = tops
        BY <1>2, <2>2, <2>3, <3>1 DEF GridState
      <3> QED
        BY <3>2 DEF live, up
  <1> HIDE DEF new
  <1>9. gs \in [Candidates -> GridState] /\ gs[g] = new /\ \A j \in Candidates : j # g => gs[j] = grids[j]
    BY <1>1, <1>6, <1>8
  <1> QED
    BY <1>5, <1>7, <1>8, <1>9 DEF walk, old, tops

(* Where the done prefix ends once piece k is done.                         *)
LEMMA DoneGrows ==
    ASSUME PiecesInv, FrameFacts, NEW t \in Thread, ExecDone(t)
    PROVE  /\ watermarkPiece' \in Nat /\ watermarkPiece' >= watermarkPiece
           /\ 0 .. watermarkPiece' - 1 \subseteq done' /\ watermarkPiece' \notin done'
           /\ absorbNext' \in {absorbNext, watermarkPiece'}
  <1> DEFINE k == job[t].id
             n == NPieces(pieces)
             W(d) == CHOOSE m \in 0 .. n : 0 .. m - 1 \subseteq d /\ m \notin d
  <1>1. /\ pc[t] = "exec" /\ phase = "execute" /\ pieces \in Candidates
        /\ k < nextPiece /\ k \notin done /\ k \in Nat
    <2>1. pc[t] = "exec" /\ job[t] \in [grid : Candidates \cup {0}, id : Nat]
      BY DEF ExecDone, PiecesInv, TypeOK
    <2> QED
      BY <2>1 DEF PiecesInv, ExecInv, VerdictInv, TypeOK
  <1>2. n \in Nat
    <2>1. Fcs \in Nat \ {0} /\ pieces \in Nat \ {0}
      BY <1>1 DEF FrameFacts
    <2> QED
      BY <2>1, GridFacts
  <1>3. /\ nextPiece \in Nat /\ nextPiece <= n /\ done \subseteq 0 .. nextPiece - 1
        /\ watermarkPiece \in Nat /\ 0 .. watermarkPiece - 1 \subseteq done /\ watermarkPiece \notin done
    BY <1>1 DEF PiecesInv, ExecInv, TypeOK
  <1>4. absorbNext' \in {absorbNext, watermarkPiece'}
    BY DEF ExecDone
  <1>5. CASE frame.piece[pieces][k].exec = "ok"
    <2>1. done' = done \cup {k} /\ watermarkPiece' = (IF k # watermarkPiece THEN watermarkPiece ELSE W(done'))
      BY <1>5 DEF ExecDone, Prefix
    <2>2. done' \subseteq 0 .. n - 1
      <3> HIDE DEF k, n
      <3>1. k \in 0 .. n - 1 /\ \A x \in done : x \in 0 .. n - 1
        BY <1>1, <1>2, <1>3
      <3> QED
        BY <2>1, <3>1
    <2>3. CASE k # watermarkPiece
      BY <1>3, <1>4, <2>1, <2>3
    <2>4. CASE k = watermarkPiece
      <3> DEFINE T == {m \in 0 .. n : m \notin done'}
      <3>1. n \in T /\ T \subseteq Nat
        BY <1>2, <2>2
      <3>2. PICK m \in T : \A y \in T : m <= y
        <4> HIDE DEF T
        <4> QED
          BY <3>1, LeastElement
      <3>3. 0 .. m - 1 \subseteq done'
        <4> SUFFICES ASSUME NEW i \in 0 .. m - 1, i \notin done' PROVE FALSE
          OBVIOUS
        <4>1. i \in T /\ ~(m <= i)
          BY <1>2, <3>2
        <4> QED
          BY <3>2, <4>1
      <3>4. m \in 0 .. n /\ m \notin done'
        BY <3>2
      <3>5. W(done') \in 0 .. n /\ 0 .. W(done') - 1 \subseteq done' /\ W(done') \notin done'
        <4> DEFINE d == done'
        <4>1. \E x \in 0 .. n : 0 .. x - 1 \subseteq d /\ x \notin d
          BY <3>3, <3>4
        <4> HIDE DEF d, n
        <4>2. W(d) \in 0 .. n /\ 0 .. W(d) - 1 \subseteq d /\ W(d) \notin d
          BY <4>1
        <4> QED
          BY <4>2 DEF d
      <3> DEFINE w == W(done')
      <3>6. watermarkPiece' = w /\ w \in Nat
        BY <1>2, <2>1, <2>4, <3>5
      <3>7. 0 .. w - 1 \subseteq done' /\ w \notin done'
        BY <3>5
      <3> HIDE DEF w
      <3>8. w >= watermarkPiece
        <4> SUFFICES ASSUME w < watermarkPiece PROVE FALSE
          BY <1>3, <3>6
        <4>1. w \in 0 .. watermarkPiece - 1
          BY <1>3, <3>6
        <4> QED
          BY <1>3, <2>1, <3>7, <4>1
      <3> QED
        BY <1>4, <3>6, <3>7, <3>8
    <2> QED
      BY <2>3, <2>4
  <1>6. CASE frame.piece[pieces][k].exec # "ok"
    <2>1. done' = done /\ watermarkPiece' = watermarkPiece
      BY <1>6 DEF ExecDone
    <2> QED
      BY <1>3, <1>4, <2>1
  <1> QED
    BY <1>5, <1>6

LEMMA FreshIs ==
    ASSUME PiecesInv, FrameFacts, NEW n \in 0 .. NSeg, NEW count \in Nat
    PROVE  /\ Fresh(n, count) \in [Candidates -> GridState]
           /\ Kill(grids) \in [Candidates -> GridState]
           /\ \A j \in Candidates :
                /\ Kill(grids)[j] = [grids[j] EXCEPT !.alive = FALSE]
                /\ Fresh(n, count)[j] = IF Corrupt(n, count) THEN [grids[j] EXCEPT !.alive = FALSE]
                                        ELSE Refresh(grids[j], j, n, count = NSeg)
  <1>1. grids \in [Candidates -> GridState]
    BY DEF PiecesInv, TypeOK
  <1>2. \A j \in Candidates : Kill(grids)[j] = [grids[j] EXCEPT !.alive = FALSE]
    BY <1>1 DEF Kill
  <1>3. ASSUME NEW g \in GridState PROVE [g EXCEPT !.alive = FALSE] \in GridState
    BY DEF GridState
  <1>4. Kill(grids) \in [Candidates -> GridState]
    BY <1>1, <1>3 DEF Kill
  <1>5. ASSUME NEW j \in Candidates PROVE Refresh(grids[j], j, n, count = NSeg) \in GridState
    <2>1. grids[j] \in GridState /\ grids[j].tops \in [0 .. grids[j].cut - 1 -> Nat]
      BY <1>1 DEF PiecesInv, GridInv
    <2>2. (count = NSeg) \in BOOLEAN
      OBVIOUS
    <2> QED
      BY <2>1, <2>2, RefreshIs
  <1>6. Fresh(n, count) \in [Candidates -> GridState]
    BY <1>4, <1>5 DEF Fresh
  <1>7. \A j \in Candidates :
            Fresh(n, count)[j] = IF Corrupt(n, count) THEN [grids[j] EXCEPT !.alive = FALSE]
                                 ELSE Refresh(grids[j], j, n, count = NSeg)
    BY <1>2 DEF Fresh
  <1> QED
    BY <1>2, <1>4, <1>6, <1>7

(* Where the thread that moves goes, and with which job.                    *)
Moves(t, l, b) == pc' = [pc EXCEPT ![t] = l] /\ job' = [job EXCEPT ![t] = b]
JobType == [grid : Candidates \cup {0}, id : Nat]

LEMMA WhoMoves ==
    ASSUME PiecesInv, FrameFacts, Next
    PROVE  \E t \in Thread, l \in Label, b \in JobType : Moves(t, l, b)
  <1>1. pc \in [Thread -> Label] /\ job \in [Thread -> JobType] /\ Caller \in Thread /\ nextStage \in Nat
        /\ grids \in [Candidates -> GridState] /\ pieces \in Candidates \cup {0} /\ nextPiece \in Nat
    BY DEF PiecesInv, TypeOK, JobType, Thread, FrameFacts
  <1>2. ASSUME NEW t \in Thread PROVE pc[t] \in Label /\ job[t] \in JobType /\ pc = [pc EXCEPT ![t] = pc[t]]
                                      /\ job = [job EXCEPT ![t] = job[t]] /\ AfterJob(t) \in Label
    BY <1>1 DEF AfterJob, Label
  <1>3. ASSUME NEW t \in Thread, NEW l \in Label, Goto(t, l), job' = job
        PROVE  \E u \in Thread, m \in Label, b \in JobType : Moves(u, m, b)
    <2>1. job[t] \in JobType /\ job = [job EXCEPT ![t] = job[t]]
      BY <1>2
    <2>2. Moves(t, l, job[t])
      BY <1>3, <2>1 DEF Moves, Goto
    <2> QED
      BY ONLY <1>3, <2>1, <2>2
  <1>4. ASSUME NEW t \in Thread, NEW l \in Label, NEW g \in Candidates \cup {0}, NEW i \in Nat, GotoJob(t, l, g, i)
        PROVE  \E u \in Thread, m \in Label, b \in JobType : Moves(u, m, b)
    <2>1. [grid |-> g, id |-> i] \in JobType
      BY DEF JobType
    <2> QED
      BY <1>4, <2>1 DEF Moves, Goto, GotoJob
  <1>5. ASSUME pc' = pc, job' = job
        PROVE  \E u \in Thread, m \in Label, b \in JobType : Moves(u, m, b)
    BY <1>1, <1>2, <1>5 DEF Moves
  <1>6. ASSUME NEW t \in Thread, ThreadStep(t)
        PROVE  \E u \in Thread, m \in Label, b \in JobType : Moves(u, m, b)
    <2>1. CASE Quit(t)
      <3>1. (IF t = Caller THEN "verdict" ELSE "left") \in Label
        BY DEF Label
      <3> QED
        BY <1>3, <2>1, <3>1 DEF Quit
    <2>2. CASE ClaimStage(t)
      <3>1. "stage" \in Label
        BY DEF Label
      <3> QED
        BY <1>1, <1>4, <2>2, <3>1 DEF ClaimStage
    <2>3. CASE ClaimValidate(t)
      <3>1. PICK j \in Walkable : GotoJob(t, "validate", j, grids[j].nextValidate)
        BY <2>3 DEF ClaimValidate
      <3>2. j \in Candidates
        BY <1>1, <3>1 DEF Walkable
      <3>3. grids[j].nextValidate \in Nat /\ "validate" \in Label
        BY <1>1, <3>2 DEF GridState, Label
      <3> QED
        BY <1>4, <3>1, <3>2, <3>3
    <2>4. CASE ClaimExec(t)
      <3>1. "gate" \in Label
        BY DEF Label
      <3> QED
        BY <1>1, <1>4, <2>4, <3>1 DEF ClaimExec
    <2>5. CASE ClaimWait(t) \/ GateWait(t)
      BY <1>5, <2>5 DEF ClaimWait, GateWait
    <2>6. CASE PassGate(t)
      <3>1. "claim" \in Label /\ "exec" \in Label
        BY DEF Label
      <3> QED
        BY <1>3, <2>6, <3>1 DEF PassGate
    <2>7. CASE ExecDone(t) \/ ValidateDone(t)
      <3>1. "claim" \in Label
        BY DEF Label
      <3> QED
        BY <1>3, <2>7, <3>1 DEF ExecDone, ValidateDone
    <2>8. CASE StageDone(t)
      BY <1>2, <1>3, <2>8 DEF StageDone
    <2> QED
      BY <1>6, <2>1, <2>2, <2>3, <2>4, <2>5, <2>6, <2>7, <2>8 DEF ThreadStep, QuickStep
  <1>7. ASSUME CallerStep
        PROVE  \E u \in Thread, m \in Label, b \in JobType : Moves(u, m, b)
    <2>1. ASSUME NEW l \in Label, GotoC(l), job' = job
          PROVE  \E u \in Thread, m \in Label, b \in JobType : Moves(u, m, b)
      BY <1>1, <1>3, <2>1 DEF GotoC
    <2>2. /\ "join" \in Label /\ "stageError" \in Label /\ "verdictTaken" \in Label /\ "install" \in Label
          /\ "claim" \in Label /\ "returned" \in Label
      BY DEF Label
    <2>3. CASE Park \/ AwaitPieces
      BY <1>5, <2>3 DEF Park, AwaitPieces
    <2>4. CASE Ready
      BY <2>1, <2>2, <2>4 DEF Ready
    <2>5. CASE TakeStageError \/ Place
      BY <2>1, <2>2, <2>5 DEF TakeStageError, Place, AbortWith
    <2>6. CASE Serial \/ Install \/ Verdict \/ Return
      BY <2>1, <2>2, <2>6 DEF Serial, Install, Verdict, Return
    <2> QED
      BY <1>7, <2>3, <2>4, <2>5, <2>6 DEF CallerStep
  <1> QED
    BY <1>6, <1>7 DEF Next

(* The grids, the winner and allDead change only where a segment or a walk  *)
(* is done, or a piece is claimed for walking.                              *)
LEMMA GridsStand ==
    ASSUME Next
    PROVE  \/ UNCHANGED gridVars
           \/ \E t \in Thread : StageDone(t) \/ ValidateDone(t) \/ ClaimValidate(t)
  <1>1. ASSUME NEW t \in Thread, ThreadStep(t)
        PROVE  UNCHANGED gridVars \/ StageDone(t) \/ ValidateDone(t) \/ ClaimValidate(t)
    BY <1>1 DEF ThreadStep, QuickStep, Quit, ClaimStage, ClaimExec, ClaimWait, PassGate, GateWait, ExecDone
  <1>2. ASSUME CallerStep PROVE UNCHANGED gridVars
    BY <1>2 DEF CallerStep, Park, Ready, TakeStageError, Serial, Place, Install, AwaitPieces,
                Verdict, Return
  <1> QED
    BY <1>1, <1>2 DEF Next

LEMMA ValidateIn ==
    ASSUME PiecesInv, FrameFacts, NEW t \in Thread, pc[t] = "validate"
    PROVE  /\ job[t].grid \in Candidates
           /\ job[t].id \in Busy("validate", job[t].grid)
           /\ job[t].id \in 0 .. grids[job[t].grid].nextValidate - 1
           /\ job[t].id \in 0 .. grids[job[t].grid].cut - 1
           /\ job[t].id \in 0 .. NPieces(job[t].grid) - 1
  <1> DEFINE g == job[t].grid
             k == job[t].id
  <1>1. g \in Candidates
    BY DEF PiecesInv, ExecInv
  <1>2. k \in Busy("validate", g)
    BY DEF Busy
  <1>3. Busy("validate", g) \subseteq 0 .. grids[g].nextValidate - 1
        /\ grids[g].nextValidate <= grids[g].cut /\ grids[g].cut <= NPieces(g)
    BY <1>1 DEF PiecesInv, GridInv
  <1>4. grids[g].nextValidate \in Nat /\ grids[g].cut \in Nat
    BY <1>1 DEF PiecesInv, TypeOK, GridState
  <1>5. NPieces(g) \in Nat
    <2>1. Fcs \in Nat \ {0} /\ g \in Nat \ {0}
      BY <1>1 DEF FrameFacts
    <2> QED
      BY <2>1, GridFacts
  <1> HIDE DEF g, k
  <1>6. k \in 0 .. grids[g].nextValidate - 1 /\ k \in 0 .. grids[g].cut - 1 /\ k \in 0 .. NPieces(g) - 1
    BY <1>2, <1>3, <1>4, <1>5
  <1> QED
    BY <1>1, <1>2, <1>6 DEF g, k

LEMMA StageIn ==
    ASSUME PiecesInv, FrameFacts, NEW t \in Thread, pc[t] = "stage"
    PROVE  job[t].grid = 0 /\ job[t].id \in Seg /\ job[t].id \in Busy("stage", 0) /\ job[t].id < nextStage
  <1>1. job[t].grid = 0 /\ job[t].id \in 1 .. nextStage - 1 /\ nextStage \in 1 .. NSeg + 1 /\ NSeg \in Nat
    BY DEF PiecesInv, StagingInv, TypeOK, FrameFacts
  <1>2. job[t].id \in Seg /\ job[t].id < nextStage
    BY <1>1 DEF Seg
  <1> QED
    BY <1>1, <1>2 DEF Busy

LEMMA GridsTyped ==
    ASSUME PiecesInv, FrameFacts, Next
    PROVE  grids' \in [Candidates -> GridState] /\ winner' \in Candidates \cup {0} /\ allDead' \in BOOLEAN
  <1>1. grids \in [Candidates -> GridState] /\ winner \in Candidates \cup {0} /\ allDead \in BOOLEAN
        /\ contig \in 0 .. NSeg /\ stagedCount \in Nat
    BY DEF PiecesInv, TypeOK
  <1>2. ASSUME NEW gs \in [Candidates -> GridState], NEW win \in Candidates \cup {0}, SetGrids(Settle(gs, win))
        PROVE  grids' \in [Candidates -> GridState] /\ winner' \in Candidates \cup {0} /\ allDead' \in BOOLEAN
    BY <1>1, <1>2, SettleIs DEF SetGrids
  <1>3. CASE UNCHANGED gridVars
    BY <1>1, <1>3 DEF gridVars
  <1>4. ASSUME NEW t \in Thread, StageDone(t)
        PROVE  grids' \in [Candidates -> GridState] /\ winner' \in Candidates \cup {0} /\ allDead' \in BOOLEAN
    <2>1. CASE Advances(t)
      <3> DEFINE win == IF Corrupt(contig', stagedCount') THEN 0 ELSE winner
                 gs == Fresh(contig', stagedCount')
      <3>1. contig' \in 0 .. NSeg /\ stagedCount' = stagedCount + 1 /\ SetGrids(Settle(gs, win))
        BY <1>4, <2>1, StageEffects
      <3>2. stagedCount' \in Nat
        BY <1>1, <3>1
      <3>3. gs \in [Candidates -> GridState]
        <4>1. ASSUME NEW n \in 0 .. NSeg, NEW count \in Nat PROVE Fresh(n, count) \in [Candidates -> GridState]
          BY FreshIs
        <4> QED
          BY <3>1, <3>2, <4>1
      <3>4. win \in Candidates \cup {0}
        BY <1>1
      <3> HIDE DEF gs, win
      <3> QED
        BY <1>2, <3>1, <3>3, <3>4
    <2>2. CASE ~Advances(t)
      <3>1. Kill(grids) \in [Candidates -> GridState]
        <4>1. 0 \in 0 .. NSeg /\ 0 \in Nat
          BY DEF FrameFacts
        <4> QED
          BY <4>1, FreshIs
      <3> QED
        BY <1>1, <1>4, <2>2, <3>1, StageEffects
    <2> QED
      BY <2>1, <2>2
  <1>5. ASSUME NEW t \in Thread, ValidateDone(t)
        PROVE  grids' \in [Candidates -> GridState] /\ winner' \in Candidates \cup {0} /\ allDead' \in BOOLEAN
    <2>1. job[t].grid \in Candidates /\ job[t].id \in 0 .. grids[job[t].grid].cut - 1
      BY <1>5, ValidateIn DEF ValidateDone
    <2>2. PICK gs \in [Candidates -> GridState] : SetGrids(Settle(gs, winner))
      BY <1>5, <2>1, ValidateEffects
    <2> QED
      BY <1>1, <1>2, <2>2
  <1>6. ASSUME NEW t \in Thread, ClaimValidate(t)
        PROVE  grids' \in [Candidates -> GridState] /\ winner' \in Candidates \cup {0} /\ allDead' \in BOOLEAN
    <2>1. PICK j \in Walkable : grids' = [grids EXCEPT ![j].nextValidate = @ + 1]
      BY <1>6 DEF ClaimValidate
    <2>2. j \in Candidates
      BY <1>1, <2>1 DEF Walkable
    <2>3. grids' \in [Candidates -> GridState]
      <3> DEFINE new == [grids[j] EXCEPT !.nextValidate = @ + 1]
      <3>1. new \in GridState
        <4> DEFINE g == grids[j]
        <4>1. g \in GridState
          BY <1>1, <2>2
        <4> HIDE DEF g
        <4>2. [g EXCEPT !.nextValidate = @ + 1] \in GridState
          BY <4>1, SMTT(30) DEF GridState
        <4> QED
          BY <4>2 DEF g, new
      <3>2. grids' = [grids EXCEPT ![j] = new]
        BY <2>1
      <3> HIDE DEF new
      <3> QED
        BY <1>1, <3>1, <3>2
    <2>4. winner' = winner /\ allDead' = allDead
      BY <1>6 DEF ClaimValidate
    <2> QED
      BY <1>1, <2>3, <2>4
  <1> QED
    BY <1>3, <1>4, <1>5, <1>6, GridsStand

LEMMA TypeStep ==
    ASSUME PiecesInv, FrameFacts, Next
    PROVE  TypeOK'
  <1>1. /\ frame' = frame /\ staging' = staging /\ placeOk' = placeOk /\ sumOk' = sumOk
        /\ Seg' = Seg /\ NSeg' = NSeg /\ Candidates' = Candidates
    BY InputsFixed, FactsStay
  <1>2. grids' \in [Candidates -> GridState] /\ winner' \in Candidates \cup {0} /\ allDead' \in BOOLEAN
    BY GridsTyped
  <1>3. pc' \in [Thread -> Label] /\ job' \in [Thread -> JobType]
    <2>1. pc \in [Thread -> Label] /\ job \in [Thread -> JobType]
      BY DEF PiecesInv, TypeOK, JobType
    <2>2. PICK t \in Thread, l \in Label, b \in JobType : Moves(t, l, b)
      BY WhoMoves
    <2> QED
      BY <2>1, <2>2 DEF Moves
  <1>4. /\ slots \in [Seg -> {"pending", "ok", "failed"}]
        /\ stagedCount \in Nat /\ nextStage \in 1 .. NSeg + 1 /\ stageErrors \subseteq Seg
        /\ contig \in 0 .. NSeg /\ stageFailed \in BOOLEAN /\ NSeg \in Nat
        /\ aborting \in BOOLEAN /\ poison \in BOOLEAN
    BY DEF PiecesInv, TypeOK, FrameFacts
  <1>5. /\ pieces \in Candidates \cup {0} /\ nextPiece \in Nat /\ done \subseteq Nat
        /\ watermarkPiece \in Nat /\ absorbNext \in Nat /\ execErr \in BOOLEAN
        /\ onCv \subseteq Thread /\ parked \in BOOLEAN /\ res \in Result
        /\ phase \in {"staging", "execute", "serial"} /\ winner \in Candidates \cup {0}
        /\ Caller \in Thread
    BY DEF PiecesInv, TypeOK, Thread
  <1>6. /\ slots' \in [Seg -> {"pending", "ok", "failed"}]
        /\ stagedCount' \in Nat /\ stageErrors' \subseteq Seg
        /\ contig' \in 0 .. NSeg /\ stageFailed' \in BOOLEAN
    <2>1. ASSUME NEW t \in Thread, StageDone(t)
          PROVE  /\ slots' \in [Seg -> {"pending", "ok", "failed"}]
                 /\ stagedCount' \in Nat /\ stageErrors' \subseteq Seg
                 /\ contig' \in 0 .. NSeg /\ stageFailed' \in BOOLEAN
      <3>1. job[t].id \in Seg
        BY <2>1, StageIn DEF StageDone
      <3> DEFINE s == job[t].id
                 out == staging[s]
                 b == IF out = "ok" THEN "ok" ELSE IF out = "err" THEN "failed" ELSE slots[s]
      <3>2. slots' = [slots EXCEPT ![s] = b] /\ stagedCount' = stagedCount + 1
            /\ stageErrors' = (IF out = "err" THEN stageErrors \cup {s} ELSE stageErrors)
            /\ stageFailed' = (stageFailed \/ out = "err")
        <4>1. slots' = [slots EXCEPT ![s] = IF out = "ok" THEN "ok" ELSE IF out = "err" THEN "failed" ELSE @]
          BY <2>1, StageEffects
        <4>2. slots' = [slots EXCEPT ![s] = b]
          BY <1>4, <4>1
        <4> QED
          BY <2>1, <4>2, StageEffects
      <3>5. b \in {"pending", "ok", "failed"}
        BY <1>4, <3>1
      <3> HIDE DEF s, out, b
      <3>6. s \in Seg
        BY <3>1 DEF s
      <3>7. slots' \in [Seg -> {"pending", "ok", "failed"}]
        BY <1>4, <3>2, <3>5, <3>6
      <3>3. stagedCount' \in Nat /\ stageErrors' \subseteq Seg
        BY <1>4, <3>2, <3>6
      <3>8. stageFailed' \in BOOLEAN
        BY <1>4, <3>2
      <3>4. contig' \in 0 .. NSeg
        BY <1>4, <2>1, StageEffects
      <3> QED
        BY <3>3, <3>4, <3>7, <3>8
    <2>2. ASSUME NEW t \in Thread, ThreadStep(t), ~StageDone(t)
          PROVE  UNCHANGED <<slots, stagedCount, stageErrors, contig, stageFailed>>
      BY <2>2 DEF ThreadStep, QuickStep, Quit, ClaimStage, ClaimValidate, ClaimExec, ClaimWait,
                  PassGate, GateWait, ExecDone, ValidateDone, stageVars, gridVars
    <2>3. ASSUME CallerStep
          PROVE  UNCHANGED <<slots, stagedCount, stageErrors, contig, stageFailed>>
      BY <2>3 DEF CallerStep, Park, Ready, TakeStageError, Serial, Place, Install, AwaitPieces,
                  Verdict, Return, stageVars, gridVars
    <2> QED
      BY <1>4, <2>1, <2>2, <2>3 DEF Next
  <1>7. ASSUME NEW t \in Thread, ThreadStep(t)
        PROVE  /\ nextStage' \in 1 .. NSeg + 1 /\ aborting' \in BOOLEAN /\ poison' \in BOOLEAN
               /\ pieces' \in Candidates \cup {0} /\ nextPiece' \in Nat /\ done' \subseteq Nat
               /\ watermarkPiece' \in Nat /\ absorbNext' \in Nat /\ execErr' \in BOOLEAN
               /\ onCv' \subseteq Thread /\ parked' \in BOOLEAN /\ res' \in Result
               /\ phase' \in {"staging", "execute", "serial"}
    <2>1. CASE Quit(t) \/ ClaimValidate(t) \/ ClaimWait(t) \/ PassGate(t) \/ GateWait(t)
      BY <1>4, <1>5, <2>1 DEF Quit, ClaimValidate, ClaimWait, PassGate, GateWait, stageVars, execVars
    <2>2. CASE ClaimExec(t)
      BY <1>4, <1>5, <2>2 DEF ClaimExec, stageVars
    <2>6. CASE ClaimStage(t)
      <3>1. nextStage <= NSeg /\ nextStage' = nextStage + 1
        BY <2>6 DEF ClaimStage
      <3>2. nextStage' \in 1 .. NSeg + 1
        BY <1>4, <3>1
      <3> QED
        BY <1>4, <1>5, <2>6, <3>2 DEF ClaimStage, execVars
    <2>3. CASE StageDone(t)
      <3>1. aborting' \in BOOLEAN /\ poison' \in BOOLEAN
        BY <1>4, <2>3, StageEffects
      <3>2. /\ UNCHANGED <<nextStage, execVars, phase, job, res>>
            /\ onCv' \in {{}, onCv} /\ parked' \in {parked, FALSE}
        BY <2>3, StageEffects
      <3> QED
        BY <1>4, <1>5, <3>1, <3>2 DEF execVars
    <2>4. CASE ValidateDone(t)
      BY <1>4, <1>5, <2>4 DEF ValidateDone, WakeWorkers, WakeCaller, stageVars, execVars
    <2>5. CASE ExecDone(t)
      <3>1. pc[t] = "exec" /\ job[t] \in JobType
        BY <2>5 DEF ExecDone, PiecesInv, TypeOK, JobType
      <3> DEFINE k == job[t].id
                 y == Cardinality(done') = NPieces(pieces) \/ aborting'
      <3>2. k \in Nat
        BY <3>1 DEF JobType
      <3>3. done' \in {done, done \cup {k}} /\ aborting' \in {aborting, TRUE}
            /\ absorbNext' \in {absorbNext, watermarkPiece'} /\ onCv' \in {onCv, {}}
        BY <2>5 DEF ExecDone, WakeWorkers
      <3>4. poison' \in BOOLEAN /\ execErr' \in BOOLEAN
        BY <1>4, <1>5, <2>5 DEF ExecDone
      <3>5. parked' = (parked /\ ~y)
        BY <2>5 DEF ExecDone, WakeCaller
      <3>6. parked' \in BOOLEAN
        BY <1>5, <3>5, Zenon
      <3>7. watermarkPiece' \in Nat
        BY <1>5, <2>5, <3>2, DoneGrows
      <3>8. UNCHANGED <<nextStage, pieces, nextPiece, phase, res>>
        BY <2>5 DEF ExecDone, stageVars
      <3> HIDE DEF k, y
      <3> QED
        BY <1>4, <1>5, <3>2, <3>3, <3>4, <3>6, <3>7, <3>8
    <2> QED
      BY <1>7, <2>1, <2>2, <2>3, <2>4, <2>5, <2>6 DEF ThreadStep, QuickStep
  <1>8. ASSUME CallerStep
        PROVE  /\ nextStage' \in 1 .. NSeg + 1 /\ aborting' \in BOOLEAN /\ poison' \in BOOLEAN
               /\ pieces' \in Candidates \cup {0} /\ nextPiece' \in Nat /\ done' \subseteq Nat
               /\ watermarkPiece' \in Nat /\ absorbNext' \in Nat /\ execErr' \in BOOLEAN
               /\ onCv' \subseteq Thread /\ parked' \in BOOLEAN /\ res' \in Result
               /\ phase' \in {"staging", "execute", "serial"}
    <2>1. CASE Park \/ AwaitPieces
      BY <1>4, <1>5, <2>1 DEF Park, AwaitPieces, stageVars, execVars
    <2>2. CASE Ready
      BY <1>4, <1>5, <2>2 DEF Ready, stageVars, execVars, Result
    <2>3. CASE TakeStageError \/ Place
      <3>1. CASE TakeStageError
        BY <1>4, <1>5, <2>3, <3>1 DEF TakeStageError, AbortWith, WakeWorkers, stageVars, execVars, Result
      <3>2. CASE Place
        BY <1>4, <1>5, <2>3, <3>2 DEF Place, AbortWith, WakeWorkers, stageVars, execVars, Result
      <3> QED
        BY <2>3, <3>1, <3>2
    <2>4. CASE Serial
      <3>1. SerialResult \in Result
        BY DEF SerialResult, Result
      <3> QED
        BY <1>4, <1>5, <2>4, <3>1 DEF Serial, WakeWorkers, stageVars, execVars
    <2>5. CASE Install
      BY <1>4, <1>5, <2>5 DEF Install, WakeWorkers, stageVars
    <2>6. CASE Verdict
      <3> DEFINE r == IF execErr THEN "exec" ELSE IF aborting THEN "aborted"
                      ELSE IF sumOk THEN "ok" ELSE "sum"
      <3>1. r \in Result
        BY DEF Result
      <3>2. NPieces(pieces) \in Nat
        <4>1. phase = "execute" /\ pieces \in Candidates
          BY <1>5, <2>6 DEF Verdict, At, PiecesInv, ExecInv, VerdictInv
        <4>2. Fcs \in Nat \ {0} /\ pieces \in Nat \ {0}
          BY <4>1 DEF FrameFacts
        <4> QED
          BY <4>2, GridFacts
      <3>3. res' = r /\ absorbNext' = (IF r \in {"ok", "sum"} THEN NPieces(pieces) ELSE absorbNext)
            /\ aborting' = (aborting \/ r # "ok") /\ onCv' = (IF r # "ok" THEN {} ELSE onCv)
        BY <2>6 DEF Verdict, WakeWorkers
      <3> HIDE DEF r
      <3>4. UNCHANGED <<nextStage, pieces, nextPiece, done, watermarkPiece, phase, poison, parked>>
            /\ execErr' = FALSE
        BY <2>6 DEF Verdict, stageVars
      <3> QED
        BY <1>4, <1>5, <3>1, <3>2, <3>3, <3>4
    <2>7. CASE Return
      BY <1>4, <1>5, <2>7 DEF Return, stageVars, execVars, Result
    <2> QED
      BY <1>8, <2>1, <2>2, <2>3, <2>4, <2>5, <2>6, <2>7 DEF CallerStep
  <1>9. \E f \in Frames : frame' = Laid(f)
    BY <1>1 DEF PiecesInv, TypeOK
  <1>10. staging' \in [Seg -> {"ok", "err", "panic"}] /\ placeOk' \in BOOLEAN /\ sumOk' \in BOOLEAN
    BY <1>1 DEF PiecesInv, TypeOK
  <1> QED
    <2>1. /\ nextStage' \in 1 .. NSeg + 1 /\ aborting' \in BOOLEAN /\ poison' \in BOOLEAN
          /\ pieces' \in Candidates \cup {0} /\ nextPiece' \in Nat /\ done' \subseteq Nat
          /\ watermarkPiece' \in Nat /\ absorbNext' \in Nat /\ execErr' \in BOOLEAN
          /\ onCv' \subseteq Thread /\ parked' \in BOOLEAN /\ res' \in Result
          /\ phase' \in {"staging", "execute", "serial"}
      BY <1>7, <1>8 DEF Next
    <2> QED
      BY <1>1, <1>2, <1>3, <1>6, <1>9, <1>10, <2>1 DEF TypeOK, JobType

-----------------------------------------------------------------------------
(* Who is busy with what.                                                   *)

(* The moves of a step: threads claim and finish their work, and otherwise  *)
(* walk through labels without work.                                        *)
Strolls(t, l) ==
    /\ pc' = [pc EXCEPT ![t] = l] /\ job' = job
    /\ pc[t] \notin {"stage", "validate"} /\ l \notin {"stage", "validate", "gate", "exec"}

LEMMA Kinds ==
    ASSUME PiecesInv, FrameFacts, Next
    PROVE  \/ pc' = pc /\ job' = job
           \/ \E t \in Thread : ClaimStage(t) \/ ClaimValidate(t) \/ ClaimExec(t)
                                \/ StageDone(t) \/ ValidateDone(t)
           \/ \E t \in Thread : /\ pc[t] = "gate" /\ pc' = [pc EXCEPT ![t] = "exec"] /\ job' = job
                                /\ PassGate(t)
           \/ \E t \in Thread, l \in Label : Strolls(t, l)
  <1> DEFINE Goal == \/ pc' = pc /\ job' = job
                     \/ \E t \in Thread : ClaimStage(t) \/ ClaimValidate(t) \/ ClaimExec(t)
                                          \/ StageDone(t) \/ ValidateDone(t)
                     \/ \E t \in Thread : /\ pc[t] = "gate" /\ pc' = [pc EXCEPT ![t] = "exec"] /\ job' = job
                                          /\ PassGate(t)
                     \/ \E t \in Thread, l \in Label : Strolls(t, l)
  <1>1. ASSUME NEW t \in Thread, ThreadStep(t) PROVE Goal
    <2>1. CASE Quit(t)
      <3> DEFINE l == IF t = Caller THEN "verdict" ELSE "left"
      <3>1. pc[t] = "claim" /\ pc' = [pc EXCEPT ![t] = l] /\ job' = job
        BY <2>1 DEF Quit, Claiming, Goto
      <3>2. l \in Label /\ l \notin {"stage", "validate", "gate", "exec"}
        BY DEF Label
      <3> HIDE DEF l
      <3>3. Strolls(t, l)
        BY <3>1, <3>2 DEF Strolls
      <3> QED
        BY <3>2, <3>3
    <2>2. CASE ClaimStage(t) \/ ClaimValidate(t) \/ ClaimExec(t) \/ StageDone(t) \/ ValidateDone(t)
      BY <2>2
    <2>3. CASE ClaimWait(t) \/ GateWait(t)
      BY <2>3 DEF ClaimWait, GateWait
    <2>4. CASE PassGate(t)
      <3>1. pc[t] = "gate" /\ job' = job
            /\ (pc' = [pc EXCEPT ![t] = "claim"] \/ pc' = [pc EXCEPT ![t] = "exec"])
        BY <2>4 DEF PassGate, Goto
      <3>2. CASE pc' = [pc EXCEPT ![t] = "claim"]
        <4>1. "claim" \in Label /\ Strolls(t, "claim")
          BY <3>1, <3>2 DEF Strolls, Label
        <4> QED
          BY <4>1
      <3> QED
        BY <2>4, <3>1, <3>2
    <2>5. CASE ExecDone(t)
      <3>1. "claim" \in Label /\ Strolls(t, "claim")
        BY <2>5 DEF ExecDone, Goto, Strolls, Label
      <3> QED
        BY <3>1
    <2> QED
      BY <1>1, <2>1, <2>2, <2>3, <2>4, <2>5 DEF ThreadStep, QuickStep
  <1>2. ASSUME CallerStep PROVE Goal
    <2>1. Caller \in Thread
      BY DEF Thread
    <2>2. ASSUME NEW l \in {"join", "stageError", "verdictTaken", "install", "claim", "returned"},
                 GotoC(l), job' = job, pc[Caller] \notin {"stage", "validate"}
          PROVE  Goal
      <3>1. l \in Label /\ l \notin {"stage", "validate", "gate", "exec"}
        BY DEF Label
      <3>2. Strolls(Caller, l)
        BY <2>2, <3>1 DEF Strolls, GotoC, Goto
      <3> QED
        BY <2>1, <3>1, <3>2
    <2>3. CASE Park \/ AwaitPieces
      BY <2>3 DEF Park, AwaitPieces
    <2> HIDE DEF Goal
    <2>4. CASE Ready
      BY <2>2, <2>4 DEF Ready, At
    <2>5. CASE TakeStageError \/ Place
      BY <2>2, <2>5 DEF TakeStageError, Place, AbortWith, At
    <2>6. CASE Serial \/ Install \/ Verdict \/ Return
      BY <2>2, <2>6 DEF Serial, Install, Verdict, Return, At
    <2> QED
      BY <1>2, <2>3, <2>4, <2>5, <2>6 DEF CallerStep
  <1> QED
    BY <1>1, <1>2 DEF Next

LEMMA BusyStands ==
    ASSUME PiecesInv, NEW t \in Thread, NEW l \in Label, NEW b \in JobType, Moves(t, l, b),
           NEW label, pc[t] # label, l # label, NEW g
    PROVE  Busy(label, g)' = Busy(label, g)
  <1>1. pc \in [Thread -> Label] /\ job \in [Thread -> JobType]
    BY DEF PiecesInv, TypeOK, JobType
  <1>2. \A u \in Thread : pc'[u] = (IF u = t THEN l ELSE pc[u]) /\ job'[u] = (IF u = t THEN b ELSE job[u])
    BY <1>1 DEF Moves
  <1>3. \A u \in Thread : pc'[u] = label /\ job'[u].grid = g <=> pc[u] = label /\ job[u].grid = g
    BY <1>2
  <1>4. \A u \in Thread : pc[u] = label => job'[u] = job[u]
    BY <1>2
  <1> QED
    BY <1>3, <1>4 DEF Busy

LEMMA BusyAdds ==
    ASSUME PiecesInv, NEW t \in Thread, NEW l \in Label, NEW b \in JobType, Moves(t, l, b), pc[t] # l, NEW g
    PROVE  Busy(l, g)' = IF g = b.grid THEN Busy(l, g) \cup {b.id} ELSE Busy(l, g)
  <1>1. pc \in [Thread -> Label] /\ job \in [Thread -> JobType]
    BY DEF PiecesInv, TypeOK, JobType
  <1>2. \A u \in Thread : pc'[u] = (IF u = t THEN l ELSE pc[u]) /\ job'[u] = (IF u = t THEN b ELSE job[u])
    BY <1>1 DEF Moves
  <1> DEFINE Who == {x \in Thread : pc[x] = l /\ job[x].grid = g}
             Now == {x \in Thread : pc'[x] = l /\ job'[x].grid = g}
  <1>3. Now = IF g = b.grid THEN Who \cup {t} ELSE Who
    BY <1>2
  <1>4. t \notin Who /\ \A u \in Who : job'[u] = job[u]
    BY <1>2
  <1>5. Busy(l, g) = {job[x].id : x \in Who} /\ Busy(l, g)' = {job'[x].id : x \in Now}
    BY DEF Busy
  <1> HIDE DEF Who, Now
  <1>6. job'[t].id = b.id
    BY <1>2
  <1> QED
    BY <1>3, <1>4, <1>5, <1>6

LEMMA BusyDrops ==
    ASSUME PiecesInv, NEW t \in Thread, NEW l \in Label, Moves(t, l, job[t]),
           NEW p \in {"stage", "validate"}, pc[t] = p, p # l, NEW g
    PROVE  Busy(p, g)' = IF g = job[t].grid THEN Busy(p, g) \ {job[t].id} ELSE Busy(p, g)
  <1>1. pc \in [Thread -> Label] /\ job \in [Thread -> JobType]
    BY DEF PiecesInv, TypeOK, JobType
  <1>2. \A u \in Thread : pc'[u] = (IF u = t THEN l ELSE pc[u]) /\ job'[u] = job[u]
    BY <1>1 DEF Moves
  <1> DEFINE Who == {x \in Thread : pc[x] = p /\ job[x].grid = g}
             Now == {x \in Thread : pc'[x] = p /\ job'[x].grid = g}
  <1>3. Now = Who \ {t} /\ (t \in Who <=> g = job[t].grid)
    BY <1>2
  <1>4. \A u \in Thread : job'[u] = job[u]
    BY <1>2
  <1>5. \A u \in Who : job[u].id = job[t].id /\ g = job[t].grid => u = t
    <2> SUFFICES ASSUME NEW u \in Who, job[u].id = job[t].id, g = job[t].grid PROVE u = t
      OBVIOUS
    <2>1. job[u] \in JobType /\ job[t] \in JobType /\ job[u].grid = job[t].grid
      BY <1>1
    <2>2. job[u] = job[t]
      BY <2>1 DEF JobType
    <2> QED
      BY <2>2 DEF PiecesInv, Alone
  <1>6. Busy(p, g) = {job[x].id : x \in Who}
    BY DEF Busy
  <1>7. Busy(p, g)' = {job'[x].id : x \in Now}
    BY DEF Busy
  <1>8. Who \subseteq Thread /\ Now \subseteq Thread
    OBVIOUS
  <1> HIDE DEF Who, Now
  <1>9. {job'[x].id : x \in Now} = {job[x].id : x \in Now}
    BY <1>4, <1>8
  <1>10. {job[x].id : x \in Now} = IF g = job[t].grid THEN {job[x].id : x \in Who} \ {job[t].id}
                                                     ELSE {job[x].id : x \in Who}
    BY <1>3, <1>5
  <1> QED
    BY <1>6, <1>7, <1>9, <1>10

LEMMA AloneStep ==
    ASSUME PiecesInv, FrameFacts, Next
    PROVE  Alone'
  <1> DEFINE Alike(l, m) == \/ l = "stage" /\ m = "stage"
                            \/ l = "validate" /\ m = "validate"
                            \/ l \in {"gate", "exec"} /\ m \in {"gate", "exec"}
  <1>1. pc \in [Thread -> Label] /\ job \in [Thread -> JobType]
    BY DEF PiecesInv, TypeOK, JobType
  <1>2. \A t, u \in Thread : Alike(pc[t], pc[u]) /\ job[t] = job[u] => t = u
    BY DEF PiecesInv, Alone
  <1>3. SUFFICES \A t, u \in Thread : Alike(pc'[t], pc'[u]) /\ job'[t] = job'[u] => t = u
    BY DEF Alone
  <1>4. \A l, m : Alike(l, m) => Alike(m, l)
    OBVIOUS
  <1> DEFINE Goal == \A t, u \in Thread : Alike(pc'[t], pc'[u]) /\ job'[t] = job'[u] => t = u
  <1>5. ASSUME NEW t \in Thread, NEW l \in Label, NEW b \in JobType, Moves(t, l, b),
               \A u \in Thread \ {t} : Alike(pc[u], l) => job[u] # b
        PROVE  Goal
    <2>1. \A u \in Thread : pc'[u] = (IF u = t THEN l ELSE pc[u]) /\ job'[u] = (IF u = t THEN b ELSE job[u])
      BY <1>1, <1>5 DEF Moves
    <2> HIDE DEF Alike
    <2> QED
      BY <1>2, <1>4, <1>5, <2>1
  <1>6. ASSUME NEW t \in Thread, NEW l \in Label, pc' = [pc EXCEPT ![t] = l], job' = job,
               \A u \in Thread \ {t} : Alike(pc[u], l) => Alike(pc[u], pc[t])
        PROVE  Goal
    <2>1. Moves(t, l, job[t]) /\ job[t] \in JobType
      BY <1>1, <1>6 DEF Moves
    <2>2. \A u \in Thread \ {t} : Alike(pc[u], l) => job[u] # job[t]
      BY <1>2, <1>6
    <2> HIDE DEF Goal, Alike
    <2> QED
      BY <1>5, <2>1, <2>2
  <1>7. nextStage \in Nat /\ nextPiece \in Nat /\ grids \in [Candidates -> GridState] /\ pieces \in Candidates \cup {0}
    BY DEF PiecesInv, TypeOK
  <1>8. CASE pc' = pc /\ job' = job
    BY <1>2, <1>8
  <1>9. ASSUME NEW t \in Thread, ClaimStage(t) PROVE Goal
    <2> DEFINE b == [grid |-> 0, id |-> nextStage]
    <2>1. Moves(t, "stage", b) /\ "stage" \in Label
      BY <1>9 DEF ClaimStage, GotoJob, Goto, Moves, Label
    <2>2. b \in JobType
      BY <1>7 DEF JobType
    <2>3. ASSUME NEW u \in Thread \ {t}, Alike(pc[u], "stage") PROVE job[u] # b
      <3>1. pc[u] = "stage"
        BY <2>3
      <3>2. job[u].id \in 1 .. nextStage - 1
        BY <3>1 DEF PiecesInv, StagingInv
      <3> QED
        BY <1>7, <3>2
    <2> HIDE DEF b, Goal, Alike
    <2> QED
      BY <1>5, <2>1, <2>2, <2>3
  <1>10. ASSUME NEW t \in Thread, ClaimValidate(t) PROVE Goal
    <2>1. PICK j \in Walkable : GotoJob(t, "validate", j, grids[j].nextValidate)
      BY <1>10 DEF ClaimValidate
    <2>2. j \in Candidates
      BY <1>7, <2>1 DEF Walkable
    <2> DEFINE b == [grid |-> j, id |-> grids[j].nextValidate]
    <2>3. Moves(t, "validate", b) /\ "validate" \in Label
      BY <2>1 DEF GotoJob, Goto, Moves, Label
    <2>4. grids[j].nextValidate \in Nat
      BY <1>7, <2>2 DEF GridState
    <2>5. b \in JobType
      BY <2>2, <2>4 DEF JobType
    <2>6. ASSUME NEW u \in Thread \ {t}, Alike(pc[u], "validate"), job[u] = b PROVE FALSE
      <3>1. pc[u] = "validate"
        BY <2>6
      <3>2. job[u].id \in 0 .. grids[job[u].grid].nextValidate - 1
        BY <3>1, ValidateIn
      <3> QED
        BY <2>4, <2>6, <3>2
    <2> HIDE DEF b, Goal, Alike
    <2> QED
      BY <1>5, <2>3, <2>5, <2>6
  <1>11. ASSUME NEW t \in Thread, ClaimExec(t) PROVE Goal
    <2> DEFINE b == [grid |-> pieces, id |-> nextPiece]
    <2>1. Moves(t, "gate", b) /\ "gate" \in Label
      BY <1>11 DEF ClaimExec, GotoJob, Goto, Moves, Label
    <2>2. b \in JobType
      BY <1>7 DEF JobType
    <2>3. ASSUME NEW u \in Thread \ {t}, Alike(pc[u], "gate"), job[u] = b PROVE FALSE
      <3>1. pc[u] \in {"gate", "exec"}
        BY <2>3
      <3>2. job[u].id < nextPiece
        BY <3>1 DEF PiecesInv, ExecInv
      <3> QED
        BY <1>7, <2>3, <3>2
    <2> HIDE DEF b, Goal, Alike
    <2> QED
      BY <1>5, <2>1, <2>2, <2>3
  <1>12. ASSUME NEW t \in Thread, pc[t] = "gate", pc' = [pc EXCEPT ![t] = "exec"], job' = job PROVE Goal
    <2>1. "exec" \in Label /\ \A u \in Thread \ {t} : Alike(pc[u], "exec") => Alike(pc[u], pc[t])
      BY <1>12 DEF Label
    <2> HIDE DEF Goal, Alike
    <2> QED
      BY <1>6, <1>12, <2>1
  <1>13. ASSUME NEW t \in Thread, NEW l \in Label, pc' = [pc EXCEPT ![t] = l], job' = job,
                l \notin {"stage", "validate", "gate", "exec"}
         PROVE  Goal
    <2>1. \A u \in Thread \ {t} : ~Alike(pc[u], l)
      BY <1>13
    <2> HIDE DEF Goal, Alike
    <2> QED
      BY <1>6, <1>13, <2>1
  <1>14. ASSUME NEW t \in Thread, StageDone(t) PROVE Goal
    <2>1. pc' = [pc EXCEPT ![t] = AfterJob(t)] /\ job' = job
      BY <1>14, StageEffects
    <2>2. AfterJob(t) \in {"top", "claim"} /\ AfterJob(t) \in Label
      BY DEF AfterJob, Label
    <2>3. AfterJob(t) \notin {"stage", "validate", "gate", "exec"}
      BY <2>2
    <2> HIDE DEF Goal
    <2> QED
      BY <1>13, <2>1, <2>2, <2>3
  <1>15. ASSUME NEW t \in Thread, ValidateDone(t) PROVE Goal
    <2>1. pc' = [pc EXCEPT ![t] = "claim"] /\ job' = job /\ "claim" \in Label
      BY <1>15 DEF ValidateDone, Goto, Label
    <2> HIDE DEF Goal
    <2> QED
      BY <1>13, <2>1
  <1>16. Goal
    <2>1. ASSUME NEW t \in Thread, NEW l \in Label, Strolls(t, l) PROVE Goal
      <3> HIDE DEF Goal
      <3> QED
        BY <1>13, <2>1 DEF Strolls
    <2> HIDE DEF Goal
    <2>2. CASE pc' = pc /\ job' = job
      BY <1>8, <2>2 DEF Goal
    <2> QED
      BY <1>9, <1>10, <1>11, <1>12, <1>14, <1>15, <2>1, <2>2, Kinds
  <1> QED
    BY <1>16

-----------------------------------------------------------------------------
(* The staged segments.                                                     *)

LEMMA FaultsStay ==
    ASSUME PiecesInv, Next
    PROVE  (aborting => aborting') /\ (poison => poison')
  <1> DEFINE Goal == (aborting => aborting') /\ (poison => poison')
  <1>1. ASSUME NEW t \in Thread, ThreadStep(t) PROVE Goal
    <2>1. CASE StageDone(t)
      <3>1. \E y : aborting' = (aborting \/ y)
        BY <2>1 DEF StageDone
      <3>2. \E z : poison' = (poison \/ z)
        BY <2>1 DEF StageDone
      <3>3. aborting => aborting'
        BY <3>1, Zenon
      <3>4. poison => poison'
        BY <3>2, Zenon
      <3> QED
        BY <3>3, <3>4
    <2>2. CASE ExecDone(t)
      <3>1. aborting' = aborting \/ aborting' = TRUE
        BY <2>2 DEF ExecDone
      <3>2. poison' = poison \/ \E y : poison' = (poison \/ y)
        BY <2>2 DEF ExecDone
      <3>3. poison => poison'
        BY <3>2, Zenon
      <3> QED
        BY <3>1, <3>3
    <2>3. CASE ~StageDone(t) /\ ~ExecDone(t)
      BY <1>1, <2>3 DEF ThreadStep, QuickStep, Quit, ClaimStage, ClaimValidate, ClaimExec, ClaimWait,
                        PassGate, GateWait, ValidateDone
    <2> QED
      BY <2>1, <2>2, <2>3
  <1>2. ASSUME CallerStep PROVE Goal
    <2>1. CASE Verdict
      <3>1. poison' = poison /\ \E y : aborting' = (aborting \/ y)
        BY <2>1 DEF Verdict
      <3> QED
        BY <3>1, Zenon
    <2>2. CASE TakeStageError \/ Place
      <3>1. poison' = poison /\ (aborting' = aborting \/ aborting' = TRUE)
        BY <2>2 DEF TakeStageError, Place, AbortWith
      <3> QED
        BY <3>1
    <2>3. CASE Park \/ Ready \/ Serial \/ Install \/ AwaitPieces \/ Return
      <3>1. aborting' = aborting /\ poison' = poison
        BY <2>3 DEF Park, Ready, Serial, Install, AwaitPieces, Return
      <3> QED
        BY <3>1
    <2> QED
      BY <1>2, <2>1, <2>2, <2>3 DEF CallerStep
  <1> QED
    BY <1>1, <1>2 DEF Next

LEMMA StagingStands ==
    ASSUME PiecesInv, FrameFacts, Next, \A t \in Thread : ~ClaimStage(t) /\ ~StageDone(t)
    PROVE  /\ slots' = slots /\ stagedCount' = stagedCount /\ nextStage' = nextStage
           /\ stageErrors' = stageErrors /\ contig' = contig /\ stageFailed' = stageFailed
           /\ Busy("stage", 0)' = Busy("stage", 0)
           /\ \A t \in Thread : pc'[t] = "stage" => pc[t] = "stage" /\ job'[t] = job[t]
  <1>1. ASSUME NEW t \in Thread, ThreadStep(t)
        PROVE  UNCHANGED <<slots, stagedCount, nextStage, stageErrors, contig, stageFailed>>
    BY <1>1 DEF ThreadStep, QuickStep, Quit, ClaimValidate, ClaimExec, ClaimWait,
                PassGate, GateWait, ExecDone, ValidateDone, stageVars, gridVars
  <1>2. ASSUME CallerStep
        PROVE  UNCHANGED <<slots, stagedCount, nextStage, stageErrors, contig, stageFailed>>
    BY <1>2 DEF CallerStep, Park, Ready, TakeStageError, Serial, Place, Install, AwaitPieces,
                Verdict, Return, stageVars, gridVars
  <1>3. pc \in [Thread -> Label] /\ job \in [Thread -> JobType]
    BY DEF PiecesInv, TypeOK, JobType
  <1> DEFINE Goal == /\ Busy("stage", 0)' = Busy("stage", 0)
                     /\ \A t \in Thread : pc'[t] = "stage" => pc[t] = "stage" /\ job'[t] = job[t]
  <1>4. ASSUME NEW t \in Thread, NEW l \in Label, NEW b \in JobType, Moves(t, l, b),
               pc[t] # "stage", l # "stage"
        PROVE  Goal
    <2>1. Busy("stage", 0)' = Busy("stage", 0)
      BY <1>4, BusyStands
    <2>2. \A u \in Thread : pc'[u] = (IF u = t THEN l ELSE pc[u]) /\ job'[u] = (IF u = t THEN b ELSE job[u])
      BY <1>3, <1>4 DEF Moves
    <2> QED
      BY <1>4, <2>1, <2>2
  <1>5. ASSUME NEW t \in Thread, NEW l \in Label, pc' = [pc EXCEPT ![t] = l], job' = job,
               pc[t] # "stage", l # "stage"
        PROVE  Goal
    <2>1. Moves(t, l, job[t]) /\ job[t] \in JobType
      BY <1>3, <1>5 DEF Moves
    <2> HIDE DEF Goal
    <2> QED
      BY <1>4, <1>5, <2>1
  <1>6. ASSUME pc' = pc, job' = job PROVE Goal
    BY <1>6 DEF Busy
  <1>7. ASSUME NEW t \in Thread, ClaimValidate(t) PROVE Goal
    <2>1. PICK j \in Walkable : GotoJob(t, "validate", j, grids[j].nextValidate)
      BY <1>7 DEF ClaimValidate
    <2>2. grids \in [Candidates -> GridState]
      BY DEF PiecesInv, TypeOK
    <2>3. j \in Candidates
      BY <2>1, <2>2 DEF Walkable
    <2> DEFINE b == [grid |-> j, id |-> grids[j].nextValidate]
    <2>4. grids[j].nextValidate \in Nat
      BY <2>2, <2>3 DEF GridState
    <2>5. b \in JobType /\ Moves(t, "validate", b) /\ "validate" \in Label /\ pc[t] # "stage"
      BY <1>7, <2>1, <2>3, <2>4 DEF ClaimValidate, Claiming, GotoJob, Goto, Moves, Label, JobType
    <2> HIDE DEF b, Goal
    <2> QED
      BY <1>4, <2>5
  <1>8. ASSUME NEW t \in Thread, ClaimExec(t) PROVE Goal
    <2> DEFINE b == [grid |-> pieces, id |-> nextPiece]
    <2>1. nextPiece \in Nat /\ pieces \in Candidates \cup {0}
      BY DEF PiecesInv, TypeOK
    <2>2. b \in JobType /\ Moves(t, "gate", b) /\ "gate" \in Label /\ pc[t] # "stage"
      BY <1>8, <2>1 DEF ClaimExec, Claiming, GotoJob, Goto, Moves, Label, JobType
    <2> HIDE DEF b, Goal
    <2> QED
      BY <1>4, <2>2
  <1>9. ASSUME NEW t \in Thread, ValidateDone(t) PROVE Goal
    <2>1. pc[t] = "validate" /\ pc' = [pc EXCEPT ![t] = "claim"] /\ job' = job /\ "claim" \in Label
      BY <1>9 DEF ValidateDone, Goto, Label
    <2> HIDE DEF Goal
    <2> QED
      BY <1>5, <2>1
  <1>10. ASSUME NEW t \in Thread, pc[t] = "gate", pc' = [pc EXCEPT ![t] = "exec"], job' = job PROVE Goal
    <2>1. "exec" \in Label
      BY DEF Label
    <2> HIDE DEF Goal
    <2> QED
      BY <1>5, <1>10, <2>1
  <1>11. ASSUME NEW t \in Thread, NEW l \in Label, Strolls(t, l) PROVE Goal
    <2>1. pc' = [pc EXCEPT ![t] = l] /\ job' = job /\ pc[t] # "stage" /\ l # "stage"
      BY <1>11 DEF Strolls
    <2> HIDE DEF Goal
    <2> QED
      BY <1>5, <2>1
  <1> HIDE DEF Goal
  <1>12. Goal
    <2>1. CASE pc' = pc /\ job' = job
      BY <1>6, <2>1
    <2> QED
      BY <1>7, <1>8, <1>9, <1>10, <1>11, <2>1, Kinds
  <1>13. UNCHANGED <<slots, stagedCount, nextStage, stageErrors, contig, stageFailed>>
    BY <1>1, <1>2 DEF Next
  <1> QED
    BY <1>12, <1>13 DEF Goal

(* The segments that threads are staging are finitely many.                 *)
LEMMA StagingFinite ==
    ASSUME PiecesInv, FrameFacts
    PROVE  IsFiniteSet(Busy("stage", 0)) /\ Cardinality(Busy("stage", 0)) \in Nat
  <1>1. nextStage \in Nat
    BY DEF PiecesInv, TypeOK
  <1>2. Busy("stage", 0) \subseteq 1 .. nextStage - 1
    BY DEF PiecesInv, StagingInv, Busy
  <1>3. IsFiniteSet(1 .. nextStage - 1)
    BY <1>1, FS_Interval
  <1>4. IsFiniteSet(Busy("stage", 0))
    BY <1>2, <1>3, FS_Subset
  <1> QED
    BY <1>4, FS_CardinalityType

LEMMA StagingStep ==
    ASSUME PiecesInv, FrameFacts, Next
    PROVE  StagingInv'
  <1>1. frame' = frame /\ staging' = staging /\ Seg' = Seg /\ NSeg' = NSeg
    BY InputsFixed, FactsStay
  <1>2. (aborting => aborting') /\ NSeg \in Nat /\ nextStage \in 1 .. NSeg + 1 /\ stagedCount \in Nat
        /\ pc \in [Thread -> Label] /\ job \in [Thread -> JobType] /\ contig \in 0 .. NSeg
        /\ slots \in [Seg -> {"pending", "ok", "failed"}] /\ stageErrors \subseteq Seg
    BY FaultsStay DEF PiecesInv, TypeOK, JobType, FrameFacts
  <1>3. StagingInv
    BY DEF PiecesInv
  <1>4. IsFiniteSet(Busy("stage", 0)) /\ Cardinality(Busy("stage", 0)) \in Nat
    BY StagingFinite
  <1>5. CASE \A t \in Thread : ~ClaimStage(t) /\ ~StageDone(t)
    <2>1. /\ slots' = slots /\ stagedCount' = stagedCount /\ nextStage' = nextStage
          /\ stageErrors' = stageErrors /\ contig' = contig /\ stageFailed' = stageFailed
          /\ Busy("stage", 0)' = Busy("stage", 0)
          /\ \A t \in Thread : pc'[t] = "stage" => pc[t] = "stage" /\ job'[t] = job[t]
      BY <1>5, StagingStands
    <2>2. \A s : Finished(s)' <=> Finished(s)
      BY <2>1 DEF Finished
    <2>3. stagedCount' + Cardinality(Busy("stage", 0))' = nextStage' - 1
      <3>1. stagedCount + Cardinality(Busy("stage", 0)) = nextStage - 1
        BY <1>3 DEF StagingInv
      <3> QED
        BY <2>1, <3>1
    <2>4. \A t \in Thread : pc'[t] = "stage" => job'[t].grid = 0 /\ job'[t].id \in 1 .. nextStage' - 1
      BY <1>3, <2>1 DEF StagingInv
    <2>5. \A s \in Seg :
            /\ slots'[s] = "ok" <=> Finished(s)' /\ staging[s] = "ok"
            /\ slots'[s] = "failed" <=> Finished(s)' /\ staging[s] = "err"
            /\ s \in stageErrors' <=> slots'[s] = "failed"
            /\ Finished(s)' /\ staging[s] = "panic" => aborting'
      BY <1>2, <1>3, <2>1, <2>2 DEF StagingInv
    <2>6. /\ stageFailed' <=> stageErrors' # {}
          /\ \A s \in 1 .. contig' : slots'[s] = "ok"
          /\ ~aborting' /\ ~stageFailed' /\ contig' < NSeg => slots'[contig' + 1] # "ok"
      BY <1>2, <1>3, <2>1 DEF StagingInv
    <2> QED
      BY <1>1, <2>3, <2>4, <2>5, <2>6 DEF StagingInv
  <1>6. ASSUME NEW t \in Thread, ClaimStage(t) PROVE StagingInv'
    <2> DEFINE b == [grid |-> 0, id |-> nextStage]
    <2>1. /\ pc[t] # "stage" /\ Moves(t, "stage", b) /\ nextStage' = nextStage + 1 /\ nextStage <= NSeg
          /\ UNCHANGED <<slots, stagedCount, stageErrors, contig, stageFailed, aborting>>
      BY <1>6 DEF ClaimStage, Claiming, GotoJob, Goto, Moves, gridVars
    <2>2. b \in JobType /\ "stage" \in Label
      BY <1>2 DEF JobType, Label
    <2>3. Busy("stage", 0)' = Busy("stage", 0) \cup {nextStage}
      BY <2>1, <2>2, BusyAdds
    <2>4. \A u \in Thread : pc'[u] = (IF u = t THEN "stage" ELSE pc[u]) /\ job'[u] = (IF u = t THEN b ELSE job[u])
      BY <1>2, <2>1 DEF Moves
    <2>5. \A s \in Busy("stage", 0) : s \in 1 .. nextStage - 1
      BY <1>3 DEF StagingInv, Busy
    <2>6. nextStage \notin Busy("stage", 0)
      BY <1>2, <2>5
    <2>7. stagedCount' + Cardinality(Busy("stage", 0))' = nextStage' - 1
      <3> DEFINE B == Busy("stage", 0)
      <3>1. stagedCount + Cardinality(B) = nextStage - 1
        BY <1>3 DEF StagingInv
      <3>2. Cardinality(B \cup {nextStage}) = Cardinality(B) + 1
        <4> HIDE DEF B
        <4>1. IsFiniteSet(B) /\ nextStage \notin B
          BY <1>4, <2>6 DEF B
        <4> QED
          BY <4>1, FS_AddElement
      <3>3. Cardinality(Busy("stage", 0))' = Cardinality(B \cup {nextStage})
        BY <2>3
      <3> HIDE DEF B
      <3>4. Cardinality(B) \in Nat
        BY <1>4 DEF B
      <3> QED
        BY <1>2, <2>1, <3>1, <3>2, <3>3, <3>4
    <2>8. ASSUME NEW s \in Seg PROVE Finished(s)' <=> Finished(s)
      <3>1. s \in Nat
        BY DEF Seg
      <3> QED
        BY <1>2, <2>1, <2>3, <2>6, <3>1 DEF Finished
    <2>9. \A u \in Thread : pc'[u] = "stage" => job'[u].grid = 0 /\ job'[u].id \in 1 .. nextStage' - 1
      <3>1. b.grid = 0 /\ b.id = nextStage /\ nextStage \in 1 .. nextStage' - 1
        BY <1>2, <2>1
      <3>2. \A u \in Thread : pc[u] = "stage" => job[u].grid = 0 /\ job[u].id \in 1 .. nextStage - 1
        BY <1>3 DEF StagingInv
      <3> HIDE DEF b
      <3> QED
        BY <1>2, <2>1, <2>4, <3>1, <3>2
    <2>10. \A s \in Seg :
            /\ slots'[s] = "ok" <=> Finished(s)' /\ staging[s] = "ok"
            /\ slots'[s] = "failed" <=> Finished(s)' /\ staging[s] = "err"
            /\ s \in stageErrors' <=> slots'[s] = "failed"
            /\ Finished(s)' /\ staging[s] = "panic" => aborting'
      BY <1>2, <1>3, <2>1, <2>8 DEF StagingInv
    <2>11. /\ stageFailed' <=> stageErrors' # {}
           /\ \A s \in 1 .. contig' : slots'[s] = "ok"
           /\ ~aborting' /\ ~stageFailed' /\ contig' < NSeg => slots'[contig' + 1] # "ok"
      BY <1>2, <1>3, <2>1 DEF StagingInv
    <2> QED
      BY <1>1, <2>7, <2>9, <2>10, <2>11 DEF StagingInv
  <1>7. ASSUME NEW t \in Thread, StageDone(t) PROVE StagingInv'
    <2> DEFINE s0 == job[t].id
               out == staging[s0]
    <2>1. pc[t] = "stage" /\ pc' = [pc EXCEPT ![t] = AfterJob(t)] /\ job' = job /\ nextStage' = nextStage
          /\ stagedCount' = stagedCount + 1 /\ aborting' = (aborting \/ out = "panic")
          /\ stageFailed' = (stageFailed \/ out = "err")
          /\ stageErrors' = IF out = "err" THEN stageErrors \cup {s0} ELSE stageErrors
      BY <1>7, StageEffects
    <2>2. AfterJob(t) \in Label /\ AfterJob(t) # "stage"
      BY DEF AfterJob, Label
    <2>3. job[t].grid = 0 /\ s0 \in Seg /\ s0 \in Busy("stage", 0) /\ s0 < nextStage
      BY <2>1, StageIn
    <2>4. Moves(t, AfterJob(t), job[t])
      BY <1>2, <2>1 DEF Moves
    <2>5. Busy("stage", 0)' = Busy("stage", 0) \ {s0}
      BY <2>1, <2>2, <2>3, <2>4, BusyDrops
    <2>6. \A s : Finished(s)' <=> Finished(s) \/ s = s0
      BY <2>1, <2>3, <2>5 DEF Finished
    <2>7. ~Finished(s0)
      BY <2>3 DEF Finished
    <2>8. stagedCount' + Cardinality(Busy("stage", 0))' = nextStage' - 1
      <3> DEFINE B == Busy("stage", 0)
      <3>1. stagedCount + Cardinality(B) = nextStage - 1
        BY <1>3 DEF StagingInv
      <3>2. Cardinality(Busy("stage", 0))' = Cardinality(B \ {s0})
        BY <2>5
      <3>3. Cardinality(B \ {s0}) = Cardinality(B) - 1
        <4>1. IsFiniteSet(B) /\ s0 \in B
          BY <1>4, <2>3
        <4> HIDE DEF B, s0
        <4> QED
          BY <4>1, FS_RemoveElement
      <3> HIDE DEF B
      <3>4. Cardinality(B) \in Nat
        BY <1>4 DEF B
      <3> QED
        BY <1>2, <2>1, <3>1, <3>2, <3>3, <3>4
    <2>9. \A u \in Thread : pc'[u] = "stage" => job'[u].grid = 0 /\ job'[u].id \in 1 .. nextStage' - 1
      BY <1>2, <1>3, <2>1, <2>2 DEF StagingInv
    <2>10. slots' = [slots EXCEPT ![s0] = IF out = "ok" THEN "ok" ELSE IF out = "err" THEN "failed" ELSE @]
      BY <1>7, StageEffects
    <2>11. slots[s0] \notin {"ok", "failed"} /\ s0 \notin stageErrors
      BY <1>3, <2>3, <2>7 DEF StagingInv
    <2> DEFINE up == IF out = "ok" THEN "ok" ELSE IF out = "err" THEN "failed" ELSE slots[s0]
    <2>12. slots' = [slots EXCEPT ![s0] = up]
      BY <1>2, <2>10
    <2>13. \A s \in Seg : slots'[s] = IF s = s0 THEN up ELSE slots[s]
      <3> HIDE DEF up, s0
      <3> QED
        BY <1>2, <2>12
    <2>14. /\ up = "ok" <=> out = "ok"
           /\ up = "failed" <=> out = "err"
      BY <2>11
    <2>15. ASSUME NEW s \in Seg
           PROVE  /\ slots'[s] = "ok" <=> Finished(s)' /\ staging[s] = "ok"
                  /\ slots'[s] = "failed" <=> Finished(s)' /\ staging[s] = "err"
                  /\ s \in stageErrors' <=> slots'[s] = "failed"
                  /\ Finished(s)' /\ staging[s] = "panic" => aborting'
      <3>0. stageErrors' = IF out = "err" THEN stageErrors \cup {s0} ELSE stageErrors
        BY <2>1
      <3>1. CASE s = s0
        <4>1. Finished(s)' /\ slots'[s] = up /\ staging[s] = out
          BY <2>6, <2>13, <3>1
        <4>2. s \in stageErrors' <=> out = "err"
          BY <2>11, <3>0, <3>1
        <4>3. out = "panic" => aborting'
          BY <2>1
        <4> QED
          BY <2>14, <4>1, <4>2, <4>3
      <3>2. CASE s # s0
        <4>1. (Finished(s)' <=> Finished(s)) /\ slots'[s] = slots[s] /\ (s \in stageErrors' <=> s \in stageErrors)
          BY <2>6, <2>13, <3>0, <3>2
        <4> QED
          BY <1>2, <1>3, <4>1 DEF StagingInv
      <3> QED
        BY <3>1, <3>2
    <2>16. stageFailed' <=> stageErrors' # {}
      <3>1. stageFailed <=> stageErrors # {}
        BY <1>3 DEF StagingInv
      <3> QED
        BY <2>1, <3>1
    <2>17. /\ \A s \in 1 .. contig' : slots'[s] = "ok"
           /\ ~aborting' /\ ~stageFailed' /\ contig' < NSeg => slots'[contig' + 1] # "ok"
      <3>1. CASE Advances(t)
        BY <1>7, <3>1, StageEffects
      <3>2. CASE ~Advances(t)
        <4>1. contig' = contig
          BY <1>7, <3>2, StageEffects
        <4>2. ASSUME NEW s \in 1 .. contig PROVE slots'[s] = "ok"
          <5>1. s \in Seg /\ slots[s] = "ok" /\ s # s0
            BY <1>2, <1>3, <2>11 DEF StagingInv, Seg
          <5> QED
            BY <2>13, <5>1
        <4>3. ASSUME ~aborting', ~stageFailed', contig < NSeg PROVE slots'[contig + 1] # "ok"
          <5>1. contig + 1 # s0
            BY <3>2, <4>3 DEF Advances
          <5>2. contig + 1 \in Seg
            BY <1>2, <4>3 DEF Seg
          <5>3. ~aborting /\ ~stageFailed
            BY <2>1, <4>3
          <5>4. slots[contig + 1] # "ok"
            BY <1>3, <4>3, <5>3 DEF StagingInv
          <5> QED
            BY <2>13, <5>1, <5>2, <5>4
        <4> QED
          BY <4>1, <4>2, <4>3
      <3> QED
        BY <3>1, <3>2
    <2> HIDE DEF s0, out, up
    <2> QED
      BY <1>1, <2>8, <2>9, <2>15, <2>16, <2>17 DEF StagingInv
  <1> QED
    BY <1>5, <1>6, <1>7

-----------------------------------------------------------------------------
(* One grid: what its record g says when the pieces of B are being walked,  *)
(* the staged prefix ends at pos, and bad says that the verdict will not be *)
(* asked for.                                                               *)
Standing(g, j, B, pos, bad) ==
    /\ g.cut <= NPieces(j) /\ g.nextValidate <= g.cut
    /\ g.tops \in [0 .. g.cut - 1 -> Nat]
    /\ g.validated + Cardinality(B) = g.nextValidate
    /\ B \subseteq 0 .. g.nextValidate - 1
    /\ g.alive =>
        /\ g.cut = Cardinality(Inside(j, pos))
        /\ \A k \in 1 .. NPieces(j) - 1 : Start(j, k) < pos => OnBlock(j, k)
        /\ \A k \in 0 .. g.nextValidate - 1 : k \notin B =>
            ValidatePiece(j, k).ok /\ g.tops[k] = ValidatePiece(j, k).top
    /\ ~g.alive => bad \/ ~Usable(j)

Won(g, j, pos) ==
    /\ FullyWalked(g, j)
    /\ \A k \in 0 .. NPieces(j) - 1 : ValidatePiece(j, k).ok /\ g.tops[k] = ValidatePiece(j, k).top
    /\ Usable(j) /\ pos >= Fcs

LEMMA StandingIs ==
    ASSUME FrameFacts, frame' = frame, NEW j \in Candidates
    PROVE  /\ GridInv(j) <=> Standing(grids[j], j, Busy("validate", j), StagedPos(contig),
                                      stageFailed \/ StagedPos(NSeg) # Fcs)
           /\ GridInv(j)' <=> Standing(grids'[j], j, Busy("validate", j)', StagedPos(contig'),
                                       stageFailed' \/ StagedPos(NSeg) # Fcs)
           /\ \A pos : Won(grids[j], j, pos) <=>
                /\ FullyWalked(grids[j], j)
                /\ \A k \in 0 .. NPieces(j) - 1 : Recorded(j, k)
                /\ Usable(j) /\ pos >= Fcs
           /\ \A pos : Won(grids'[j], j, pos) <=>
                /\ FullyWalked(grids[j], j)'
                /\ \A k \in 0 .. NPieces(j) - 1 : Recorded(j, k)'
                /\ Usable(j) /\ pos >= Fcs
  <1>1. /\ Fcs' = Fcs /\ NSeg' = NSeg /\ Candidates' = Candidates
        /\ NPieces(j)' = NPieces(j) /\ Usable(j)' = Usable(j)
        /\ \A k : /\ Start(j, k)' = Start(j, k)
                  /\ ValidatePiece(j, k)' = ValidatePiece(j, k)
                  /\ OnBlock(j, k)' = OnBlock(j, k)
        /\ \A pos : Inside(j, pos)' = Inside(j, pos)
    BY FactsStay
  <1>2. \A n : StagedPos(n)' = StagedPos(n)
    BY FactsStay
  <1>3. StagedPos(contig)' = StagedPos(contig')
    BY DEF StagedPos
  <1>4. Inside(j, StagedPos(contig))' = Inside(j, StagedPos(contig'))
    BY <1>1, <1>3 DEF Inside, End
  <1>5. StagedPos(NSeg)' = StagedPos(NSeg)
    BY <1>1 DEF StagedPos
  <1>6. GridInv(j) <=> Standing(grids[j], j, Busy("validate", j), StagedPos(contig),
                                stageFailed \/ StagedPos(NSeg) # Fcs)
    BY DEF GridInv, Standing, Recorded
  <1>7. GridInv(j)' <=> Standing(grids'[j], j, Busy("validate", j)', StagedPos(contig'),
                                 stageFailed' \/ StagedPos(NSeg) # Fcs)
    <2>1. GridInv(j)' <=>
            /\ grids'[j].cut <= NPieces(j) /\ grids'[j].nextValidate <= grids'[j].cut
            /\ grids'[j].tops \in [0 .. grids'[j].cut - 1 -> Nat]
            /\ grids'[j].validated + Cardinality(Busy("validate", j)') = grids'[j].nextValidate
            /\ Busy("validate", j)' \subseteq 0 .. grids'[j].nextValidate - 1
            /\ grids'[j].alive =>
                /\ grids'[j].cut = Cardinality(Inside(j, StagedPos(contig')))
                /\ \A k \in 1 .. NPieces(j) - 1 : Start(j, k) < StagedPos(contig') => OnBlock(j, k)
                /\ \A k \in 0 .. grids'[j].nextValidate - 1 : k \notin Busy("validate", j)' =>
                    ValidatePiece(j, k).ok /\ grids'[j].tops[k] = ValidatePiece(j, k).top
            /\ ~grids'[j].alive => stageFailed' \/ StagedPos(NSeg) # Fcs \/ ~Usable(j)
      BY <1>1, <1>3, <1>4, <1>5 DEF GridInv, Recorded
    <2> QED
      BY <2>1 DEF Standing
  <1>8. \A pos : Won(grids[j], j, pos) <=>
                /\ FullyWalked(grids[j], j)
                /\ \A k \in 0 .. NPieces(j) - 1 : Recorded(j, k)
                /\ Usable(j) /\ pos >= Fcs
    BY DEF Won, Recorded
  <1>9. \A pos : Won(grids'[j], j, pos) <=>
                /\ FullyWalked(grids[j], j)'
                /\ \A k \in 0 .. NPieces(j) - 1 : Recorded(j, k)'
                /\ Usable(j) /\ pos >= Fcs
    BY <1>1 DEF Won, Recorded, FullyWalked
  <1> QED
    BY <1>6, <1>7, <1>8, <1>9

(* A living grid that is fully walked knows what the round form asks.       *)
LEMMA WalkedIs ==
    ASSUME FrameFacts, NEW j \in Candidates, NEW g \in GridState, NEW B, NEW pos \in Nat, NEW bad,
           Standing(g, j, B, pos, bad), g.alive, FullyWalked(g, j)
    PROVE  /\ \A k \in 0 .. NPieces(j) - 1 : ValidatePiece(j, k).ok /\ g.tops[k] = ValidatePiece(j, k).top
           /\ \A k \in 1 .. NPieces(j) - 1 : OnBlock(j, k)
           /\ pos >= Fcs
  <1>1. Fcs \in Nat \ {0} /\ j \in Nat \ {0}
    BY DEF FrameFacts
  <1>2. /\ NPieces(j) \in Nat \ {0} /\ \A k \in Nat : Start(j, k) \in Nat /\ End(j, k) \in Nat
        /\ \A k \in 0 .. NPieces(j) - 1 :
            /\ Start(j, k) < End(j, k) /\ End(j, k) <= Fcs
            /\ End(j, k) = IF k = NPieces(j) - 1 THEN Fcs ELSE Start(j, k + 1)
    BY <1>1, GridFacts
  <1>3. /\ Cardinality(Inside(j, pos)) \in 0 .. NPieces(j)
        /\ \A k \in 0 .. NPieces(j) - 1 : End(j, k) <= pos <=> k < Cardinality(Inside(j, pos))
    BY <1>1, InsideIs
  <1>4. /\ g.cut \in Nat /\ g.nextValidate \in Nat /\ g.validated \in Nat
        /\ g.cut = NPieces(j) /\ g.validated >= g.cut /\ g.nextValidate <= g.cut
        /\ g.validated + Cardinality(B) = g.nextValidate /\ B \subseteq 0 .. g.nextValidate - 1
        /\ g.cut = Cardinality(Inside(j, pos))
        /\ \A k \in 1 .. NPieces(j) - 1 : Start(j, k) < pos => OnBlock(j, k)
        /\ \A k \in 0 .. g.nextValidate - 1 : k \notin B =>
            ValidatePiece(j, k).ok /\ g.tops[k] = ValidatePiece(j, k).top
    BY DEF Standing, GridState, FullyWalked
  <1>5. IsFiniteSet(B) /\ Cardinality(B) \in Nat
    <2> DEFINE m == g.nextValidate
    <2>1. m \in Nat /\ B \subseteq 0 .. m - 1
      BY <1>4
    <2> HIDE DEF m
    <2>3. IsFiniteSet(0 .. m - 1)
      BY <2>1, FS_Interval
    <2>2. IsFiniteSet(B)
      BY <2>1, <2>3, FS_Subset
    <2> QED
      BY <2>2, FS_CardinalityType
  <1>6. Cardinality(B) = 0 /\ g.nextValidate = NPieces(j)
    BY <1>2, <1>4, <1>5
  <1>7. B = {}
    BY <1>5, <1>6, FS_EmptySet
  <1>8. pos >= Fcs
    <2>1. NPieces(j) - 1 \in 0 .. NPieces(j) - 1 /\ NPieces(j) - 1 < Cardinality(Inside(j, pos))
      BY <1>2, <1>4
    <2>2. End(j, NPieces(j) - 1) = Fcs /\ End(j, NPieces(j) - 1) <= pos
      BY <1>2, <1>3, <2>1
    <2> QED
      BY <1>1, <2>2
  <1>9. ASSUME NEW k \in 1 .. NPieces(j) - 1 PROVE OnBlock(j, k)
    <2>1. Start(j, k) < End(j, k) /\ End(j, k) <= Fcs /\ Start(j, k) \in Nat /\ End(j, k) \in Nat
      BY <1>2
    <2>2. Start(j, k) < pos
      BY <1>1, <1>8, <2>1
    <2> QED
      BY <1>4, <2>2
  <1> QED
    BY <1>4, <1>6, <1>7, <1>8, <1>9

GridsOK(gs, B, pos, bad, win, dead) ==
    /\ \A j \in Candidates : Standing(gs[j], j, B[j], pos, bad)
    /\ win # 0 => Won(gs[win], win, pos) /\ \A j \in Candidates : j < win => ~gs[j].alive
    /\ dead => \A j \in Candidates : ~gs[j].alive

LEMMA SettleKeeps ==
    ASSUME FrameFacts, NEW gs \in [Candidates -> GridState], NEW win \in Candidates \cup {0},
           allDead \in BOOLEAN, NEW pos \in Nat, NEW bad, NEW B,
           GridsOK(gs, B, pos, bad, win, allDead)
    PROVE  /\ \A j \in Candidates : /\ Standing(Settle(gs, win).grids[j], j, B[j], pos, bad)
                                    /\ Settle(gs, win).grids[j].alive => gs[j].alive
           /\ Settle(gs, win).winner # 0 =>
                /\ Won(Settle(gs, win).grids[Settle(gs, win).winner], Settle(gs, win).winner, pos)
                /\ \A j \in Candidates : j < Settle(gs, win).winner => ~Settle(gs, win).grids[j].alive
                /\ Settle(gs, win).winner = win \/ gs[Settle(gs, win).winner].alive
           /\ Settle(gs, win).allDead => \A j \in Candidates : ~Settle(gs, win).grids[j].alive
  <1> DEFINE s == Settle(gs, win)
             w == s.winner
             hs == s.grids
  <1>0. /\ \A j \in Candidates : Standing(gs[j], j, B[j], pos, bad)
        /\ win # 0 => Won(gs[win], win, pos) /\ \A j \in Candidates : j < win => ~gs[j].alive
        /\ allDead => \A j \in Candidates : ~gs[j].alive
    BY DEF GridsOK
  <1>1. /\ hs \in [Candidates -> GridState] /\ w \in Candidates \cup {0} /\ s.allDead \in BOOLEAN
        /\ \A j \in Candidates :
                \/ hs[j] = gs[j]
                \/ hs[j] = [gs[j] EXCEPT !.alive = FALSE] /\ gs[j].alive /\ FullyWalked(gs[j], j) /\ ~Deep(gs, j)
        /\ win # 0 => s = [grids |-> gs, winner |-> win, allDead |-> allDead]
        /\ win = 0 /\ w # 0 =>
                /\ hs[w] = gs[w] /\ gs[w].alive /\ FullyWalked(gs[w], w) /\ Deep(gs, w)
                /\ \A j \in Candidates : j < w => ~hs[j].alive
                /\ s.allDead = allDead
        /\ win = 0 /\ w = 0 /\ s.allDead => \A j \in Candidates : ~hs[j].alive
    BY SettleIs
  <1>2. ASSUME NEW j \in Candidates, gs[j].alive, FullyWalked(gs[j], j)
        PROVE  /\ \A k \in 0 .. NPieces(j) - 1 :
                    ValidatePiece(j, k).ok /\ gs[j].tops[k] = ValidatePiece(j, k).top
               /\ \A k \in 1 .. NPieces(j) - 1 : OnBlock(j, k)
               /\ pos >= Fcs
               /\ Deep(gs, j) <=> Usable(j)
    <2>1. gs[j] \in GridState /\ Standing(gs[j], j, B[j], pos, bad)
      BY <1>0
    <2>2. /\ \A k \in 0 .. NPieces(j) - 1 :
                ValidatePiece(j, k).ok /\ gs[j].tops[k] = ValidatePiece(j, k).top
          /\ \A k \in 1 .. NPieces(j) - 1 : OnBlock(j, k)
          /\ pos >= Fcs
      BY <1>2, <2>1, WalkedIs
    <2>3. gs[j].cut = NPieces(j)
      BY <1>2 DEF FullyWalked
    <2>4. NPieces(j) \in Nat
      <3>1. Fcs \in Nat \ {0} /\ j \in Nat \ {0}
        BY DEF FrameFacts
      <3> QED
        BY <3>1, GridFacts
    <2>5. \A k \in 1 .. NPieces(j) - 1 : k \in 0 .. NPieces(j) - 1
      BY <2>4
    <2>6. \A k \in 1 .. NPieces(j) - 1 : LagDeep(j, k, gs[j].tops[k]) <=> LagDeep(j, k, ValidatePiece(j, k).top)
      BY <2>2, <2>5
    <2>7. Deep(gs, j) <=> \A k \in 1 .. NPieces(j) - 1 : LagDeep(j, k, ValidatePiece(j, k).top)
      BY <2>3, <2>6 DEF Deep
    <2> QED
      BY <2>2, <2>7 DEF Usable
  <1> HIDE DEF s
  <1>3. ASSUME NEW j \in Candidates
        PROVE  Standing(hs[j], j, B[j], pos, bad) /\ (hs[j].alive => gs[j].alive)
    <2>1. CASE hs[j] = gs[j]
      BY <1>0, <2>1
    <2>2. CASE hs[j] = [gs[j] EXCEPT !.alive = FALSE] /\ gs[j].alive /\ FullyWalked(gs[j], j) /\ ~Deep(gs, j)
      <3>1. ~Usable(j)
        BY <1>2, <2>2
      <3> DEFINE g == gs[j]
                 h == hs[j]
      <3>2. g \in GridState /\ h = [g EXCEPT !.alive = FALSE]
        BY <2>2
      <3> HIDE DEF g, h
      <3>3. ~h.alive /\ h.cut = g.cut /\ h.nextValidate = g.nextValidate /\ h.validated = g.validated
            /\ h.tops = g.tops
        BY <3>2 DEF GridState
      <3>4. Standing(g, j, B[j], pos, bad)
        BY <1>0 DEF g
      <3>5. Standing(h, j, B[j], pos, bad)
        BY <3>1, <3>3, <3>4 DEF Standing
      <3> QED
        BY <3>3, <3>5 DEF g, h
    <2> QED
      BY <1>1, <2>1, <2>2
  <1>4. CASE win # 0
    BY <1>0, <1>1, <1>3, <1>4 DEF s
  <1>5. CASE win = 0 /\ w # 0
    <2>1. /\ w \in Candidates /\ hs[w] = gs[w] /\ gs[w].alive /\ FullyWalked(gs[w], w) /\ Deep(gs, w)
          /\ \A j \in Candidates : j < w => ~hs[j].alive
          /\ s.allDead = allDead
      BY <1>1, <1>5
    <2>2. Won(hs[w], w, pos)
      BY <1>2, <2>1 DEF Won
    <2>3. s.allDead => FALSE
      <3>1. allDead => ~gs[w].alive
        BY <1>0, <2>1
      <3>2. s.allDead = allDead /\ gs[w].alive
        BY <2>1
      <3> QED
        BY <3>1, <3>2, Zenon
    <2> QED
      BY <1>3, <2>1, <2>2, <2>3 DEF s
  <1>6. CASE win = 0 /\ w = 0
    BY <1>1, <1>3, <1>6 DEF s
  <1> QED
    BY <1>4, <1>5, <1>6

-----------------------------------------------------------------------------
(* The grids and the winner.                                                *)

Walking == [j \in Candidates |-> Busy("validate", j)]

Spoilt == stagedCount = NSeg /\ ~aborting /\ ~stageFailed /\ StagedPos(NSeg) # Fcs
Bad(failed) == failed \/ StagedPos(NSeg) # Fcs

LEMMA GridsAre ==
    ASSUME PiecesInv, FrameFacts
    PROVE  /\ GridsOK(grids, Walking, StagedPos(contig), Bad(stageFailed), winner, allDead)
           /\ Spoilt => winner = 0 /\ \A j \in Candidates : ~grids[j].alive
           /\ grids \in [Candidates -> GridState] /\ winner \in Candidates \cup {0} /\ allDead \in BOOLEAN
           /\ stageFailed \in BOOLEAN /\ contig \in 0 .. NSeg /\ StagedPos(contig) \in Nat
  <1>1. ASSUME NEW j \in Candidates
        PROVE  Standing(grids[j], j, Busy("validate", j), StagedPos(contig), Bad(stageFailed))
    BY DEF PiecesInv, GridInv, Standing, Recorded, Bad
  <1>2. winner # 0 => Won(grids[winner], winner, StagedPos(contig))
                      /\ \A j \in Candidates : j < winner => ~grids[j].alive
    BY DEF PiecesInv, WinnerInv, Won, Recorded
  <1>3. allDead => \A j \in Candidates : ~grids[j].alive
    BY DEF PiecesInv, WinnerInv
  <1>4. Spoilt => winner = 0 /\ \A j \in Candidates : ~grids[j].alive
    BY DEF PiecesInv, WinnerInv, Spoilt
  <1>5. grids \in [Candidates -> GridState] /\ winner \in Candidates \cup {0} /\ allDead \in BOOLEAN
        /\ stageFailed \in BOOLEAN /\ contig \in 0 .. NSeg
    BY DEF PiecesInv, TypeOK
  <1>6. StagedPos(contig) \in Nat
    BY <1>5 DEF FrameFacts
  <1> QED
    BY <1>1, <1>2, <1>3, <1>4, <1>5, <1>6 DEF GridsOK, Walking

LEMMA SettledGrids ==
    ASSUME FrameFacts, NEW gs \in [Candidates -> GridState], NEW win \in Candidates \cup {0},
           allDead \in BOOLEAN, NEW pos \in Nat, NEW bad, NEW B,
           GridsOK(gs, B, pos, bad, win, allDead)
    PROVE  /\ GridsOK(Settle(gs, win).grids, B, pos, bad, Settle(gs, win).winner, Settle(gs, win).allDead)
           /\ \A j \in Candidates : Settle(gs, win).grids[j].alive => gs[j].alive
           /\ Settle(gs, win).winner # 0 => Settle(gs, win).winner = win \/ gs[Settle(gs, win).winner].alive
  <1> DEFINE s == Settle(gs, win)
  <1>2. /\ \A j \in Candidates : /\ Standing(s.grids[j], j, B[j], pos, bad)
                                 /\ s.grids[j].alive => gs[j].alive
        /\ s.winner # 0 =>
                /\ Won(s.grids[s.winner], s.winner, pos)
                /\ \A j \in Candidates : j < s.winner => ~s.grids[j].alive
                /\ s.winner = win \/ gs[s.winner].alive
        /\ s.allDead => \A j \in Candidates : ~s.grids[j].alive
    BY SettleKeeps
  <1> QED
    BY <1>2 DEF GridsOK

(* No piece of a grid is in the hands of more threads than there are pieces. *)
LEMMA WalkingFinite ==
    ASSUME NEW n \in Nat, NEW B, B \subseteq 0 .. n - 1
    PROVE  IsFiniteSet(B) /\ Cardinality(B) \in Nat
  <1>1. IsFiniteSet(0 .. n - 1)
    BY FS_Interval
  <1>2. IsFiniteSet(B)
    BY <1>1, FS_Subset
  <1> QED
    BY <1>2, FS_CardinalityType

LEMMA ValidateStands ==
    ASSUME PiecesInv, FrameFacts, Next, \A t \in Thread : ~ClaimValidate(t) /\ ~ValidateDone(t), NEW g
    PROVE  Busy("validate", g)' = Busy("validate", g)
  <1>1. pc \in [Thread -> Label] /\ job \in [Thread -> JobType] /\ nextStage \in Nat /\ nextPiece \in Nat
        /\ pieces \in Candidates \cup {0}
    BY DEF PiecesInv, TypeOK, JobType
  <1> DEFINE Goal == Busy("validate", g)' = Busy("validate", g)
  <1>2. ASSUME NEW t \in Thread, NEW l \in Label, NEW b \in JobType, Moves(t, l, b),
               pc[t] # "validate", l # "validate"
        PROVE  Goal
    BY <1>2, BusyStands
  <1>3. ASSUME NEW t \in Thread, NEW l \in Label, pc' = [pc EXCEPT ![t] = l], job' = job,
               pc[t] # "validate", l # "validate"
        PROVE  Goal
    <2>1. Moves(t, l, job[t]) /\ job[t] \in JobType
      BY <1>1, <1>3 DEF Moves
    <2> HIDE DEF Goal
    <2> QED
      BY <1>2, <1>3, <2>1
  <1>4. ASSUME pc' = pc, job' = job PROVE Goal
    BY <1>4 DEF Busy
  <1>5. ASSUME NEW t \in Thread, ClaimStage(t) PROVE Goal
    <2> DEFINE b == [grid |-> 0, id |-> nextStage]
    <2>1. b \in JobType /\ Moves(t, "stage", b) /\ "stage" \in Label /\ pc[t] # "validate"
      BY <1>1, <1>5 DEF ClaimStage, Claiming, GotoJob, Goto, Moves, Label, JobType
    <2> HIDE DEF b, Goal
    <2> QED
      BY <1>2, <2>1
  <1>6. ASSUME NEW t \in Thread, ClaimExec(t) PROVE Goal
    <2> DEFINE b == [grid |-> pieces, id |-> nextPiece]
    <2>1. b \in JobType /\ Moves(t, "gate", b) /\ "gate" \in Label /\ pc[t] # "validate"
      BY <1>1, <1>6 DEF ClaimExec, Claiming, GotoJob, Goto, Moves, Label, JobType
    <2> HIDE DEF b, Goal
    <2> QED
      BY <1>2, <2>1
  <1>7. ASSUME NEW t \in Thread, StageDone(t) PROVE Goal
    <2>1. pc[t] = "stage" /\ pc' = [pc EXCEPT ![t] = AfterJob(t)] /\ job' = job
      BY <1>7, StageEffects
    <2>2. AfterJob(t) \in Label /\ AfterJob(t) # "validate"
      BY DEF AfterJob, Label
    <2> HIDE DEF Goal
    <2> QED
      BY <1>3, <2>1, <2>2
  <1>8. ASSUME NEW t \in Thread, pc[t] = "gate", pc' = [pc EXCEPT ![t] = "exec"], job' = job PROVE Goal
    <2>1. "exec" \in Label
      BY DEF Label
    <2> HIDE DEF Goal
    <2> QED
      BY <1>3, <1>8, <2>1
  <1>9. ASSUME NEW t \in Thread, NEW l \in Label, Strolls(t, l) PROVE Goal
    <2>1. pc' = [pc EXCEPT ![t] = l] /\ job' = job /\ pc[t] # "validate" /\ l # "validate"
      BY <1>9 DEF Strolls
    <2> HIDE DEF Goal
    <2> QED
      BY <1>3, <2>1
  <1> HIDE DEF Goal
  <1>10. Goal
    BY <1>4, <1>5, <1>6, <1>7, <1>8, <1>9, Kinds
  <1> QED
    BY <1>10 DEF Goal

LEMMA ClaimKeeps ==
    ASSUME PiecesInv, FrameFacts, NEW t \in Thread, ClaimValidate(t)
    PROVE  /\ GridsOK(grids', [j \in Candidates |-> Busy("validate", j)'], StagedPos(contig),
                      Bad(stageFailed), winner, allDead)
           /\ winner' = winner /\ allDead' = allDead /\ winner = 0
           /\ \A j \in Candidates : grids'[j].alive => grids[j].alive
  <1>1. PICK j0 \in Walkable :
            grids' = [grids EXCEPT ![j0].nextValidate = @ + 1]
            /\ GotoJob(t, "validate", j0, grids[j0].nextValidate)
    BY DEF ClaimValidate
  <1>2. GridsOK(grids, Walking, StagedPos(contig), Bad(stageFailed), winner, allDead)
        /\ grids \in [Candidates -> GridState]
    BY GridsAre
  <1>3. winner = 0 /\ ~allDead /\ j0 \in Candidates /\ grids[j0].alive
        /\ grids[j0].nextValidate < grids[j0].cut
    BY <1>2, <1>1 DEF Walkable
  <1>4. winner' = winner /\ allDead' = allDead /\ pc[t] # "validate"
    BY DEF ClaimValidate, Claiming
  <1> DEFINE g == grids[j0]
             k == grids[j0].nextValidate
             h == [g EXCEPT !.nextValidate = k + 1]
             b == [grid |-> j0, id |-> k]
  <1>5. g \in GridState /\ k \in Nat /\ g.cut \in Nat /\ g.validated \in Nat
    BY <1>2, <1>3 DEF GridState
  <1>6. grids' = [grids EXCEPT ![j0] = h]
    BY <1>1, <1>2, <1>3
  <1>7. h.alive = g.alive /\ h.cut = g.cut /\ h.validated = g.validated /\ h.tops = g.tops
        /\ h.nextValidate = k + 1
    BY <1>5 DEF GridState
  <1>8. Moves(t, "validate", b) /\ "validate" \in Label /\ b \in JobType
    BY <1>1, <1>3, <1>5 DEF Moves, GotoJob, Goto, Label, JobType
  <1>9. b.grid = j0 /\ b.id = k
    OBVIOUS
  <1> HIDE DEF h, b
  <1>10. ASSUME NEW j PROVE Busy("validate", j)' = IF j = j0 THEN Busy("validate", j) \cup {k}
                                                             ELSE Busy("validate", j)
    <2>1. Busy("validate", j)' = IF j = b.grid THEN Busy("validate", j) \cup {b.id} ELSE Busy("validate", j)
      BY <1>4, <1>8, BusyAdds
    <2> QED
      BY <1>9, <2>1
  <1>11. ASSUME NEW j \in Candidates
         PROVE  grids'[j] = (IF j = j0 THEN h ELSE grids[j])
                /\ Standing(grids[j], j, Busy("validate", j), StagedPos(contig), Bad(stageFailed))
    BY <1>2, <1>3, <1>6 DEF GridsOK, Walking
  <1> DEFINE B0 == Busy("validate", j0)
  <1>12. Standing(h, j0, B0 \cup {k}, StagedPos(contig), Bad(stageFailed))
    <2>1. Standing(g, j0, B0, StagedPos(contig), Bad(stageFailed))
      BY <1>3, <1>11
    <2> HIDE DEF B0
    <2>2. /\ g.cut <= NPieces(j0) /\ k <= g.cut /\ k < g.cut
          /\ g.tops \in [0 .. g.cut - 1 -> Nat]
          /\ g.validated + Cardinality(B0) = k
          /\ B0 \subseteq 0 .. k - 1
      BY <1>3, <2>1 DEF Standing
    <2>3. IsFiniteSet(B0) /\ Cardinality(B0) \in Nat
      BY <1>5, <2>2, WalkingFinite
    <2>4. k \notin B0
      BY <1>5, <2>2
    <2>5. Cardinality(B0 \cup {k}) = Cardinality(B0) + 1
      BY <2>3, <2>4, FS_AddElement
    <2> HIDE DEF g, k
    <2>6. g.validated + Cardinality(B0 \cup {k}) = k + 1 /\ k + 1 <= g.cut
      BY <1>5, <2>2, <2>3, <2>5
    <2>7. B0 \cup {k} \subseteq 0 .. (k + 1) - 1
      BY <1>5, <2>2
    <2>8. g.alive =>
            /\ g.cut = Cardinality(Inside(j0, StagedPos(contig)))
            /\ \A i \in 1 .. NPieces(j0) - 1 : Start(j0, i) < StagedPos(contig) => OnBlock(j0, i)
            /\ \A i \in 0 .. (k + 1) - 1 : i \notin B0 \cup {k} =>
                ValidatePiece(j0, i).ok /\ g.tops[i] = ValidatePiece(j0, i).top
      <3>1. \A i \in 0 .. (k + 1) - 1 : i # k => i \in 0 .. k - 1
        BY <1>5
      <3>2. g.alive => \A i \in 0 .. k - 1 : i \notin B0 =>
                ValidatePiece(j0, i).ok /\ g.tops[i] = ValidatePiece(j0, i).top
        BY <2>1 DEF Standing, g, k
      <3>3. g.alive => /\ g.cut = Cardinality(Inside(j0, StagedPos(contig)))
                       /\ \A i \in 1 .. NPieces(j0) - 1 : Start(j0, i) < StagedPos(contig) => OnBlock(j0, i)
        BY <2>1 DEF Standing
      <3> QED
        BY <3>1, <3>2, <3>3
    <2>9. ~g.alive => Bad(stageFailed) \/ ~Usable(j0)
      BY <2>1 DEF Standing
    <2>10. h.alive = g.alive /\ h.cut = g.cut /\ h.validated = g.validated /\ h.tops = g.tops
           /\ h.nextValidate = k + 1
      BY <1>7 DEF g, k
    <2> QED
      BY <2>2, <2>6, <2>7, <2>8, <2>9, <2>10 DEF Standing
  <1> DEFINE B == [j \in Candidates |-> Busy("validate", j)']
  <1>13. \A j \in Candidates : B[j] = IF j = j0 THEN B0 \cup {k} ELSE Busy("validate", j)
    BY <1>10
  <1> HIDE DEF B, B0, g, k
  <1>14. \A j \in Candidates : Standing(grids'[j], j, B[j], StagedPos(contig), Bad(stageFailed))
    BY <1>11, <1>12, <1>13
  <1>15. GridsOK(grids', B, StagedPos(contig), Bad(stageFailed), winner, allDead)
    BY <1>3, <1>14 DEF GridsOK
  <1> QED
    BY <1>3, <1>4, <1>7, <1>11, <1>15 DEF B, g

LEMMA WalkKeeps ==
    ASSUME PiecesInv, FrameFacts, NEW t \in Thread, ValidateDone(t)
    PROVE  /\ GridsOK(grids', [j \in Candidates |-> Busy("validate", j)'], StagedPos(contig),
                      Bad(stageFailed), winner', allDead')
           /\ \A j \in Candidates : grids'[j].alive => grids[j].alive
           /\ winner' # 0 => winner' = winner \/ grids[winner'].alive
  <1> DEFINE j0 == job[t].grid
             k == job[t].id
             walk == ValidatePiece(j0, k)
             pos == StagedPos(contig)
             bad == Bad(stageFailed)
             B == [j \in Candidates |-> Busy("validate", j)']
             B0 == Busy("validate", j0)
             g == grids[j0]
  <1>1. pc[t] = "validate" /\ pc' = [pc EXCEPT ![t] = "claim"] /\ job' = job /\ "claim" \in Label
    BY DEF ValidateDone, Goto, Label
  <1>2. j0 \in Candidates /\ k \in B0 /\ k \in 0 .. g.nextValidate - 1
        /\ k \in 0 .. g.cut - 1 /\ k \in 0 .. NPieces(j0) - 1
    BY <1>1, ValidateIn
  <1>3. /\ GridsOK(grids, Walking, pos, bad, winner, allDead)
        /\ grids \in [Candidates -> GridState] /\ winner \in Candidates \cup {0} /\ allDead \in BOOLEAN
        /\ pos \in Nat
    BY GridsAre
  <1>4. \A j \in Candidates : Standing(grids[j], j, Busy("validate", j), pos, bad)
    BY <1>3 DEF GridsOK, Walking
  <1>5. PICK gs \in [Candidates -> GridState] :
            /\ SetGrids(Settle(gs, winner))
            /\ \A j \in Candidates : j # j0 => gs[j] = grids[j]
            /\ gs[j0].alive = (g.alive /\ walk.ok) /\ gs[j0].cut = g.cut
            /\ gs[j0].nextValidate = g.nextValidate /\ gs[j0].validated = g.validated + 1
            /\ gs[j0].tops = IF walk.ok THEN [g.tops EXCEPT ![k] = walk.top] ELSE g.tops
            /\ gs[j0].tops \in [0 .. g.cut - 1 -> Nat]
    BY <1>2, ValidateEffects
  <1>6. ASSUME NEW j PROVE Busy("validate", j)' = IF j = j0 THEN Busy("validate", j) \ {k}
                                                            ELSE Busy("validate", j)
    <2>1. Moves(t, "claim", job[t])
      <3>1. job \in [Thread -> JobType]
        BY DEF PiecesInv, TypeOK, JobType
      <3> QED
        BY <1>1, <3>1 DEF Moves
    <2> QED
      BY <1>1, <2>1, BusyDrops
  <1>7. \A j \in Candidates : B[j] = IF j = j0 THEN B0 \ {k} ELSE Busy("validate", j)
    BY <1>6
  <1>8. g \in GridState /\ g.alive \in BOOLEAN /\ g.validated \in Nat /\ g.nextValidate \in Nat /\ g.cut \in Nat
    BY <1>2, <1>3 DEF GridState
  <1>9. walk.ok \in BOOLEAN
    BY <1>2 DEF FrameFacts
  <1> DEFINE h == gs[j0]
  <1>10. /\ h.alive <=> g.alive /\ walk.ok
         /\ h.cut = g.cut /\ h.nextValidate = g.nextValidate /\ h.validated = g.validated + 1
         /\ h.tops = IF walk.ok THEN [g.tops EXCEPT ![k] = walk.top] ELSE g.tops
         /\ h.tops \in [0 .. g.cut - 1 -> Nat]
    BY <1>5, <1>8, <1>9
  <1>11. Standing(g, j0, B0, pos, bad)
    BY <1>2, <1>4
  <1> HIDE DEF h, g, walk, j0, k, B0, B, pos, bad
  <1>12. Standing(h, j0, B0 \ {k}, pos, bad)
    <2>1. /\ g.cut <= NPieces(j0) /\ g.nextValidate <= g.cut
          /\ g.validated + Cardinality(B0) = g.nextValidate
          /\ B0 \subseteq 0 .. g.nextValidate - 1
          /\ ~g.alive => bad \/ ~Usable(j0)
          /\ g.tops \in [0 .. g.cut - 1 -> Nat]
      BY <1>11 DEF Standing
    <2>2. IsFiniteSet(B0) /\ Cardinality(B0) \in Nat
      BY <1>8, <2>1, WalkingFinite
    <2>3. Cardinality(B0 \ {k}) = Cardinality(B0) - 1
      BY <1>2, <2>2, FS_RemoveElement
    <2>4. h.validated + Cardinality(B0 \ {k}) = h.nextValidate
      <3>1. h.validated = g.validated + 1 /\ h.nextValidate = g.nextValidate
        BY <1>10
      <3>2. g.validated + Cardinality(B0) = g.nextValidate
        BY <2>1
      <3> HIDE DEF B0
      <3> QED
        BY <1>8, <2>2, <2>3, <3>1, <3>2
    <2>5. h.alive =>
            /\ h.cut = Cardinality(Inside(j0, pos))
            /\ \A i \in 1 .. NPieces(j0) - 1 : Start(j0, i) < pos => OnBlock(j0, i)
            /\ \A i \in 0 .. h.nextValidate - 1 : i \notin B0 \ {k} =>
                ValidatePiece(j0, i).ok /\ h.tops[i] = ValidatePiece(j0, i).top
      <3> SUFFICES ASSUME h.alive
                   PROVE  /\ h.cut = Cardinality(Inside(j0, pos))
                          /\ \A i \in 1 .. NPieces(j0) - 1 : Start(j0, i) < pos => OnBlock(j0, i)
                          /\ \A i \in 0 .. h.nextValidate - 1 : i \notin B0 \ {k} =>
                              ValidatePiece(j0, i).ok /\ h.tops[i] = ValidatePiece(j0, i).top
        OBVIOUS
      <3>1. g.alive /\ walk.ok
        BY <1>10
      <3>2. /\ g.cut = Cardinality(Inside(j0, pos))
            /\ \A i \in 1 .. NPieces(j0) - 1 : Start(j0, i) < pos => OnBlock(j0, i)
            /\ \A i \in 0 .. g.nextValidate - 1 : i \notin B0 =>
                ValidatePiece(j0, i).ok /\ g.tops[i] = ValidatePiece(j0, i).top
        BY <1>11, <3>1 DEF Standing
      <3>3. h.tops = [g.tops EXCEPT ![k] = walk.top]
        BY <1>10, <3>1
      <3>4. ASSUME NEW i \in 0 .. h.nextValidate - 1, i \notin B0 \ {k}
            PROVE  ValidatePiece(j0, i).ok /\ h.tops[i] = ValidatePiece(j0, i).top
        <4>1. i \in 0 .. g.nextValidate - 1 /\ i \in 0 .. g.cut - 1
          BY <1>8, <1>10, <2>1
        <4>2. CASE i = k
          <5>1. h.tops[i] = walk.top
            BY <2>1, <3>3, <4>1, <4>2
          <5> QED
            BY <3>1, <4>2, <5>1 DEF walk
        <4>3. CASE i # k
          <5>1. h.tops[i] = g.tops[i] /\ i \notin B0
            BY <2>1, <3>3, <3>4, <4>1, <4>3
          <5> QED
            BY <3>2, <4>1, <5>1
        <4> QED
          BY <4>2, <4>3
      <3> QED
        BY <1>10, <3>2, <3>4
    <2>6. ~h.alive => bad \/ ~Usable(j0)
      <3>1. ~walk.ok => ~Usable(j0)
        BY <1>2 DEF walk, Usable
      <3> QED
        BY <1>10, <2>1, <3>1
    <2> QED
      BY <1>10, <2>1, <2>4, <2>5, <2>6 DEF Standing
  <1>13. \A j \in Candidates : Standing(gs[j], j, B[j], pos, bad)
    BY <1>4, <1>5, <1>7, <1>12 DEF h
  <1>14. \A j \in Candidates : gs[j].alive => grids[j].alive
    <2>1. gs[j0].alive => grids[j0].alive
      BY <1>10 DEF h, g
    <2> QED
      BY <1>5, <2>1
  <1>15. winner # 0 => /\ Won(gs[winner], winner, pos)
                       /\ \A j \in Candidates : j < winner => ~gs[j].alive
    <2> SUFFICES ASSUME winner # 0
                 PROVE  /\ Won(gs[winner], winner, pos)
                        /\ \A j \in Candidates : j < winner => ~gs[j].alive
      OBVIOUS
    <2>1. winner \in Candidates /\ Won(grids[winner], winner, pos)
          /\ \A j \in Candidates : j < winner => ~grids[j].alive
      BY <1>3 DEF GridsOK
    <2>2. winner # j0
      <3> SUFFICES ASSUME winner = j0 PROVE FALSE
        OBVIOUS
      <3>1. g.cut = NPieces(j0) /\ g.validated >= g.cut
        BY <2>1 DEF Won, FullyWalked, g
      <3>2. /\ g.cut <= NPieces(j0) /\ g.nextValidate <= g.cut
            /\ g.validated + Cardinality(B0) = g.nextValidate
            /\ B0 \subseteq 0 .. g.nextValidate - 1
        BY <1>11 DEF Standing
      <3>3. IsFiniteSet(B0) /\ Cardinality(B0) \in Nat
        BY <1>8, <3>2, WalkingFinite
      <3>4. Cardinality(B0) = 0
        BY <1>8, <3>1, <3>2, <3>3
      <3>5. B0 = {}
        BY <3>3, <3>4, FS_EmptySet
      <3> QED
        BY <1>2, <3>5
    <2> QED
      BY <1>5, <1>14, <2>1, <2>2
  <1>16. allDead => \A j \in Candidates : ~gs[j].alive
    BY <1>3, <1>14 DEF GridsOK
  <1>17. SetGrids(Settle(gs, winner))
    BY <1>5
  <1> DEFINE s == Settle(gs, winner)
  <1>18. /\ GridsOK(s.grids, B, pos, bad, s.winner, s.allDead)
         /\ \A j \in Candidates : s.grids[j].alive => gs[j].alive
         /\ s.winner # 0 => s.winner = winner \/ gs[s.winner].alive
    <2>1. winner \in Candidates \cup {0} /\ allDead \in BOOLEAN /\ pos \in Nat
      BY <1>3
    <2>2. GridsOK(gs, B, pos, bad, winner, allDead)
      BY <1>13, <1>15, <1>16 DEF GridsOK
    <2> QED
      BY <2>1, <2>2, SettledGrids
  <1>19. grids' = s.grids /\ winner' = s.winner /\ allDead' = s.allDead
    BY <1>17 DEF SetGrids
  <1>20. s.winner \in Candidates \cup {0}
    BY <1>3, SettleIs
  <1> HIDE DEF s
  <1>21. GridsOK(grids', B, pos, bad, winner', allDead')
    BY <1>18, <1>19
  <1>22. /\ \A j \in Candidates : grids'[j].alive => grids[j].alive
         /\ winner' # 0 => winner' = winner \/ grids[winner'].alive
    BY <1>14, <1>18, <1>19, <1>20
  <1> QED
    BY <1>21, <1>22 DEF B, pos, bad

(* Once the count is full, every segment is staged.                         *)
LEMMA Whole ==
    ASSUME NEW n \in Nat, NEW next \in 1 .. n + 1, NEW busy, IsFiniteSet(busy),
           n + Cardinality(busy) = next - 1
    PROVE  next = n + 1 /\ busy = {}
  <1>1. Cardinality(busy) \in Nat
    BY FS_CardinalityType
  <1>2. Cardinality(busy) = 0 /\ next = n + 1
    BY <1>1
  <1> QED
    BY <1>2, FS_EmptySet

LEMMA WholeNow ==
    ASSUME PiecesInv, FrameFacts, stagedCount = NSeg
    PROVE  /\ nextStage = NSeg + 1 /\ Busy("stage", 0) = {}
           /\ \A t \in Thread : pc[t] # "stage"
           /\ ~aborting /\ ~stageFailed => contig = NSeg /\ StagedOk
  <1>1. NSeg \in Nat /\ stagedCount \in Nat /\ nextStage \in 1 .. NSeg + 1
        /\ staging \in [1 .. NSeg -> {"ok", "err", "panic"}] /\ contig \in 0 .. NSeg
    BY DEF PiecesInv, TypeOK, FrameFacts, Seg
  <1>2. IsFiniteSet(Busy("stage", 0))
    BY StagingFinite
  <1>3. \A s \in 1 .. NSeg :
            /\ slots[s] = "ok" <=> (s < nextStage /\ s \notin Busy("stage", 0)) /\ staging[s] = "ok"
            /\ slots[s] = "failed" <=> (s < nextStage /\ s \notin Busy("stage", 0)) /\ staging[s] = "err"
            /\ s \in stageErrors <=> slots[s] = "failed"
            /\ (s < nextStage /\ s \notin Busy("stage", 0)) /\ staging[s] = "panic" => aborting
    BY DEF PiecesInv, StagingInv, Finished, Seg
  <1>4. /\ stagedCount + Cardinality(Busy("stage", 0)) = nextStage - 1
        /\ stageFailed <=> stageErrors # {}
        /\ ~aborting /\ ~stageFailed /\ contig < NSeg => slots[contig + 1] # "ok"
    BY DEF PiecesInv, StagingInv
  <1> DEFINE B == Busy("stage", 0)
  <1> HIDE DEF B
  <1>7. nextStage = NSeg + 1 /\ B = {}
    <2>1. IsFiniteSet(B) /\ NSeg + Cardinality(B) = nextStage - 1
      BY <1>2, <1>4 DEF B
    <2> QED
      BY <1>1, <2>1, Whole
  <1>5. /\ nextStage = NSeg + 1 /\ B = {}
        /\ ~aborting /\ ~stageFailed => contig = NSeg /\ \A s \in 1 .. NSeg : staging[s] = "ok"
    <2> SUFFICES ASSUME ~aborting, ~stageFailed
                 PROVE  contig = NSeg /\ \A s \in 1 .. NSeg : staging[s] = "ok"
      BY <1>7
    <2>1. ASSUME NEW s \in 1 .. NSeg PROVE slots[s] = "ok" /\ staging[s] = "ok"
      <3>1. s < nextStage /\ s \notin B
        BY <1>1, <1>7
      <3>2. staging[s] # "panic" /\ s \notin stageErrors
        BY <1>3, <1>4, <3>1 DEF B
      <3> QED
        BY <1>1, <1>3, <3>1, <3>2 DEF B
    <2>2. contig = NSeg
      <3> SUFFICES ASSUME contig # NSeg PROVE FALSE
        OBVIOUS
      <3>1. contig < NSeg /\ contig + 1 \in 1 .. NSeg
        BY <1>1
      <3> QED
        BY <1>4, <2>1, <3>1
    <2> QED
      BY <2>1, <2>2
  <1>6. \A t \in Thread : pc[t] # "stage"
    <2>1. ASSUME NEW t \in Thread, pc[t] = "stage" PROVE FALSE
      BY <1>5, <2>1, StageIn DEF B
    <2> QED
      BY <2>1
  <1> QED
    BY <1>5, <1>6 DEF B, StagedOk, Seg

LEMMA WholeThen ==
    ASSUME PiecesInv, FrameFacts, Next, stagedCount' = NSeg, ~aborting', ~stageFailed'
    PROVE  contig' = NSeg
  <1>1. frame' = frame /\ staging' = staging /\ Seg' = Seg /\ NSeg' = NSeg
    BY InputsFixed, FactsStay
  <1>2. StagingInv' /\ TypeOK'
    BY StagingStep, TypeStep
  <1>3. NSeg \in Nat /\ stagedCount' \in Nat /\ nextStage' \in 1 .. NSeg + 1
        /\ staging \in [1 .. NSeg -> {"ok", "err", "panic"}] /\ contig' \in 0 .. NSeg
    <2>1. NSeg \in Nat /\ staging \in [1 .. NSeg -> {"ok", "err", "panic"}]
      BY DEF PiecesInv, TypeOK, FrameFacts, Seg
    <2>2. stagedCount' \in Nat /\ nextStage' \in 1 .. NSeg + 1 /\ contig' \in 0 .. NSeg
      BY <1>1, <1>2 DEF TypeOK
    <2> QED
      BY <2>1, <2>2
  <1> DEFINE B == Busy("stage", 0)'
  <1>4. \A s \in 1 .. NSeg :
            /\ slots'[s] = "ok" <=> (s < nextStage' /\ s \notin B) /\ staging[s] = "ok"
            /\ slots'[s] = "failed" <=> (s < nextStage' /\ s \notin B) /\ staging[s] = "err"
            /\ s \in stageErrors' <=> slots'[s] = "failed"
            /\ (s < nextStage' /\ s \notin B) /\ staging[s] = "panic" => aborting'
    BY <1>1, <1>2 DEF StagingInv, Finished, Seg
  <1>5. /\ stagedCount' + Cardinality(B) = nextStage' - 1
        /\ stageFailed' <=> stageErrors' # {}
        /\ ~aborting' /\ ~stageFailed' /\ contig' < NSeg => slots'[contig' + 1] # "ok"
    BY <1>1, <1>2 DEF StagingInv
  <1>6. IsFiniteSet(B)
    <2>1. B \subseteq 1 .. nextStage' - 1
      BY <1>2 DEF StagingInv, Busy
    <2>2. nextStage' - 1 \in Int
      BY <1>3
    <2> DEFINE m == nextStage' - 1
    <2> HIDE DEF B, m
    <2>3. IsFiniteSet(1 .. m)
      BY <2>2, FS_Interval DEF m
    <2>4. B \in SUBSET (1 .. m)
      BY <2>1 DEF m
    <2> QED
      BY <2>3, <2>4, FS_Subset
  <1>7. nextStage' = NSeg + 1 /\ B = {}
    <2> DEFINE n == nextStage'
    <2>1. NSeg + Cardinality(B) = n - 1 /\ n \in 1 .. NSeg + 1
      BY <1>3, <1>5
    <2> HIDE DEF B, n
    <2>2. n = NSeg + 1 /\ B = {}
      BY <1>3, <1>6, <2>1, Whole
    <2> QED
      BY <2>2 DEF n
  <1> HIDE DEF B
  <1>8. ASSUME NEW s \in 1 .. NSeg PROVE slots'[s] = "ok"
    <2>1. s < nextStage' /\ s \notin B
      BY <1>3, <1>7
    <2>2. staging[s] # "panic" /\ s \notin stageErrors'
      BY <1>4, <1>5, <2>1
    <2> QED
      BY <1>3, <1>4, <2>1, <2>2
  <1> SUFFICES ASSUME contig' # NSeg PROVE FALSE
    OBVIOUS
  <1>9. contig' < NSeg /\ contig' + 1 \in 1 .. NSeg
    <2> DEFINE c == contig'
    <2>1. c \in 0 .. NSeg /\ c # NSeg
      BY <1>3
    <2> HIDE DEF c
    <2>2. c < NSeg /\ c + 1 \in 1 .. NSeg
      BY <1>3, <2>1
    <2> QED
      BY <2>2 DEF c
  <1> QED
    BY <1>5, <1>8, <1>9
(* A grid as the staged prefix grows from m segments to n, or dies.         *)
LEMMA RefreshKeeps ==
    ASSUME FrameFacts, NEW j \in Candidates, NEW g \in GridState, NEW n \in 0 .. NSeg, NEW m \in 0 .. NSeg,
           m <= n, NEW complete \in BOOLEAN, complete => n = NSeg, NEW B, NEW bad,
           Standing(g, j, B, StagedPos(m), bad)
    PROVE  /\ Standing(Refresh(g, j, n, complete), j, B, StagedPos(n), bad)
           /\ Refresh(g, j, n, complete).alive => g.alive
           /\ Won(g, j, StagedPos(m)) => Won(Refresh(g, j, n, complete), j, StagedPos(n))
  <1> DEFINE h == Refresh(g, j, n, complete)
             lo == StagedPos(m)
             hi == StagedPos(n)
  <1>1. lo \in Nat /\ hi \in Nat /\ lo <= hi /\ Fcs \in Nat \ {0} /\ j \in Nat \ {0}
    BY DEF FrameFacts
  <1>2. /\ g.cut \in Nat /\ g.nextValidate \in Nat /\ g.alive \in BOOLEAN
        /\ g.cut <= NPieces(j) /\ g.nextValidate <= g.cut
        /\ g.tops \in [0 .. g.cut - 1 -> Nat]
        /\ g.validated + Cardinality(B) = g.nextValidate
        /\ B \subseteq 0 .. g.nextValidate - 1
    BY DEF Standing, GridState
  <1>3. /\ h \in GridState /\ h.nextValidate = g.nextValidate /\ h.validated = g.validated
        /\ h.alive =>
             /\ g.alive
             /\ h.cut = Cardinality(Inside(j, hi))
             /\ \A k \in 1 .. NPieces(j) - 1 : complete \/ Start(j, k) < hi => Start(j, k) \in StagedStarts(n)
        /\ ~h.alive =>
             /\ h.cut = g.cut
             /\ g.alive => \E k \in 1 .. NPieces(j) - 1 :
                    (complete \/ Start(j, k) < hi) /\ Start(j, k) \notin StagedStarts(n)
        /\ h.tops \in [0 .. h.cut - 1 -> Nat]
        /\ \A k \in Nat : k < g.cut /\ k < h.cut => h.tops[k] = g.tops[k]
    BY <1>2, RefreshIs
  <1>4. /\ NPieces(j) \in Nat \ {0} /\ \A k \in Nat : Start(j, k) \in Nat /\ End(j, k) \in Nat
        /\ \A k \in 0 .. NPieces(j) - 1 : End(j, k) <= Fcs
    BY <1>1, GridFacts
  <1>5. /\ Cardinality(Inside(j, lo)) \in 0 .. NPieces(j)
        /\ \A k \in 0 .. NPieces(j) - 1 : End(j, k) <= lo <=> k < Cardinality(Inside(j, lo))
        /\ Cardinality(Inside(j, hi)) \in 0 .. NPieces(j)
        /\ \A k \in 0 .. NPieces(j) - 1 : End(j, k) <= hi <=> k < Cardinality(Inside(j, hi))
    BY <1>1, InsideIs
  <1> DEFINE few == Cardinality(Inside(j, lo))
             many == Cardinality(Inside(j, hi))
  <1>6. few <= many
    <2> SUFFICES ASSUME ~(few <= many) PROVE FALSE
      OBVIOUS
    <2> HIDE DEF lo, hi
    <2>1. many \in 0 .. NPieces(j) - 1 /\ many < few /\ ~(many < many)
      BY <1>4, <1>5
    <2>2. End(j, many) \in Nat /\ End(j, many) <= lo /\ ~(End(j, many) <= hi)
      BY <1>4, <1>5, <2>1
    <2> QED
      BY <1>1, <2>2
  <1>7. h.cut \in Nat
    BY <1>3 DEF GridState
  <1>8. g.alive => g.cut = few /\ (\A k \in 0 .. g.nextValidate - 1 : k \notin B =>
                       ValidatePiece(j, k).ok /\ g.tops[k] = ValidatePiece(j, k).top)
    BY DEF Standing
  <1>9. ~g.alive => bad \/ ~Usable(j)
    BY DEF Standing
  <1>10. h.cut <= NPieces(j) /\ g.cut <= h.cut
    BY <1>2, <1>3, <1>5, <1>6, <1>8
  <1>11. \A k \in 1 .. NPieces(j) - 1 :
            Start(j, k) < hi => (OnBlock(j, k) <=> Start(j, k) \in StagedStarts(n))
    BY DEF FrameFacts
  <1>12. \A k \in 1 .. NPieces(j) - 1 : complete => (OnBlock(j, k) <=> Start(j, k) \in StagedStarts(n))
    BY DEF FrameFacts
  <1> HIDE DEF lo, hi, h, few, many
  <1>13. h.alive => /\ h.cut = Cardinality(Inside(j, hi))
                    /\ \A k \in 1 .. NPieces(j) - 1 : Start(j, k) < hi => OnBlock(j, k)
                    /\ \A k \in 0 .. h.nextValidate - 1 : k \notin B =>
                        ValidatePiece(j, k).ok /\ h.tops[k] = ValidatePiece(j, k).top
    <2> SUFFICES ASSUME h.alive
                 PROVE  /\ \A k \in 1 .. NPieces(j) - 1 : Start(j, k) < hi => OnBlock(j, k)
                        /\ \A k \in 0 .. h.nextValidate - 1 : k \notin B =>
                            ValidatePiece(j, k).ok /\ h.tops[k] = ValidatePiece(j, k).top
      BY <1>3
    <2>1. g.alive /\ \A k \in 1 .. NPieces(j) - 1 : Start(j, k) < hi => OnBlock(j, k)
      BY <1>3, <1>11
    <2>2. ASSUME NEW k \in 0 .. h.nextValidate - 1, k \notin B
          PROVE  ValidatePiece(j, k).ok /\ h.tops[k] = ValidatePiece(j, k).top
      <3>1. k \in 0 .. g.nextValidate - 1 /\ k \in Nat /\ k < g.cut /\ k < h.cut
        BY <1>2, <1>3, <1>7, <1>10
      <3> QED
        BY <1>3, <1>8, <2>1, <2>2, <3>1
    <2> QED
      BY <2>1, <2>2
  <1>14. ~h.alive => bad \/ ~Usable(j)
    <2> SUFFICES ASSUME ~h.alive, g.alive PROVE ~Usable(j)
      BY <1>9
    <2>1. PICK k \in 1 .. NPieces(j) - 1 : (complete \/ Start(j, k) < hi) /\ Start(j, k) \notin StagedStarts(n)
      BY <1>3
    <2>2. ~OnBlock(j, k)
      BY <1>11, <1>12, <2>1
    <2> QED
      BY <2>2 DEF Usable
  <1>15. Standing(h, j, B, hi, bad)
    <2>1. h.nextValidate <= h.cut
      BY <1>2, <1>3, <1>7, <1>10
    <2> QED
      BY <1>2, <1>3, <1>10, <1>13, <1>14, <2>1 DEF Standing
  <1>16. Won(g, j, lo) => Won(h, j, hi)
    <2> SUFFICES ASSUME Won(g, j, lo) PROVE Won(h, j, hi)
      OBVIOUS
    <2>1. /\ g.cut = NPieces(j) /\ g.validated >= g.cut /\ Usable(j) /\ lo >= Fcs
          /\ \A k \in 0 .. NPieces(j) - 1 : ValidatePiece(j, k).ok /\ g.tops[k] = ValidatePiece(j, k).top
      BY DEF Won, FullyWalked
    <2>2. h.cut = NPieces(j) /\ h.validated >= h.cut /\ hi >= Fcs
      <3>1. h.cut = NPieces(j)
        <4>1. NPieces(j) \in Nat
          BY <1>4
        <4>2. g.cut = NPieces(j)
          BY <2>1
        <4> HIDE DEF Won
        <4> QED
          BY <1>7, <1>10, <4>1, <4>2
      <3>2. h.validated = g.validated /\ g.validated >= NPieces(j)
        BY <1>3, <2>1
      <3>3. hi >= Fcs
        BY <1>1, <2>1
      <3> QED
        BY <3>1, <3>2, <3>3
    <2>3. \A k \in 0 .. NPieces(j) - 1 : h.tops[k] = g.tops[k]
      <3>1. \A k \in 0 .. NPieces(j) - 1 : k \in Nat /\ k < g.cut /\ k < h.cut
        BY <1>4, <2>1, <2>2
      <3> QED
        BY <1>3, <3>1
    <2> QED
      BY <2>1, <2>2, <2>3 DEF Won, FullyWalked
  <1> QED
    BY <1>3, <1>15, <1>16 DEF h, lo, hi

LEMMA KillKeeps ==
    ASSUME NEW j \in Candidates, NEW g \in GridState, NEW h, h = [g EXCEPT !.alive = FALSE],
           NEW B, NEW lo \in Nat, NEW hi \in Nat, lo <= hi, NEW was, NEW bad,
           Standing(g, j, B, lo, was), bad, Fcs \in Nat
    PROVE  Standing(h, j, B, hi, bad) /\ ~h.alive /\ (Won(g, j, lo) => Won(h, j, hi))
  <1>1. ~h.alive /\ h.cut = g.cut /\ h.nextValidate = g.nextValidate /\ h.validated = g.validated
        /\ h.tops = g.tops
    BY DEF GridState
  <1>2. Standing(h, j, B, hi, bad)
    BY <1>1 DEF Standing
  <1>3. Won(g, j, lo) => Won(h, j, hi)
    BY <1>1 DEF Won, FullyWalked
  <1> QED
    BY <1>1, <1>2, <1>3

LEMMA StageKeeps ==
    ASSUME PiecesInv, FrameFacts, Next, NEW t \in Thread, StageDone(t)
    PROVE  /\ GridsOK(grids', Walking, StagedPos(contig'), Bad(stageFailed'), winner', allDead')
           /\ stagedCount' = NSeg /\ ~aborting' /\ ~stageFailed' /\ StagedPos(NSeg) # Fcs =>
                winner' = 0 /\ \A j \in Candidates : ~grids'[j].alive
           /\ \A j \in Candidates : grids'[j].alive => grids[j].alive
  <1>1. /\ GridsOK(grids, Walking, StagedPos(contig), Bad(stageFailed), winner, allDead)
        /\ grids \in [Candidates -> GridState] /\ winner \in Candidates \cup {0} /\ allDead \in BOOLEAN
        /\ contig \in 0 .. NSeg /\ StagedPos(contig) \in Nat
        /\ NSeg \in Nat /\ Fcs \in Nat /\ Caller \in Thread
    BY GridsAre DEF FrameFacts, Thread
  <1>2. /\ \A j \in Candidates : Standing(grids[j], j, Walking[j], StagedPos(contig), Bad(stageFailed))
        /\ winner # 0 => Won(grids[winner], winner, StagedPos(contig))
                         /\ \A j \in Candidates : j < winner => ~grids[j].alive
        /\ allDead => \A j \in Candidates : ~grids[j].alive
    BY <1>1 DEF GridsOK
  <1> DEFINE s == job[t].id
  <1>3. /\ s \in Seg /\ slots[s] # "ok"
        /\ slots \in [Seg -> {"pending", "ok", "failed"}]
        /\ \A i \in 1 .. contig : slots[i] = "ok"
    <2>1. s \in Seg /\ s \in Busy("stage", 0)
      BY StageIn DEF StageDone
    <2> QED
      BY <2>1 DEF PiecesInv, StagingInv, Finished, TypeOK
  <1>4. Advances(t) => contig \in 0 .. NSeg /\ contig' \in 0 .. NSeg /\ contig <= contig'
    <2> SUFFICES ASSUME Advances(t) PROVE contig' \in 0 .. NSeg /\ contig <= contig'
      BY <1>1
    <2> DEFINE n == contig'
    <2>1. n \in 0 .. NSeg /\ (n < NSeg => slots'[n + 1] # "ok") /\ s = contig + 1
          /\ slots' = [slots EXCEPT ![s] = IF staging[s] = "ok" THEN "ok"
                                           ELSE IF staging[s] = "err" THEN "failed" ELSE @]
      BY StageEffects DEF Advances
    <2> HIDE DEF n, s
    <2>2. contig <= n
      <3> SUFFICES ASSUME n < contig PROVE FALSE
        BY <1>1, <2>1
      <3>1. n + 1 \in 1 .. contig /\ n < NSeg /\ n + 1 # s /\ n + 1 \in Seg
        BY <1>1, <2>1 DEF Seg
      <3>2. slots'[n + 1] = slots[n + 1]
        BY <1>3, <2>1, <3>1
      <3> QED
        BY <1>3, <2>1, <3>1, <3>2
    <2> QED
      BY <2>1, <2>2 DEF n
  <1>5. CASE Advances(t)
    <2> DEFINE n == contig'
               count == stagedCount'
               bad == Bad(stageFailed)
               gs == Fresh(n, count)
               win == IF Corrupt(n, count) THEN 0 ELSE winner
    <2>1. n \in 0 .. NSeg /\ contig <= n
      BY <1>4, <1>5
    <2>2. SetGrids(Settle(gs, win)) /\ stageFailed' = (stageFailed \/ staging[s] = "err")
          /\ count = stagedCount + 1
      BY <1>5, StageEffects
    <2>3. ~aborting' /\ ~stageFailed'
      BY <1>5 DEF Advances
    <2>4. ~stageFailed
      BY <2>2, <2>3
    <2>5. bad <=> Bad(stageFailed')
      BY <2>3, <2>4 DEF Bad
    <2>6. count \in Nat
      <3>1. stagedCount \in Nat
        BY DEF PiecesInv, TypeOK
      <3> QED
        BY <2>2, <3>1
    <2>7. count = NSeg => n = NSeg
      BY <2>3, WholeThen
    <2>8. StagedPos(n) \in Nat /\ StagedPos(contig) <= StagedPos(n)
      BY <1>1, <2>1 DEF FrameFacts
    <2>9. /\ gs \in [Candidates -> GridState]
          /\ \A j \in Candidates : gs[j] = IF Corrupt(n, count) THEN [grids[j] EXCEPT !.alive = FALSE]
                                           ELSE Refresh(grids[j], j, n, count = NSeg)
      BY <2>1, <2>6, FreshIs
    <2>10. \A j \in Candidates : grids[j] \in GridState
      BY <1>1
    <2>11. win \in Candidates \cup {0}
      BY <1>1
    <2> HIDE DEF gs, bad, s
    <2>12. CASE Corrupt(n, count)
      <3>1. bad /\ StagedPos(NSeg) # Fcs
        BY <2>7, <2>12 DEF Corrupt, Bad, bad
      <3>2. ASSUME NEW j \in Candidates
            PROVE  Standing(gs[j], j, Walking[j], StagedPos(n), bad) /\ ~gs[j].alive
        <4>1. gs[j] = [grids[j] EXCEPT !.alive = FALSE]
          BY <2>9, <2>12
        <4>2. Standing(grids[j], j, Walking[j], StagedPos(contig), Bad(stageFailed))
          BY <1>2
        <4> HIDE DEF n
        <4> QED
          BY <1>1, <2>8, <2>10, <3>1, <4>1, <4>2, KillKeeps
      <3>3. win = 0
        BY <2>12
      <3>4. GridsOK(gs, Walking, StagedPos(n), bad, win, allDead)
        BY <3>2, <3>3 DEF GridsOK
      <3>5. /\ GridsOK(Settle(gs, win).grids, Walking, StagedPos(n), bad, Settle(gs, win).winner,
                       Settle(gs, win).allDead)
            /\ \A j \in Candidates : Settle(gs, win).grids[j].alive => gs[j].alive
            /\ Settle(gs, win).winner # 0 => Settle(gs, win).winner = win \/ gs[Settle(gs, win).winner].alive
        <4> HIDE DEF n, win
        <4> QED
          BY <1>1, <2>8, <2>9, <2>11, <3>4, SettledGrids
      <3>6. Settle(gs, win).winner \in Candidates \cup {0}
        BY <1>1, <2>9, <2>11, SettleIs
      <3>7. winner' = 0 /\ \A j \in Candidates : ~grids'[j].alive
        BY <2>2, <3>2, <3>3, <3>5, <3>6 DEF SetGrids
      <3>8. GridsOK(grids', Walking, StagedPos(n), bad, winner', allDead')
        BY <2>2, <3>5 DEF SetGrids
      <3>9. GridsOK(grids', Walking, StagedPos(n), Bad(stageFailed'), winner', allDead')
        BY <2>5, <3>8 DEF GridsOK, Standing
      <3> QED
        BY <3>7, <3>9
    <2>13. CASE ~Corrupt(n, count)
      <3> DEFINE full == count = NSeg
      <3>1. full \in BOOLEAN /\ (full => n = NSeg)
        BY <2>7
      <3> HIDE DEF full, n
      <3>2. ASSUME NEW j \in Candidates
            PROVE  /\ Standing(gs[j], j, Walking[j], StagedPos(n), bad)
                   /\ gs[j].alive => grids[j].alive
                   /\ Won(grids[j], j, StagedPos(contig)) => Won(gs[j], j, StagedPos(n))
        <4>1. gs[j] = Refresh(grids[j], j, n, full)
          BY <2>9, <2>13 DEF full
        <4>2. Standing(grids[j], j, Walking[j], StagedPos(contig), bad)
          BY <1>2 DEF bad
        <4>3. /\ Standing(Refresh(grids[j], j, n, full), j, Walking[j], StagedPos(n), bad)
              /\ Refresh(grids[j], j, n, full).alive => grids[j].alive
              /\ Won(grids[j], j, StagedPos(contig)) => Won(Refresh(grids[j], j, n, full), j, StagedPos(n))
          BY <1>1, <2>1, <2>10, <3>1, <4>2, RefreshKeeps
        <4> QED
          BY <4>1, <4>3
      <3>3. win = winner
        BY <2>13
      <3>4. GridsOK(gs, Walking, StagedPos(n), bad, win, allDead)
        <4>1. winner # 0 => Won(gs[winner], winner, StagedPos(n))
                            /\ \A j \in Candidates : j < winner => ~gs[j].alive
          BY <1>1, <1>2, <3>2
        <4>2. allDead => \A j \in Candidates : ~gs[j].alive
          BY <1>2, <3>2
        <4> QED
          BY <3>2, <3>3, <4>1, <4>2 DEF GridsOK
      <3>5. /\ GridsOK(Settle(gs, win).grids, Walking, StagedPos(n), bad, Settle(gs, win).winner,
                       Settle(gs, win).allDead)
            /\ \A j \in Candidates : Settle(gs, win).grids[j].alive => gs[j].alive
        <4> HIDE DEF win
        <4> QED
          BY <1>1, <2>8, <2>9, <2>11, <3>4, SettledGrids
      <3>6. GridsOK(grids', Walking, StagedPos(n), bad, winner', allDead')
        BY <2>2, <3>5 DEF SetGrids
      <3>7. GridsOK(grids', Walking, StagedPos(n), Bad(stageFailed'), winner', allDead')
        BY <2>5, <3>6 DEF GridsOK, Standing
      <3>8. \A j \in Candidates : grids'[j].alive => grids[j].alive
        BY <2>2, <3>2, <3>5 DEF SetGrids
      <3>9. ~(count = NSeg /\ StagedPos(NSeg) # Fcs)
        BY <2>7, <2>13 DEF Corrupt, n
      <3> QED
        BY <3>7, <3>8, <3>9 DEF n
    <2> QED
      BY <2>12, <2>13
  <1>6. CASE ~Advances(t)
    <2>1. contig' = contig /\ winner' = winner /\ allDead' = allDead
          /\ grids' = (IF staging[s] = "err" THEN Kill(grids) ELSE grids)
          /\ stageFailed' = (stageFailed \/ staging[s] = "err")
      BY <1>6, StageEffects
    <2>2. ~(stagedCount' = NSeg /\ ~aborting' /\ ~stageFailed')
      <3> SUFFICES ASSUME stagedCount' = NSeg, ~aborting', ~stageFailed' PROVE FALSE
        OBVIOUS
      <3>1. contig = NSeg
        BY <2>1, WholeThen
      <3> QED
        BY <1>3, <3>1 DEF Seg
    <2>3. CASE staging[s] # "err"
      <3>1. grids' = grids /\ (stageFailed' <=> stageFailed)
        BY <2>1, <2>3
      <3>2. GridsOK(grids, Walking, StagedPos(contig), Bad(stageFailed'), winner, allDead)
        BY <1>1, <3>1 DEF GridsOK, Standing, Bad
      <3> QED
        BY <2>1, <2>2, <3>1, <3>2
    <2>4. CASE staging[s] = "err"
      <3>1. stageFailed' /\ Bad(stageFailed') /\ grids' = Kill(grids)
        BY <2>1, <2>4 DEF Bad
      <3>2. \A j \in Candidates : grids'[j] = [grids[j] EXCEPT !.alive = FALSE]
        <4>1. 0 \in 0 .. NSeg /\ 0 \in Nat
          BY <1>1
        <4> QED
          BY <3>1, <4>1, FreshIs
      <3> DEFINE bad == Bad(stageFailed')
                 hs == grids'
                 pos == StagedPos(contig)
      <3>3. bad /\ pos \in Nat /\ pos <= pos /\ \A j \in Candidates : hs[j] = [grids[j] EXCEPT !.alive = FALSE]
        <4>1. bad
          BY <3>1
        <4>2. pos \in Nat
          BY <1>1
        <4> HIDE DEF bad, pos
        <4>3. pos <= pos
          BY <4>2
        <4> QED
          BY <3>2, <4>1, <4>2, <4>3
      <3>7. \A j \in Candidates : Standing(grids[j], j, Walking[j], pos, Bad(stageFailed))
        BY <1>2
      <3>8. \A j \in Candidates : grids[j] \in GridState
        BY <1>1
      <3> HIDE DEF bad, hs, pos
      <3>4. ASSUME NEW j \in Candidates
            PROVE  Standing(hs[j], j, Walking[j], pos, bad) /\ ~hs[j].alive
                   /\ (Won(grids[j], j, pos) => Won(hs[j], j, pos))
        BY <1>1, <3>3, <3>7, <3>8, KillKeeps
      <3>5. winner # 0 => Won(hs[winner], winner, pos) /\ \A j \in Candidates : j < winner => ~hs[j].alive
        BY <1>1, <1>2, <3>4 DEF pos
      <3>6. GridsOK(hs, Walking, pos, bad, winner, allDead)
        BY <3>4, <3>5 DEF GridsOK
      <3> QED
        BY <2>1, <2>2, <3>4, <3>6 DEF hs, pos, bad
    <2> QED
      BY <2>3, <2>4
  <1> QED
    BY <1>5, <1>6

LEMMA GridsStep ==
    ASSUME PiecesInv, FrameFacts, Next
    PROVE  (\A j \in Candidates : GridInv(j)') /\ WinnerInv'
  <1> DEFINE B == [j \in Candidates |-> Busy("validate", j)']
             Goal == /\ GridsOK(grids', B, StagedPos(contig'), Bad(stageFailed'), winner', allDead')
                     /\ stagedCount' = NSeg /\ ~aborting' /\ ~stageFailed' /\ StagedPos(NSeg) # Fcs =>
                            winner' = 0 /\ \A j \in Candidates : ~grids'[j].alive
  <1>1. /\ GridsOK(grids, Walking, StagedPos(contig), Bad(stageFailed), winner, allDead)
        /\ Spoilt => winner = 0 /\ \A j \in Candidates : ~grids[j].alive
        /\ winner \in Candidates \cup {0}
    BY GridsAre
  <1>2. ASSUME \A t \in Thread : ~ClaimValidate(t) /\ ~ValidateDone(t) PROVE B = Walking
    <2>1. ASSUME NEW j \in Candidates PROVE Busy("validate", j)' = Busy("validate", j)
      BY <1>2, ValidateStands
    <2> QED
      BY <2>1 DEF Walking
  <1>3. ASSUME \A t \in Thread : ~StageDone(t)
        PROVE  /\ contig' = contig /\ stageFailed' = stageFailed /\ stagedCount' = stagedCount
               /\ ~aborting' => ~aborting
    <2>1. ASSUME NEW t \in Thread, ClaimStage(t)
          PROVE  contig' = contig /\ stageFailed' = stageFailed /\ stagedCount' = stagedCount
      BY <2>1 DEF ClaimStage, gridVars
    <2>2. ~aborting' => ~aborting
      BY FaultsStay
    <2> QED
      BY <1>3, <2>1, <2>2, StagingStands
  <1>4. ASSUME NEW t \in Thread, StageDone(t) PROVE Goal
    <2>1. \A u \in Thread : ~ClaimValidate(u) /\ ~ValidateDone(u)
      <3>1. ASSUME NEW u \in Thread, pc'[u] = "validate" PROVE pc[u] = "validate"
        <4>1. pc' = [pc EXCEPT ![t] = AfterJob(t)] /\ pc \in [Thread -> Label] /\ AfterJob(t) # "validate"
          BY <1>4, StageEffects DEF PiecesInv, TypeOK, AfterJob
        <4> QED
          BY <3>1, <4>1
      <3>2. ASSUME NEW u \in Thread, ClaimValidate(u) PROVE FALSE
        <4>1. stagedCount' = stagedCount /\ stagedCount' = stagedCount + 1 /\ stagedCount \in Nat
          BY <1>4, <3>2, StageEffects DEF ClaimValidate, stageVars, PiecesInv, TypeOK
        <4> QED
          BY <4>1
      <3>3. ASSUME NEW u \in Thread, ValidateDone(u) PROVE FALSE
        <4>1. stagedCount' = stagedCount /\ stagedCount' = stagedCount + 1 /\ stagedCount \in Nat
          BY <1>4, <3>3, StageEffects DEF ValidateDone, stageVars, PiecesInv, TypeOK
        <4> QED
          BY <4>1
      <3> QED
        BY <3>2, <3>3
    <2>2. B = Walking
      BY <1>2, <2>1
    <2> HIDE DEF B
    <2> QED
      BY <1>4, <2>2, StageKeeps
  <1>5. ASSUME \A t \in Thread : ~StageDone(t), NEW t \in Thread, ValidateDone(t) PROVE Goal
    <2>1. /\ GridsOK(grids', B, StagedPos(contig), Bad(stageFailed), winner', allDead')
          /\ \A j \in Candidates : grids'[j].alive => grids[j].alive
          /\ winner' # 0 => winner' = winner \/ grids[winner'].alive
      BY <1>5, WalkKeeps
    <2>2. contig' = contig /\ stageFailed' = stageFailed /\ stagedCount' = stagedCount
          /\ (~aborting' => ~aborting)
      BY <1>3, <1>5
    <2>3. winner' \in Candidates \cup {0}
      BY GridsTyped
    <2> HIDE DEF B
    <2>4. GridsOK(grids', B, StagedPos(contig'), Bad(stageFailed'), winner', allDead')
      BY <2>1, <2>2
    <2>5. ASSUME stagedCount' = NSeg, ~aborting', ~stageFailed', StagedPos(NSeg) # Fcs
          PROVE  winner' = 0 /\ \A j \in Candidates : ~grids'[j].alive
      <3>1. Spoilt
        BY <2>2, <2>5 DEF Spoilt
      <3> QED
        BY <1>1, <2>1, <2>3, <3>1
    <2> QED
      BY <2>4, <2>5
  <1>6. ASSUME \A t \in Thread : ~StageDone(t), NEW t \in Thread, ClaimValidate(t) PROVE Goal
    <2>1. /\ GridsOK(grids', B, StagedPos(contig), Bad(stageFailed), winner, allDead)
          /\ winner' = winner /\ allDead' = allDead /\ winner = 0
          /\ \A j \in Candidates : grids'[j].alive => grids[j].alive
      BY <1>6, ClaimKeeps
    <2>2. contig' = contig /\ stageFailed' = stageFailed /\ stagedCount' = stagedCount
          /\ (~aborting' => ~aborting)
      BY <1>3, <1>6
    <2> HIDE DEF B
    <2>4. GridsOK(grids', B, StagedPos(contig'), Bad(stageFailed'), winner', allDead')
      BY <2>1, <2>2
    <2>5. ASSUME stagedCount' = NSeg, ~aborting', ~stageFailed', StagedPos(NSeg) # Fcs
          PROVE  winner' = 0 /\ \A j \in Candidates : ~grids'[j].alive
      <3>1. Spoilt
        BY <2>2, <2>5 DEF Spoilt
      <3> QED
        BY <1>1, <2>1, <3>1
    <2> QED
      BY <2>4, <2>5
  <1>7. ASSUME \A t \in Thread : ~StageDone(t) /\ ~ValidateDone(t) /\ ~ClaimValidate(t) PROVE Goal
    <2>1. grids' = grids /\ winner' = winner /\ allDead' = allDead
      BY <1>7, GridsStand DEF gridVars
    <2>2. /\ contig' = contig /\ stageFailed' = stageFailed /\ stagedCount' = stagedCount
          /\ ~aborting' => ~aborting
      BY <1>3, <1>7
    <2>3. B = Walking
      BY <1>2, <1>7
    <2> HIDE DEF B
    <2>4. GridsOK(grids', B, StagedPos(contig'), Bad(stageFailed'), winner', allDead')
      BY <1>1, <2>1, <2>2, <2>3
    <2>5. ASSUME stagedCount' = NSeg, ~aborting', ~stageFailed', StagedPos(NSeg) # Fcs
          PROVE  winner' = 0 /\ \A j \in Candidates : ~grids'[j].alive
      <3>1. Spoilt
        BY <2>2, <2>5 DEF Spoilt
      <3> QED
        BY <1>1, <2>1, <3>1
    <2> QED
      BY <2>4, <2>5
  <1> HIDE DEF Goal
  <1>8. Goal
    BY <1>4, <1>5, <1>6, <1>7
  <1>9. frame' = frame /\ Candidates' = Candidates /\ NSeg' = NSeg /\ Fcs' = Fcs
        /\ StagedPos(NSeg)' = StagedPos(NSeg) /\ StagedPos(contig)' = StagedPos(contig')
    <2>1. frame' = frame /\ Candidates' = Candidates /\ NSeg' = NSeg /\ Fcs' = Fcs
      BY InputsFixed, FactsStay
    <2> QED
      BY <2>1 DEF StagedPos
  <1>10. ASSUME NEW j \in Candidates PROVE GridInv(j)'
    <2>1. Standing(grids'[j], j, Busy("validate", j)', StagedPos(contig'), Bad(stageFailed'))
      BY <1>8 DEF Goal, GridsOK
    <2>2. Standing(grids'[j], j, Busy("validate", j)', StagedPos(contig'), stageFailed' \/ StagedPos(NSeg) # Fcs)
      BY <2>1 DEF Bad
    <2> QED
      BY <1>9, <2>2, StandingIs
  <1>11. winner' \in Candidates \cup {0}
    BY GridsTyped
  <1>12. ASSUME NEW w \in Candidates, w = winner'
         PROVE  /\ FullyWalked(grids[winner], winner)'
                /\ \A k \in 0 .. NPieces(winner)' - 1 : Recorded(winner, k)'
                /\ Usable(winner)'
                /\ StagedPos(contig)' >= Fcs'
                /\ \A j \in Candidates : j < winner' => ~grids'[j].alive
    <2>1. w # 0
      BY DEF FrameFacts
    <2>2. Won(grids'[w], w, StagedPos(contig')) /\ \A j \in Candidates : j < w => ~grids'[j].alive
      BY <1>8, <1>12, <2>1 DEF Goal, GridsOK
    <2>3. /\ FullyWalked(grids[w], w)'
          /\ \A k \in 0 .. NPieces(w) - 1 : Recorded(w, k)'
          /\ Usable(w) /\ StagedPos(contig') >= Fcs
      BY <1>9, <2>2, StandingIs
    <2>4. NPieces(w)' = NPieces(w) /\ Usable(w)' = Usable(w)
      BY <1>9, FactsStay
    <2>5. FullyWalked(grids[winner], winner)' /\ Usable(winner)' /\ NPieces(winner)' = NPieces(w)
      BY <1>9, <1>12, <2>3, <2>4 DEF FullyWalked, NPieces, Usable, OnBlock, ValidatePiece, LagDeep, Start
    <2>6. \A k \in 0 .. NPieces(w) - 1 : Recorded(winner, k)'
      BY <1>12, <2>3 DEF Recorded, ValidatePiece
    <2> QED
      BY <1>9, <1>12, <2>2, <2>3, <2>5, <2>6
  <1>13. winner' # 0 =>
            /\ FullyWalked(grids[winner], winner)'
            /\ \A k \in 0 .. NPieces(winner)' - 1 : Recorded(winner, k)'
            /\ Usable(winner)'
            /\ StagedPos(contig)' >= Fcs'
            /\ \A j \in Candidates : j < winner' => ~grids'[j].alive
    BY <1>11, <1>12
  <1>14. allDead' => \A j \in Candidates : ~grids'[j].alive
    BY <1>8 DEF Goal, GridsOK
  <1>15. stagedCount' = NSeg /\ ~aborting' /\ ~stageFailed' /\ StagedPos(NSeg) # Fcs =>
            winner' = 0 /\ \A j \in Candidates : ~grids'[j].alive
    BY <1>8 DEF Goal
  <1>16. WinnerInv'
    BY <1>9, <1>13, <1>14, <1>15 DEF WinnerInv
  <1> QED
    BY <1>10, <1>16

-----------------------------------------------------------------------------
(* The verdict.                                                             *)

LEMMA RoundIs ==
    ASSUME PiecesInv, FrameFacts, stagedCount = NSeg, ~aborting, ~stageFailed, winner # 0 \/ allDead
    PROVE  winner = RoundWinner
  <1> DEFINE good == {j \in Candidates : Usable(j)}
  <1>1. RoundWinner = IF StagedPos(NSeg) # Fcs \/ good = {} THEN 0
                      ELSE CHOOSE j \in good : \A i \in good : j <= i
    BY DEF RoundWinner, Usable, OnBlock
  <1>2. winner \in Candidates \cup {0} /\ Candidates \subseteq Nat \ {0}
    BY DEF PiecesInv, TypeOK, FrameFacts
  <1>3. CASE StagedPos(NSeg) # Fcs
    BY <1>1, <1>3 DEF PiecesInv, WinnerInv
  <1>4. CASE StagedPos(NSeg) = Fcs
    <2>1. \A j \in Candidates : ~grids[j].alive => ~Usable(j)
      BY <1>4 DEF PiecesInv, GridInv
    <2>2. CASE winner # 0
      <3>1. winner \in good /\ \A j \in Candidates : j < winner => ~Usable(j)
        BY <1>2, <2>1, <2>2 DEF PiecesInv, WinnerInv
      <3>2. good \subseteq Nat
        BY <1>2
      <3> HIDE DEF good
      <3>3. \A j \in good : winner <= j
        BY <1>2, <2>2, <3>1, <3>2 DEF good
      <3>4. \A j \in good : (\A i \in good : j <= i) => j = winner
        <4> SUFFICES ASSUME NEW j \in good, \A i \in good : j <= i PROVE j = winner
          OBVIOUS
        <4>1. j \in Nat /\ winner \in Nat /\ j <= winner /\ winner <= j
          BY <3>1, <3>2, <3>3
        <4> QED
          BY <4>1
      <3>5. winner = CHOOSE j \in good : \A i \in good : j <= i
        BY <3>1, <3>3, <3>4
      <3> QED
        BY <1>1, <1>4, <3>1, <3>5
    <2>3. CASE winner = 0
      <3>1. good = {}
        BY <2>1, <2>3 DEF PiecesInv, WinnerInv
      <3> QED
        BY <1>1, <2>3, <3>1
    <2> QED
      BY <2>2, <2>3
  <1> QED
    BY <1>3, <1>4

LEMMA SettleDead ==
    ASSUME FrameFacts, NEW gs \in [Candidates -> GridState], \A j \in Candidates : ~gs[j].alive
    PROVE  Settle(gs, 0).allDead
  <1>1. DOMAIN gs = Candidates
    OBVIOUS
  <1> DEFINE Living == {j \in Candidates : gs[j].alive}
             Reached == {j \in Living : \A i \in Living : i <= j => FullyWalked(gs[i], i)}
             Steep == {j \in Reached : \A k \in 1 .. gs[j].cut - 1 : LagDeep(j, k, gs[j].tops[k])}
             Shallow == {j \in Reached \ Steep : \A i \in Steep : j < i}
  <1>2. Living = {} /\ Steep = {} /\ Shallow = {}
    OBVIOUS
  <1>3. Settle(gs, 0).allDead = IF Steep # {} THEN allDead ELSE Living = Shallow
    BY <1>1 DEF Settle
  <1> HIDE DEF Living, Reached, Steep, Shallow
  <1> QED
    BY <1>2, <1>3

(* Once it has fallen, the verdict stands.                                  *)
LEMMA WinnerStays ==
    ASSUME PiecesInv, FrameFacts, Next, \A t \in Thread : ~StageDone(t)
    PROVE  /\ winner # 0 => winner' = winner
           /\ allDead => allDead'
           /\ winner = 0 /\ allDead => winner' = 0
  <1> DEFINE Goal == /\ winner # 0 => winner' = winner
                     /\ allDead => allDead'
                     /\ winner = 0 /\ allDead => winner' = 0
  <1>1. /\ GridsOK(grids, Walking, StagedPos(contig), Bad(stageFailed), winner, allDead)
        /\ grids \in [Candidates -> GridState] /\ winner \in Candidates \cup {0} /\ allDead \in BOOLEAN
    BY GridsAre
  <1>2. allDead => \A j \in Candidates : ~grids[j].alive
    BY <1>1 DEF GridsOK
  <1>3. ASSUME NEW t \in Thread, ValidateDone(t) PROVE Goal
    <2>1. job[t].grid \in Candidates /\ job[t].id \in 0 .. grids[job[t].grid].cut - 1
      BY <1>3, ValidateIn DEF ValidateDone
    <2>2. PICK gs \in [Candidates -> GridState] :
            /\ SetGrids(Settle(gs, winner))
            /\ \A j \in Candidates : j # job[t].grid => gs[j] = grids[j]
            /\ gs[job[t].grid].alive = (grids[job[t].grid].alive /\ ValidatePiece(job[t].grid, job[t].id).ok)
      BY <1>3, <2>1, ValidateEffects
    <2>3. winner' = Settle(gs, winner).winner /\ allDead' = Settle(gs, winner).allDead
      BY <2>2 DEF SetGrids
    <2>4. ASSUME allDead, NEW j \in Candidates PROVE ~gs[j].alive
      <3>1. ~grids[job[t].grid].alive /\ ~grids[j].alive
        BY <1>2, <2>1, <2>4
      <3>2. ~gs[job[t].grid].alive
        BY <2>2, <3>1, Zenon
      <3> QED
        BY <2>2, <3>1, <3>2
    <2>5. CASE winner # 0
      <3>1. Settle(gs, winner) = [grids |-> gs, winner |-> winner, allDead |-> allDead]
        BY <1>1, <2>5, SettleIs
      <3> QED
        BY <2>3, <2>5, <3>1
    <2>6. CASE winner = 0
      <3>1. ASSUME allDead PROVE allDead' /\ winner' = 0
        <4>1. Settle(gs, 0).allDead
          BY <2>4, <3>1, SettleDead
        <4>2. Settle(gs, 0).winner \in Candidates \cup {0}
              /\ (Settle(gs, 0).winner # 0 => gs[Settle(gs, 0).winner].alive)
          <5>1. 0 \in Candidates \cup {0}
            OBVIOUS
          <5> QED
            BY <1>1, <5>1, SettleIs
        <4>3. Settle(gs, 0).winner = 0
          BY <2>4, <3>1, <4>2
        <4> QED
          BY <2>3, <2>6, <4>1, <4>3
      <3> QED
        BY <2>6, <3>1
    <2> QED
      BY <2>5, <2>6
  <1>4. ASSUME NEW t \in Thread, ClaimValidate(t) PROVE Goal
    <2>1. winner' = winner /\ allDead' = allDead
      BY <1>4 DEF ClaimValidate
    <2> QED
      BY <1>1, <2>1
  <1>5. ASSUME UNCHANGED gridVars PROVE Goal
    <2>1. winner' = winner /\ allDead' = allDead
      BY <1>5 DEF gridVars
    <2> QED
      BY <1>1, <2>1
  <1> HIDE DEF Goal
  <1>6. Goal
    BY <1>3, <1>4, <1>5, GridsStand
  <1> QED
    BY <1>6 DEF Goal


-----------------------------------------------------------------------------
(* What a step of a thread, and one of the calling thread, leave alone.     *)

LEMMA ThreadKeeps ==
    ASSUME PiecesInv, NEW t \in Thread, ThreadStep(t)
    PROVE  /\ phase' = phase /\ pieces' = pieces /\ res' = res
           /\ pc[t] \in {"claim", "top", "stage", "validate", "gate", "exec"}
           /\ \A u \in Thread : u # t => pc'[u] = pc[u] /\ job'[u] = job[u]
           /\ ~ExecDone(t) =>
                done' = done /\ watermarkPiece' = watermarkPiece /\ absorbNext' = absorbNext /\ execErr' = execErr
           /\ ~ClaimExec(t) => nextPiece' = nextPiece
           /\ ~StageDone(t) /\ ~ExecDone(t) => aborting' = aborting /\ poison' = poison
  <1>1. pc \in [Thread -> Label] /\ job \in [Thread -> JobType]
    BY DEF PiecesInv, TypeOK, JobType
  <1>2. phase' = phase /\ pieces' = pieces /\ res' = res
    BY DEF ThreadStep, QuickStep, Quit, ClaimStage, ClaimValidate, ClaimExec, ClaimWait, PassGate,
           GateWait, ExecDone, ValidateDone, StageDone, execVars
  <1>3. pc[t] \in {"claim", "top", "stage", "validate", "gate", "exec"}
    BY DEF ThreadStep, QuickStep, Quit, ClaimStage, ClaimValidate, ClaimExec, ClaimWait, PassGate,
           GateWait, ExecDone, ValidateDone, StageDone, Claiming
  <1>4. (\E l : pc' = [pc EXCEPT ![t] = l]) \/ pc' = pc
    BY DEF ThreadStep, QuickStep, Quit, ClaimStage, ClaimValidate, ClaimExec, ClaimWait, PassGate,
           GateWait, ExecDone, ValidateDone, StageDone, Goto, GotoJob
  <1>5. (\E b : job' = [job EXCEPT ![t] = b]) \/ job' = job
    BY DEF ThreadStep, QuickStep, Quit, ClaimStage, ClaimValidate, ClaimExec, ClaimWait, PassGate,
           GateWait, ExecDone, ValidateDone, StageDone, Goto, GotoJob
  <1>6. \A u \in Thread : u # t => pc'[u] = pc[u] /\ job'[u] = job[u]
    BY <1>1, <1>4, <1>5
  <1>7. ~ExecDone(t) =>
            done' = done /\ watermarkPiece' = watermarkPiece /\ absorbNext' = absorbNext /\ execErr' = execErr
    BY DEF ThreadStep, QuickStep, Quit, ClaimStage, ClaimValidate, ClaimExec, ClaimWait, PassGate,
           GateWait, ValidateDone, StageDone, execVars
  <1>8. ~ClaimExec(t) => nextPiece' = nextPiece
    BY DEF ThreadStep, QuickStep, Quit, ClaimStage, ClaimValidate, ClaimWait, PassGate,
           GateWait, ExecDone, ValidateDone, StageDone, execVars
  <1>9. ~StageDone(t) /\ ~ExecDone(t) => aborting' = aborting /\ poison' = poison
    BY DEF ThreadStep, QuickStep, Quit, ClaimStage, ClaimValidate, ClaimExec, ClaimWait, PassGate,
           GateWait, ValidateDone
  <1> QED
    BY <1>2, <1>3, <1>6, <1>7, <1>8, <1>9

LEMMA CallerKeeps ==
    ASSUME PiecesInv, CallerStep
    PROVE  /\ UNCHANGED <<slots, stagedCount, nextStage, stageErrors, contig>>
           /\ UNCHANGED <<grids, winner, allDead, stageFailed>>
           /\ job' = job /\ poison' = poison
           /\ \A t \in Thread : t # Caller => pc'[t] = pc[t]
           /\ pc[Caller] # "returned"
  <1>1. pc \in [Thread -> Label]
    BY DEF PiecesInv, TypeOK
  <1>2. /\ UNCHANGED <<slots, stagedCount, nextStage, stageErrors, contig>>
        /\ UNCHANGED <<grids, winner, allDead, stageFailed>>
        /\ job' = job /\ poison' = poison /\ pc[Caller] # "returned"
    BY DEF CallerStep, Park, Ready, TakeStageError, Serial, Place, Install, AwaitPieces, Verdict,
           Return, stageVars, gridVars, At
  <1>3. pc' = pc \/ \E l : pc' = [pc EXCEPT ![Caller] = l]
    BY DEF CallerStep, Park, Ready, TakeStageError, Serial, Place, Install, AwaitPieces, Verdict,
           Return, GotoC, Goto, AbortWith
  <1> QED
    BY <1>1, <1>2, <1>3

LEMMA InputsStay ==
    ASSUME FrameFacts, Next
    PROVE  /\ Panics' = Panics /\ StagedOk' = StagedOk /\ SerialResult' = SerialResult
           /\ placeOk' = placeOk /\ frame' = frame /\ Seg' = Seg /\ NSeg' = NSeg /\ staging' = staging
           /\ RoundWinner' = RoundWinner /\ FrameFacts'
  <1>1. frame' = frame /\ staging' = staging /\ placeOk' = placeOk /\ sumOk' = sumOk
    BY InputsFixed
  <1>2. Seg' = Seg /\ NSeg' = NSeg /\ RoundWinner' = RoundWinner /\ FrameFacts'
    BY <1>1, FactsStay
  <1>3. Panics' = Panics /\ StagedOk' = StagedOk
    BY <1>1, <1>2 DEF Panics, StagedOk
  <1>4. SerialResult' = SerialResult
    BY <1>1 DEF SerialResult, StagedPos, NSeg, Fcs
  <1> QED
    BY <1>1, <1>2, <1>3, <1>4

(* What the threads that execute pieces are up to.                          *)
LEMMA ExecIn ==
    ASSUME PiecesInv, FrameFacts, phase = "execute"
    PROVE  /\ pieces = winner /\ pieces \in Candidates /\ NPieces(pieces) \in Nat
           /\ nextPiece \in Nat /\ nextPiece <= NPieces(pieces)
           /\ \A t \in Thread : pc[t] \in {"gate", "exec"} =>
                job[t].grid = pieces /\ job[t].id \in 0 .. nextPiece - 1 /\ job[t].id \notin done
           /\ watermarkPiece \in Nat /\ watermarkPiece <= NPieces(pieces)
           /\ done \subseteq 0 .. nextPiece - 1
  <1>1. pieces = winner /\ winner # 0
    BY DEF PiecesInv, VerdictInv, ExecInv
  <1>2. pieces \in Candidates /\ pieces \in Nat \ {0} /\ Fcs \in Nat \ {0}
    BY <1>1 DEF PiecesInv, TypeOK, FrameFacts
  <1>3. NPieces(pieces) \in Nat
    BY <1>2, GridFacts
  <1>4. /\ nextPiece \in Nat /\ nextPiece <= NPieces(pieces) /\ watermarkPiece \in Nat
        /\ done \subseteq 0 .. nextPiece - 1 /\ 0 .. watermarkPiece - 1 \subseteq done
    BY DEF PiecesInv, TypeOK, ExecInv
  <1>5. watermarkPiece <= NPieces(pieces)
    <2> DEFINE n == NPieces(pieces)
    <2> HIDE DEF n
    <2> SUFFICES ASSUME watermarkPiece > n PROVE FALSE
      BY <1>3, <1>4 DEF n
    <2>1. n \in 0 .. watermarkPiece - 1 /\ n \in Nat
      BY <1>3, <1>4 DEF n
    <2>2. n \in 0 .. nextPiece - 1 /\ nextPiece <= n
      BY <1>4, <2>1 DEF n
    <2> QED
      BY <1>4, <2>1, <2>2
  <1>6. ASSUME NEW t \in Thread, pc[t] \in {"gate", "exec"}
        PROVE  job[t].grid = pieces /\ job[t].id \in 0 .. nextPiece - 1 /\ job[t].id \notin done
    <2>1. job[t].id \in Nat
      BY DEF PiecesInv, TypeOK
    <2>2. job[t].grid = pieces /\ job[t].id < nextPiece /\ job[t].id \notin done
      BY <1>6 DEF PiecesInv, ExecInv
    <2> QED
      BY <1>4, <2>1, <2>2
  <1> QED
    BY <1>1, <1>2, <1>3, <1>4, <1>5, <1>6

(* Every fault has its cause.                                               *)
LEMMA FaultStep ==
    ASSUME PiecesInv, FrameFacts, Next
    PROVE  FaultInv'
  <1> DEFINE Err == \E i \in DOMAIN frame.table : frame.table[i].exec = "err"
             Ended == pc[Caller] \in {"join", "returned"}
             Goal == /\ poison' => Panics
                     /\ execErr' => phase' = "execute" /\ Err
                     /\ aborting' => poison' \/ execErr' \/ Ended'
  <1>1. Panics' = Panics /\ frame' = frame
    BY InputsStay
  <1>2. /\ poison => Panics
        /\ execErr => phase = "execute" /\ Err
        /\ aborting => poison \/ execErr \/ Ended
    BY DEF PiecesInv, FaultInv
  <1>3. pc \in [Thread -> Label] /\ Caller \in Thread
    BY DEF PiecesInv, TypeOK, Thread
  <1> HIDE DEF Err
  <1>4. ASSUME NEW t \in Thread, ThreadStep(t) PROVE Goal
    <2>1. phase' = phase /\ (Ended => Ended')
      BY <1>3, <1>4, ThreadKeeps
    <2>2. CASE StageDone(t)
      <3>1. /\ aborting' = (aborting \/ staging[job[t].id] = "panic")
            /\ poison' = (poison \/ staging[job[t].id] = "panic")
            /\ execErr' = execErr /\ pc[t] = "stage"
        BY <2>2, StageEffects DEF execVars
      <3>2. staging[job[t].id] = "panic" => Panics
        BY <3>1, StageIn DEF Panics
      <3> QED
        BY <1>2, <2>1, <3>1, <3>2, Zenon
    <2>3. CASE ExecDone(t)
      <3> DEFINE out == frame.piece[pieces][job[t].id].exec
      <3>1. pc[t] = "exec" /\ phase = "execute"
        BY <2>3 DEF ExecDone, PiecesInv, ExecInv
      <3>2. pieces \in Candidates /\ job[t].id \in 0 .. NPieces(pieces) - 1
        <4>1. /\ pieces \in Candidates /\ NPieces(pieces) \in Nat /\ nextPiece \in Nat
              /\ nextPiece <= NPieces(pieces) /\ job[t].id \in 0 .. nextPiece - 1
          BY <3>1, ExecIn
        <4> QED
          BY <4>1
      <3>3. out \in {"ok", "err", "panic"} /\ (out # "ok" => \E i \in DOMAIN frame.table : frame.table[i].exec = out)
        BY <3>2 DEF FrameFacts
      <3>4. (out = "err" => Err) /\ (out = "panic" => Panics)
        BY <3>3 DEF Err, Panics
      <3>5. IF out = "ok" THEN aborting' = aborting /\ poison' = poison /\ execErr' = execErr
            ELSE /\ aborting' = TRUE
                 /\ poison' = (poison \/ out = "panic")
                 /\ execErr' = (execErr \/ out = "err")
        BY <2>3 DEF ExecDone
      <3> HIDE DEF out
      <3>6. CASE out = "ok"
        BY <1>2, <2>1, <3>5, <3>6
      <3>7. CASE out = "err"
        <4>1. poison' = poison /\ execErr'
          <5>1. poison' = (poison \/ FALSE)
            BY <3>5, <3>7
          <5>2. execErr' = (execErr \/ TRUE)
            BY <3>5, <3>7
          <5>3. poison \in BOOLEAN
            BY DEF PiecesInv, TypeOK
          <5> QED
            BY <5>1, <5>2, <5>3
        <4> QED
          BY <1>2, <2>1, <3>1, <3>4, <3>7, <4>1
      <3>8. CASE out = "panic"
        <4>1. poison' /\ execErr' = execErr
          <5>1. poison' = (poison \/ TRUE)
            BY <3>5, <3>8
          <5>2. execErr' = (execErr \/ FALSE)
            BY <3>5, <3>8
          <5>3. execErr \in BOOLEAN
            BY DEF PiecesInv, TypeOK
          <5> QED
            BY <5>1, <5>2, <5>3
        <4> QED
          BY <1>2, <2>1, <3>1, <3>4, <3>8, <4>1
      <3> QED
        BY <3>3, <3>6, <3>7, <3>8
    <2>4. CASE ~StageDone(t) /\ ~ExecDone(t)
      <3>1. aborting' = aborting /\ poison' = poison /\ execErr' = execErr
        BY <1>4, <2>4, ThreadKeeps
      <3> QED
        BY <1>2, <2>1, <3>1
    <2> QED
      BY <2>2, <2>3, <2>4
  <1>5. ASSUME CallerStep PROVE Goal
    <2>1. poison' = poison
      BY <1>5, CallerKeeps
    <2>2. ASSUME NEW l, GotoC(l) PROVE pc'[Caller] = l
      BY <1>3, <2>2 DEF GotoC, Goto
    <2>3. CASE Park \/ AwaitPieces
      <3>1. UNCHANGED <<aborting, execErr, phase, pc>>
        BY <2>3 DEF Park, AwaitPieces, execVars
      <3> QED
        BY <1>2, <2>1, <3>1
    <2>4. CASE Ready
      <3>1. UNCHANGED <<aborting, execErr, phase>> /\ GotoC(IF aborting THEN "join" ELSE "stageError")
        BY <2>4 DEF Ready, execVars
      <3>2. aborting => Ended'
        BY <2>2, <3>1
      <3> QED
        BY <1>2, <2>1, <3>1, <3>2
    <2>5. CASE TakeStageError \/ Place
      <3>1. UNCHANGED <<execErr, phase>> /\ (GotoC("join") \/ aborting' = aborting) /\ ~Ended
        BY <2>5 DEF TakeStageError, Place, AbortWith, execVars, At
      <3>2. GotoC("join") => Ended'
        BY <2>2
      <3> QED
        BY <1>2, <2>1, <3>1, <3>2
    <2>6. CASE Serial
      <3>1. GotoC("join") /\ execErr' = execErr /\ phase = "staging"
        BY <2>6 DEF Serial, execVars, At, PiecesInv, VerdictInv
      <3> QED
        BY <1>2, <2>1, <2>2, <3>1
    <2>7. CASE Install
      <3>1. execErr' = execErr /\ aborting' = aborting /\ phase' = "execute" /\ ~Ended
        BY <2>7 DEF Install, At
      <3> QED
        BY <1>2, <2>1, <3>1
    <2>8. CASE Verdict
      <3>1. execErr' = FALSE /\ GotoC("join")
        BY <2>8 DEF Verdict
      <3> QED
        BY <1>2, <2>1, <2>2, <3>1
    <2>9. CASE Return
      <3>1. UNCHANGED <<aborting, execErr, phase>> /\ GotoC("returned")
        BY <2>9 DEF Return, execVars
      <3> QED
        BY <1>2, <2>1, <2>2, <3>1
    <2> QED
      BY <1>5, <2>3, <2>4, <2>5, <2>6, <2>7, <2>8, <2>9 DEF CallerStep
  <1>6. Goal
    <2> HIDE DEF Goal
    <2> QED
      BY <1>4, <1>5 DEF Next
  <1> QED
    BY <1>1, <1>6 DEF FaultInv, Err

(* With every segment staged, staging is over and the verdict stands.       *)
LEMMA Settles ==
    ASSUME PiecesInv, FrameFacts, Next, stagedCount = NSeg
    PROVE  /\ stagedCount' = NSeg' /\ stageFailed' = stageFailed /\ contig' = contig
           /\ \A t \in Thread : ~StageDone(t)
           /\ winner # 0 \/ allDead \/ stageFailed => winner' # 0 \/ allDead' \/ stageFailed'
           /\ winner # 0 \/ allDead => winner' = winner /\ (winner' # 0 \/ allDead')
  <1>1. nextStage = NSeg + 1 /\ (\A t \in Thread : pc[t] # "stage") /\ NSeg \in Nat /\ NSeg' = NSeg
    BY WholeNow, InputsStay DEF FrameFacts
  <1>2. \A t \in Thread : ~StageDone(t)
    BY <1>1 DEF StageDone
  <1>3. \A t \in Thread : ~ClaimStage(t)
    <2>1. ~(nextStage <= NSeg)
      BY <1>1
    <2> QED
      BY <2>1 DEF ClaimStage
  <1>4. stagedCount' = stagedCount /\ stageFailed' = stageFailed /\ contig' = contig
    BY <1>2, <1>3, StagingStands
  <1>5. /\ winner # 0 => winner' = winner
        /\ allDead => allDead'
        /\ winner = 0 /\ allDead => winner' = 0
    BY <1>2, WinnerStays
  <1>6. allDead \in BOOLEAN /\ stageFailed \in BOOLEAN
    BY DEF PiecesInv, TypeOK
  <1> QED
    BY <1>1, <1>2, <1>4, <1>5, <1>6

(* The verdict is taken once all is staged, and is the round form's.        *)
LEMMA VerdictStep ==
    ASSUME PiecesInv, FrameFacts, Next
    PROVE  VerdictInv'
  <1> DEFINE Fallen == winner # 0 \/ allDead \/ stageFailed
             Taken == stagedCount = NSeg /\ StagedOk /\ winner = RoundWinner /\ (winner # 0 \/ allDead)
             Goal == /\ pc'[Caller] \in {"top", "stage"} => phase' = "staging"
                     /\ pc'[Caller] \in {"stageError", "verdictTaken", "install"} =>
                        phase' = "staging" /\ stagedCount' = NSeg' /\ ~aborting' /\ Fallen'
                     /\ pc'[Caller] \in {"verdictTaken", "install"} \/ phase' # "staging" => Taken'
                     /\ pc'[Caller] = "install" \/ phase' = "execute" => winner' # 0 /\ placeOk
  <1>1. placeOk' = placeOk /\ StagedOk' = StagedOk /\ RoundWinner' = RoundWinner
    BY InputsStay
  <1>2. /\ pc[Caller] \in {"top", "stage"} => phase = "staging"
        /\ pc[Caller] \in {"stageError", "verdictTaken", "install"} =>
           phase = "staging" /\ stagedCount = NSeg /\ ~aborting /\ Fallen
        /\ pc[Caller] \in {"verdictTaken", "install"} \/ phase # "staging" => Taken
        /\ pc[Caller] = "install" \/ phase = "execute" => winner # 0 /\ placeOk
    BY DEF PiecesInv, VerdictInv
  <1>3. pc \in [Thread -> Label] /\ Caller \in Thread
    BY DEF PiecesInv, TypeOK, Thread
  <1>4. stagedCount = NSeg /\ Fallen => stagedCount' = NSeg' /\ Fallen' /\ \A t \in Thread : ~StageDone(t)
    BY Settles
  <1>5. Taken => Taken' /\ winner' = winner
    <2> SUFFICES ASSUME Taken PROVE Taken' /\ winner' = winner
      OBVIOUS
    <2>1. stagedCount' = NSeg' /\ winner' = winner /\ (winner' # 0 \/ allDead')
      BY Settles
    <2> QED
      BY <1>1, <2>1
  <1> HIDE DEF Taken, Fallen
  <1>6. ASSUME NEW t \in Thread, ThreadStep(t) PROVE Goal
    <2>1. phase' = phase /\ pc[t] \in {"claim", "top", "stage", "validate", "gate", "exec"}
          /\ (\A u \in Thread : u # t => pc'[u] = pc[u])
      BY <1>6, ThreadKeeps
    <2>2. \/ pc'[t] = pc[t]
          \/ pc'[t] \in {"claim", "verdict", "left", "validate", "gate", "exec"}
          \/ pc'[t] \in {"top", "stage"} /\ (t = Caller => phase = "staging")
      <3>1. CASE StageDone(t)
        BY <1>3, <3>1 DEF StageDone, Goto, AfterJob
      <3>2. CASE ~StageDone(t)
        BY <1>3, <1>6, <3>2 DEF ThreadStep, QuickStep, Quit, ClaimStage, ClaimValidate, ClaimExec,
                                ClaimWait, PassGate, GateWait, ExecDone, ValidateDone, Goto, GotoJob
      <3> QED
        BY <3>1, <3>2
    <2>3. pc'[Caller] \in {"top", "stage"} => phase' = "staging"
      BY <1>2, <1>3, <2>1, <2>2
    <2>4. pc'[Caller] \in {"stageError", "verdictTaken", "install"} => pc[Caller] = pc'[Caller]
      BY <1>3, <2>1, <2>2
    <2>5. ASSUME pc'[Caller] \in {"stageError", "verdictTaken", "install"}
          PROVE  phase' = "staging" /\ stagedCount' = NSeg' /\ ~aborting' /\ Fallen'
      <3>1. phase = "staging" /\ stagedCount = NSeg /\ ~aborting /\ Fallen
        BY <1>2, <2>4, <2>5
      <3>2. ~StageDone(t)
        BY <1>4, <3>1
      <3>3. ~ExecDone(t)
        BY <3>1 DEF ExecDone, PiecesInv, ExecInv
      <3>4. aborting' = aborting
        BY <1>6, <3>2, <3>3, ThreadKeeps
      <3> QED
        BY <1>4, <2>1, <3>1, <3>4
    <2> QED
      BY <1>2, <1>5, <2>1, <2>3, <2>4, <2>5
  <1>7. ASSUME CallerStep PROVE Goal
    <2>1. stagedCount' = stagedCount /\ stageErrors' = stageErrors /\ stageFailed' = stageFailed
          /\ winner' = winner /\ allDead' = allDead /\ NSeg' = NSeg
      BY <1>7, CallerKeeps, InputsStay
    <2>2. (Fallen => Fallen') /\ (Taken => Taken')
      BY <1>5, <2>1 DEF Fallen
    <2>3. ASSUME NEW l, GotoC(l) PROVE pc'[Caller] = l
      BY <1>3, <2>3 DEF GotoC, Goto
    <2>4. CASE Park \/ AwaitPieces
      <3>1. pc' = pc /\ phase' = phase /\ aborting' = aborting
        BY <2>4 DEF Park, AwaitPieces
      <3> QED
        BY <1>2, <2>1, <2>2, <3>1
    <2>5. CASE Ready
      <3>1. phase' = phase /\ aborting' = aborting /\ pc[Caller] = "top" /\ (aborting \/ Settled)
            /\ GotoC(IF aborting THEN "join" ELSE "stageError")
        BY <2>5 DEF Ready, At
      <3>2. phase = "staging"
        BY <1>2, <3>1
      <3>3. CASE aborting
        <4>1. pc'[Caller] = "join"
          BY <2>3, <3>1, <3>3
        <4> QED
          BY <3>1, <3>2, <4>1
      <3>4. CASE ~aborting
        <4>1. pc'[Caller] = "stageError" /\ stagedCount = NSeg /\ Fallen
          BY <2>3, <3>1, <3>4 DEF Settled, Fallen
        <4> QED
          BY <2>1, <2>2, <3>1, <3>2, <3>4, <4>1
      <3> QED
        BY <3>3, <3>4
    <2>6. CASE TakeStageError
      <3>1. pc[Caller] = "stageError" /\ phase' = phase
            /\ IF stageErrors # {} THEN GotoC("join")
               ELSE GotoC("verdictTaken") /\ aborting' = aborting
        BY <2>6 DEF TakeStageError, At, AbortWith
      <3>2. phase = "staging" /\ stagedCount = NSeg /\ ~aborting /\ Fallen
        BY <1>2, <3>1
      <3>3. CASE stageErrors # {}
        <4>1. pc'[Caller] = "join"
          BY <2>3, <3>1, <3>3
        <4> QED
          BY <3>1, <3>2, <4>1
      <3>4. CASE stageErrors = {}
        <4>1. ~stageFailed
          BY <3>4 DEF PiecesInv, StagingInv
        <4>2. winner # 0 \/ allDead
          BY <3>2, <4>1 DEF Fallen
        <4>3. Taken
          BY <3>2, <4>1, <4>2, RoundIs, WholeNow DEF Taken
        <4>4. pc'[Caller] = "verdictTaken" /\ aborting' = aborting
          BY <2>3, <3>1, <3>4
        <4> QED
          BY <2>1, <2>2, <3>1, <3>2, <4>3, <4>4
      <3> QED
        BY <3>3, <3>4
    <2>7. CASE Serial
      <3>1. pc[Caller] = "verdictTaken" /\ phase' = "serial" /\ GotoC("join")
        BY <2>7 DEF Serial, At
      <3> QED
        BY <1>2, <2>2, <2>3, <3>1
    <2>8. CASE Place
      <3>1. pc[Caller] = "verdictTaken" /\ winner # 0 /\ phase' = phase
            /\ IF placeOk THEN GotoC("install") /\ aborting' = aborting ELSE GotoC("join")
        BY <2>8 DEF Place, At, AbortWith
      <3>2. phase = "staging" /\ stagedCount = NSeg /\ ~aborting /\ Fallen /\ Taken
        BY <1>2, <3>1
      <3>3. pc'[Caller] = IF placeOk THEN "install" ELSE "join"
        BY <2>3, <3>1
      <3> QED
        BY <2>1, <2>2, <3>1, <3>2, <3>3
    <2>9. CASE Install
      <3>1. pc[Caller] = "install" /\ phase' = "execute" /\ GotoC("claim")
        BY <2>9 DEF Install, At
      <3> QED
        BY <1>2, <2>1, <2>2, <2>3, <3>1
    <2>10. CASE Verdict \/ Return
      <3>1. phase' = phase /\ (GotoC("join") \/ GotoC("returned"))
        BY <2>10 DEF Verdict, Return
      <3>2. pc'[Caller] \in {"join", "returned"}
        BY <2>3, <3>1
      <3> QED
        BY <1>2, <2>1, <2>2, <3>1, <3>2
    <2> QED
      BY <1>7, <2>4, <2>5, <2>6, <2>7, <2>8, <2>9, <2>10 DEF CallerStep
  <1>8. Goal
    <2> HIDE DEF Goal
    <2> QED
      BY <1>6, <1>7 DEF Next
  <1> QED
    BY <1>1, <1>8 DEF VerdictInv, Taken, Fallen

-----------------------------------------------------------------------------
(* The pieces that execute.                                                 *)

(* Where the prefix of w pieces ends.                                       *)
Mark(j, w) == IF w = NPieces(j) THEN Fcs ELSE Start(j, w)

LEMMA MarkGrows ==
    ASSUME Fcs \in Nat \ {0}, NEW j \in Nat \ {0}, NEW w \in 0 .. NPieces(j), NEW v \in 0 .. NPieces(j), w <= v
    PROVE  Mark(j, w) <= Mark(j, v) /\ Mark(j, w) \in Nat
  <1>1. /\ NPieces(j) \in Nat \ {0}
        /\ \A k \in Nat : Start(j, k) \in Nat /\ End(j, k) \in Nat
        /\ \A k \in 0 .. NPieces(j) - 1 : Start(j, k) < End(j, k) /\ End(j, k) <= Fcs
    BY GridFacts
  <1> DEFINE n == NPieces(j)
  <1> HIDE DEF n
  <1>2. w \in Nat /\ v \in Nat /\ n \in Nat /\ w <= n /\ v <= n
    BY <1>1 DEF n
  <1>3. Start(j, w) <= Start(j, v)
    BY <1>2, GridFacts
  <1>4. w # n => Start(j, w) <= Fcs
    <2> SUFFICES ASSUME w # n PROVE Start(j, w) <= Fcs
      OBVIOUS
    <2>1. w \in 0 .. n - 1
      BY <1>2
    <2>2. Start(j, w) < End(j, w) /\ End(j, w) <= Fcs /\ Start(j, w) \in Nat /\ End(j, w) \in Nat
      BY <1>1, <1>2, <2>1 DEF n
    <2> QED
      BY <2>2
  <1>5. v = n => w = n \/ Start(j, w) <= Fcs
    BY <1>4
  <1>6. w = n => v = n
    BY <1>2
  <1> QED
    BY <1>1, <1>2, <1>3, <1>4, <1>6 DEF Mark, n

(* What executing needs, in the next state.                                 *)
ExecThen ==
    /\ \A t \in Thread : pc'[t] \in {"gate", "exec"} =>
        /\ phase' = "execute" /\ job'[t].grid = pieces'
        /\ job'[t].id < nextPiece' /\ job'[t].id \notin done'
    /\ pieces' = IF phase' = "execute" THEN winner' ELSE 0
    /\ phase' # "execute" => done' = {} /\ absorbNext' = 0
    /\ phase' = "execute" =>
        /\ nextPiece' <= NPieces(pieces') /\ done' \subseteq 0 .. nextPiece' - 1
        /\ \A k \in done' : frame.piece[pieces'][k].exec = "ok"
        /\ 0 .. watermarkPiece' - 1 \subseteq done' /\ watermarkPiece' \notin done'
    /\ 0 .. absorbNext' - 1 \subseteq done'
    /\ \A t \in Thread : pc'[t] = "exec" =>
        Mark(pieces', watermarkPiece') >= grids'[pieces'].tops[job'[t].id]

(* While pieces execute, the winner and its measurements stand.             *)
LEMMA TopsStay ==
    ASSUME PiecesInv, FrameFacts, Next, phase = "execute"
    PROVE  /\ winner' = winner
           /\ \A k \in 0 .. NPieces(pieces) - 1 : grids'[pieces].tops[k] = grids[pieces].tops[k]
  <1>1. stagedCount = NSeg /\ (winner # 0 \/ allDead) /\ winner # 0 /\ pieces = winner
    BY DEF PiecesInv, VerdictInv, ExecInv
  <1>2. winner' = winner
    BY <1>1, Settles
  <1>3. \A k \in 0 .. NPieces(winner) - 1 : Recorded(winner, k)
    BY <1>1 DEF PiecesInv, WinnerInv
  <1>4. \A k \in 0 .. NPieces(winner)' - 1 : Recorded(winner, k)'
    BY <1>1, <1>2, GridsStep DEF WinnerInv
  <1>5. frame' = frame
    BY InputsStay
  <1>6. NPieces(winner)' = NPieces(winner)
    BY <1>2, <1>5 DEF NPieces, Fcs
  <1>7. ASSUME NEW k \in 0 .. NPieces(winner) - 1 PROVE grids'[winner].tops[k] = grids[winner].tops[k]
    <2>1. Recorded(winner, k) /\ Recorded(winner, k)'
      BY <1>3, <1>4, <1>6, <1>7
    <2>2. grids[winner].tops[k] = frame.piece[winner][k].walk.top
      BY <2>1 DEF Recorded, ValidatePiece
    <2>3. grids'[winner].tops[k] = frame.piece[winner][k].walk.top
      BY <1>2, <1>5, <2>1 DEF Recorded, ValidatePiece
    <2> QED
      BY <2>2, <2>3
  <1> QED
    BY <1>1, <1>2, <1>7

(* A step that claims no piece and finishes none.                           *)
LEMMA ExecIdle ==
    ASSUME PiecesInv, FrameFacts, Next,
           UNCHANGED <<phase, pieces, nextPiece, done, watermarkPiece, absorbNext>>,
           \A t \in Thread : pc'[t] \in {"gate", "exec"} =>
                /\ job'[t] = job[t] /\ pc[t] \in {"gate", "exec"}
                /\ pc'[t] = "exec" => pc[t] = "exec" \/ GateOpen(job[t].id)
    PROVE  ExecThen
  <1>1. ASSUME NEW t \in Thread, pc'[t] \in {"gate", "exec"}
        PROVE  /\ phase' = "execute" /\ job'[t].grid = pieces'
               /\ job'[t].id < nextPiece' /\ job'[t].id \notin done'
    BY <1>1 DEF PiecesInv, ExecInv
  <1>2. pieces' = IF phase' = "execute" THEN winner' ELSE 0
    <2>1. pieces = IF phase = "execute" THEN winner ELSE 0
      BY DEF PiecesInv, ExecInv
    <2>2. phase = "execute" => winner' = winner
      BY TopsStay
    <2> QED
      BY <2>1, <2>2
  <1>3. /\ phase' # "execute" => done' = {} /\ absorbNext' = 0
        /\ phase' = "execute" =>
            /\ nextPiece' <= NPieces(pieces') /\ done' \subseteq 0 .. nextPiece' - 1
            /\ \A k \in done' : frame.piece[pieces'][k].exec = "ok"
            /\ 0 .. watermarkPiece' - 1 \subseteq done' /\ watermarkPiece' \notin done'
        /\ 0 .. absorbNext' - 1 \subseteq done'
    BY DEF PiecesInv, ExecInv
  <1>4. ASSUME NEW t \in Thread, pc'[t] = "exec"
        PROVE  Mark(pieces', watermarkPiece') >= grids'[pieces'].tops[job'[t].id]
    <2>1. job'[t] = job[t] /\ pc[t] \in {"gate", "exec"} /\ (pc[t] = "exec" \/ GateOpen(job[t].id))
      BY <1>4
    <2>2. Mark(pieces, watermarkPiece) >= grids[pieces].tops[job[t].id]
      BY <2>1 DEF PiecesInv, ExecInv, GateOpen, Watermark, Mark
    <2>3. phase = "execute"
      BY <2>1 DEF PiecesInv, ExecInv
    <2>4. job[t].id \in 0 .. nextPiece - 1 /\ nextPiece \in Nat /\ NPieces(pieces) \in Nat /\ nextPiece <= NPieces(pieces)
      BY <2>1, <2>3, ExecIn
    <2>5. job[t].id \in 0 .. NPieces(pieces) - 1
      BY <2>4
    <2>6. grids'[pieces].tops[job[t].id] = grids[pieces].tops[job[t].id]
      BY <2>3, <2>5, TopsStay
    <2> QED
      BY <2>1, <2>2, <2>6
  <1> QED
    BY <1>1, <1>2, <1>3, <1>4 DEF ExecThen

LEMMA ExecClaims ==
    ASSUME PiecesInv, FrameFacts, Next, NEW t \in Thread, ClaimExec(t)
    PROVE  ExecThen
  <1>1. /\ phase = "execute" /\ nextPiece < NPieces(pieces) /\ nextPiece' = nextPiece + 1
        /\ pc' = [pc EXCEPT ![t] = "gate"] /\ job' = [job EXCEPT ![t] = [grid |-> pieces, id |-> nextPiece]]
        /\ UNCHANGED <<phase, pieces, done, watermarkPiece, absorbNext>>
    BY DEF ClaimExec, GotoJob, Goto
  <1>2. pc \in [Thread -> Label] /\ job \in [Thread -> JobType]
    BY DEF PiecesInv, TypeOK, JobType
  <1>3. /\ \A u \in Thread : pc'[u] = IF u = t THEN "gate" ELSE pc[u]
        /\ \A u \in Thread : u # t => job'[u] = job[u]
        /\ job'[t].grid = pieces /\ job'[t].id = nextPiece
    BY <1>1, <1>2
  <1>4. /\ pieces = winner /\ winner' = winner /\ NPieces(pieces) \in Nat /\ nextPiece \in Nat
        /\ done \subseteq 0 .. nextPiece - 1
    BY <1>1, ExecIn, TopsStay
  <1>5. nextPiece' <= NPieces(pieces) /\ nextPiece < nextPiece' /\ nextPiece' \in Nat
    <2> DEFINE n == NPieces(pieces)
    <2> HIDE DEF n
    <2>1. nextPiece + 1 <= n /\ nextPiece < nextPiece + 1 /\ nextPiece + 1 \in Nat
      BY <1>1, <1>4 DEF n
    <2> QED
      BY <1>1, <2>1 DEF n
  <1>6. nextPiece \notin done /\ done \subseteq 0 .. nextPiece' - 1
    BY <1>1, <1>4
  <1>7. ASSUME NEW u \in Thread, pc'[u] \in {"gate", "exec"}
        PROVE  /\ job'[u].grid = pieces /\ job'[u].id < nextPiece' /\ job'[u].id \notin done
    <2>1. CASE u = t
      BY <1>3, <1>5, <1>6, <2>1
    <2>2. CASE u # t
      <3>1. pc[u] \in {"gate", "exec"} /\ job'[u] = job[u]
        BY <1>3, <1>7, <2>2
      <3>2. job[u].grid = pieces /\ job[u].id \in 0 .. nextPiece - 1 /\ job[u].id \notin done
        BY <1>1, <3>1, ExecIn
      <3>3. job[u].id < nextPiece'
        BY <1>4, <1>1, <3>2
      <3> QED
        BY <3>1, <3>2, <3>3
    <2> QED
      BY <2>1, <2>2
  <1>8. ASSUME NEW u \in Thread, pc'[u] = "exec"
        PROVE  Mark(pieces, watermarkPiece) >= grids'[pieces].tops[job'[u].id]
    <2>1. u # t /\ pc[u] = "exec" /\ job'[u] = job[u]
      BY <1>3, <1>8
    <2>2. Mark(pieces, watermarkPiece) >= grids[pieces].tops[job[u].id]
      BY <2>1 DEF PiecesInv, ExecInv, Watermark, Mark
    <2>3. job[u].id \in 0 .. nextPiece - 1
      BY <1>1, <2>1, ExecIn
    <2>4. job[u].id \in 0 .. NPieces(pieces) - 1
      BY <1>1, <1>4, <2>3
    <2> QED
      BY <1>1, <2>1, <2>2, <2>4, TopsStay
  <1>9. /\ \A k \in done : frame.piece[pieces][k].exec = "ok"
        /\ 0 .. watermarkPiece - 1 \subseteq done /\ watermarkPiece \notin done
        /\ 0 .. absorbNext - 1 \subseteq done
    BY <1>1 DEF PiecesInv, ExecInv
  <1> QED
    BY <1>1, <1>4, <1>5, <1>6, <1>7, <1>8, <1>9 DEF ExecThen

(* As many pieces as there are, all of them in the grid: every one.         *)
LEMMA AllDone ==
    ASSUME NEW n \in Nat, NEW m \in Nat, m <= n, NEW d, d \subseteq 0 .. m - 1, Cardinality(d) = n
    PROVE  d = 0 .. n - 1
  <1>1. 0 \in Int /\ n - 1 \in Int
    OBVIOUS
  <1>2. IsFiniteSet(0 .. n - 1) /\ Cardinality(0 .. n - 1) = IF 0 > n - 1 THEN 0 ELSE (n - 1) - 0 + 1
    BY <1>1, FS_Interval
  <1>3. Cardinality(0 .. n - 1) = n
    BY <1>2
  <1>4. d \subseteq 0 .. n - 1
    <2>1. \A x \in 0 .. m - 1 : x \in 0 .. n - 1
      OBVIOUS
    <2> QED
      BY <2>1
  <1> DEFINE S == 0 .. n - 1
  <1>5. IsFiniteSet(S) /\ d \in SUBSET S /\ Cardinality(S) = n
    BY <1>2, <1>3, <1>4
  <1> HIDE DEF S
  <1>6. Cardinality(d) = Cardinality(S) => d = S
    BY <1>5, FS_Subset
  <1> QED
    BY <1>5, <1>6 DEF S

LEMMA ExecEnds ==
    ASSUME PiecesInv, FrameFacts, Next, NEW t \in Thread, ExecDone(t)
    PROVE  ExecThen
  <1> DEFINE k == job[t].id
  <1>1. /\ pc[t] = "exec" /\ pc' = [pc EXCEPT ![t] = "claim"] /\ job' = job
        /\ UNCHANGED <<phase, pieces, nextPiece>>
        /\ \/ done' = done \cup {k} /\ frame.piece[pieces][k].exec = "ok"
           \/ done' = done /\ absorbNext' = absorbNext
    BY DEF ExecDone, Goto
  <1>2. phase = "execute"
    BY <1>1 DEF PiecesInv, ExecInv
  <1>3. /\ pieces = winner /\ winner' = winner /\ NPieces(pieces) \in Nat /\ nextPiece \in Nat
        /\ nextPiece <= NPieces(pieces) /\ done \subseteq 0 .. nextPiece - 1
        /\ k \in 0 .. nextPiece - 1 /\ pieces \in Candidates /\ pieces \in Nat \ {0} /\ Fcs \in Nat \ {0}
    BY <1>1, <1>2, ExecIn, TopsStay DEF FrameFacts
  <1>4. /\ watermarkPiece' \in Nat /\ watermarkPiece' >= watermarkPiece
        /\ 0 .. watermarkPiece' - 1 \subseteq done' /\ watermarkPiece' \notin done'
        /\ absorbNext' \in {absorbNext, watermarkPiece'}
    BY DoneGrows
  <1>5. done' \subseteq 0 .. nextPiece - 1 /\ done \subseteq done' /\ done' \subseteq done \cup {k}
    BY <1>1, <1>3
  <1>6. \A u \in Thread : pc'[u] \in {"gate", "exec"} => u # t /\ pc[u] = pc'[u]
    <2>1. pc \in [Thread -> Label]
      BY DEF PiecesInv, TypeOK
    <2> QED
      BY <1>1, <2>1
  <1>7. ASSUME NEW u \in Thread, pc'[u] \in {"gate", "exec"}
        PROVE  job[u].grid = pieces /\ job[u].id < nextPiece /\ job[u].id \notin done'
    <2>1. u # t /\ pc[u] \in {"gate", "exec"} /\ pc[t] \in {"gate", "exec"}
      BY <1>1, <1>6, <1>7
    <2>2. job[u].grid = pieces /\ job[u].id \in 0 .. nextPiece - 1 /\ job[u].id \notin done /\ job[t].grid = pieces
      BY <1>2, <2>1, ExecIn
    <2>3. job[u] # job[t]
      BY <2>1 DEF PiecesInv, Alone
    <2>4. job[u].id # k
      <3>1. job[u] \in JobType /\ job[t] \in JobType
        BY DEF PiecesInv, TypeOK, JobType
      <3> QED
        BY <2>2, <2>3, <3>1 DEF JobType
    <2>5. job[u].id < nextPiece
      BY <1>3, <2>2
    <2> QED
      BY <1>5, <2>2, <2>4, <2>5
  <1>8. /\ \A m \in done' : frame.piece[pieces][m].exec = "ok"
        /\ 0 .. absorbNext' - 1 \subseteq done'
    <2>1. (\A m \in done : frame.piece[pieces][m].exec = "ok") /\ 0 .. absorbNext - 1 \subseteq done
      BY <1>2 DEF PiecesInv, ExecInv
    <2>2. \A m \in done' : frame.piece[pieces][m].exec = "ok"
      BY <1>1, <2>1
    <2>3. CASE absorbNext' = absorbNext
      BY <1>5, <2>1, <2>2, <2>3
    <2>4. CASE absorbNext' = watermarkPiece'
      BY <1>4, <2>2, <2>4
    <2> QED
      BY <1>4, <2>3, <2>4
  <1>9. ASSUME NEW u \in Thread, pc'[u] = "exec"
        PROVE  Mark(pieces, watermarkPiece') >= grids'[pieces].tops[job[u].id]
    <2>1. pc[u] = "exec"
      BY <1>6, <1>9
    <2>2. Mark(pieces, watermarkPiece) >= grids[pieces].tops[job[u].id]
      BY <2>1 DEF PiecesInv, ExecInv, Watermark, Mark
    <2>3. job[u].id \in 0 .. nextPiece - 1
      BY <1>2, <2>1, ExecIn
    <2>4. job[u].id \in 0 .. NPieces(pieces) - 1
      BY <1>3, <2>3
    <2>5. grids'[pieces].tops[job[u].id] = grids[pieces].tops[job[u].id]
      BY <1>2, <2>4, TopsStay
    <2>6. grids[pieces].tops[job[u].id] \in Nat
      <3>1. Recorded(pieces, job[u].id)
        BY <1>2, <1>3, <2>4 DEF PiecesInv, WinnerInv, VerdictInv
      <3> QED
        BY <1>3, <2>4, <3>1 DEF Recorded, FrameFacts
    <2>7. watermarkPiece' <= NPieces(pieces)
      <3> DEFINE n == NPieces(pieces)
                 w == watermarkPiece'
      <3>1. n \in Nat /\ w \in Nat /\ 0 .. w - 1 \subseteq 0 .. nextPiece - 1 /\ nextPiece <= n
        BY <1>3, <1>4, <1>5
      <3> HIDE DEF n, w
      <3>2. ASSUME w > n PROVE FALSE
        <4>1. n \in 0 .. w - 1
          BY <3>1, <3>2
        <4>2. n \in 0 .. nextPiece - 1
          BY <3>1, <4>1
        <4> QED
          BY <1>3, <3>1, <4>2
      <3>3. w <= n
        BY <3>1, <3>2
      <3> QED
        BY <3>3 DEF n, w
    <2> DEFINE v == watermarkPiece'
               n == NPieces(pieces)
    <2>8. v \in Nat /\ v >= watermarkPiece /\ v <= n /\ watermarkPiece \in Nat /\ n \in Nat
      BY <1>3, <1>4, <2>7 DEF PiecesInv, TypeOK
    <2> HIDE DEF v, n
    <2>9. watermarkPiece \in 0 .. n /\ v \in 0 .. n /\ watermarkPiece <= v
      BY <2>8
    <2>10. Mark(pieces, watermarkPiece) <= Mark(pieces, v) /\ Mark(pieces, watermarkPiece) \in Nat
      BY <1>3, <2>9, MarkGrows DEF n
    <2>11. Mark(pieces, v) \in Nat
      <3>1. v <= v
        BY <2>8
      <3> QED
        BY <1>3, <2>9, <3>1, MarkGrows DEF n
    <2>12. Mark(pieces, v) >= grids[pieces].tops[job[u].id]
      BY <2>2, <2>6, <2>10, <2>11
    <2> QED
      BY <2>5, <2>12 DEF v
  <1> QED
    BY <1>1, <1>2, <1>3, <1>4, <1>5, <1>7, <1>8, <1>9 DEF ExecThen

(* A thread that executes pieces is there only in the execution phase.      *)
LEMMA NoneExecute ==
    ASSUME PiecesInv, CallerStep, phase # "execute"
    PROVE  \A t \in Thread : pc'[t] \notin {"gate", "exec"}
  <1>1. \A t \in Thread : pc[t] \notin {"gate", "exec"}
    BY DEF PiecesInv, ExecInv
  <1>2. pc \in [Thread -> Label] /\ Caller \in Thread
    BY DEF PiecesInv, TypeOK, Thread
  <1>3. pc' = pc \/ pc'[Caller] \notin {"gate", "exec"}
    BY <1>2 DEF CallerStep, Park, Ready, TakeStageError, Serial, Place, Install, AwaitPieces, Verdict,
                Return, GotoC, Goto, AbortWith
  <1> QED
    BY <1>1, <1>3, CallerKeeps

LEMMA ExecTurns ==
    ASSUME PiecesInv, FrameFacts, Next, Install \/ Serial \/ Verdict
    PROVE  ExecThen
  <1>1. CallerStep
    BY DEF CallerStep
  <1>2. CASE Install
    <2>1. /\ phase' = "execute" /\ pieces' = winner /\ nextPiece' = 0 /\ done' = {}
          /\ watermarkPiece' = 0 /\ absorbNext' = 0 /\ phase = "staging" /\ winner' = winner /\ winner # 0
      BY <1>2 DEF Install, At, gridVars, PiecesInv, VerdictInv
    <2>2. \A t \in Thread : pc'[t] \notin {"gate", "exec"}
      BY <1>1, <2>1, NoneExecute
    <2>3. NPieces(winner) \in Nat
      <3>1. winner \in Nat \ {0} /\ Fcs \in Nat \ {0}
        BY <2>1 DEF PiecesInv, TypeOK, FrameFacts
      <3> QED
        BY <3>1, GridFacts
    <2>4. 0 <= NPieces(winner) /\ 0 .. 0 - 1 = {}
      BY <2>3
    <2> QED
      BY <2>1, <2>2, <2>4 DEF ExecThen
  <1>3. CASE Serial
    <2>1. /\ phase' = "serial" /\ UNCHANGED execVars /\ phase = "staging"
      BY <1>3 DEF Serial, At, PiecesInv, VerdictInv
    <2>2. \A t \in Thread : pc'[t] \notin {"gate", "exec"}
      BY <1>1, <2>1, NoneExecute
    <2>3. pieces = 0 /\ done = {} /\ absorbNext = 0 /\ 0 .. absorbNext - 1 \subseteq done
      BY <2>1 DEF PiecesInv, ExecInv
    <2> QED
      BY <2>1, <2>2, <2>3 DEF ExecThen, execVars
  <1>4. CASE Verdict
    <2>1. /\ pc[Caller] = "verdict" /\ GotoC("join") /\ job' = job
          /\ UNCHANGED <<phase, pieces, nextPiece, done, watermarkPiece>>
          /\ absorbNext' \in {absorbNext, NPieces(pieces)}
          /\ absorbNext' # absorbNext => Pieced
      BY <1>4 DEF Verdict, At
    <2>2. phase = "execute"
      BY <2>1 DEF PiecesInv, ExecInv
    <2>3. /\ pieces = winner /\ winner' = winner /\ NPieces(pieces) \in Nat /\ nextPiece \in Nat
          /\ nextPiece <= NPieces(pieces) /\ done \subseteq 0 .. nextPiece - 1
      BY <2>2, ExecIn, TopsStay
    <2>4. /\ \A m \in done : frame.piece[pieces][m].exec = "ok"
          /\ 0 .. watermarkPiece - 1 \subseteq done /\ watermarkPiece \notin done
          /\ 0 .. absorbNext - 1 \subseteq done
      BY <2>2 DEF PiecesInv, ExecInv
    <2>5. 0 .. absorbNext' - 1 \subseteq done
      <3>1. CASE absorbNext' = absorbNext
        BY <2>4, <3>1
      <3>2. CASE absorbNext' # absorbNext
        <4>1. absorbNext' = NPieces(pieces) /\ Cardinality(done) = NPieces(pieces)
          BY <2>1, <3>2 DEF Pieced, Executed
        <4> DEFINE n == NPieces(pieces)
        <4> HIDE DEF n
        <4>2. done = 0 .. n - 1
          BY <2>3, <4>1, AllDone DEF n
        <4> QED
          BY <4>1, <4>2 DEF n
      <3> QED
        BY <3>1, <3>2
    <2>6. \A u \in Thread : pc'[u] \in {"gate", "exec"} => pc[u] = pc'[u]
      BY <2>1 DEF GotoC, Goto, PiecesInv, TypeOK
    <2>7. ASSUME NEW u \in Thread, pc'[u] \in {"gate", "exec"}
          PROVE  job[u].grid = pieces /\ job[u].id < nextPiece /\ job[u].id \notin done
      BY <2>6, <2>7 DEF PiecesInv, ExecInv
    <2>8. ASSUME NEW u \in Thread, pc'[u] = "exec"
          PROVE  Mark(pieces, watermarkPiece) >= grids'[pieces].tops[job[u].id]
      <3>1. Mark(pieces, watermarkPiece) >= grids[pieces].tops[job[u].id]
        BY <2>6, <2>8 DEF PiecesInv, ExecInv, Watermark, Mark
      <3>2. grids' = grids
        BY <1>1, CallerKeeps
      <3> QED
        BY <3>1, <3>2
    <2> QED
      BY <2>1, <2>2, <2>3, <2>4, <2>5, <2>7, <2>8 DEF ExecThen
  <1> QED
    BY <1>2, <1>3, <1>4

(* Who waits and who executes, and when.                                    *)
LEMMA ExecPhases ==
    ASSUME PiecesInv, FrameFacts, Next
    PROVE  /\ pc'[Caller] \in {"claim", "gate", "exec", "verdict"} => phase' = "execute"
           /\ pc'[Caller] # "validate"
           /\ \A t \in Thread : pc'[t] = "validate" => job'[t].grid \in Candidates
  <1>1. pc \in [Thread -> Label] /\ job \in [Thread -> JobType] /\ Caller \in Thread
        /\ grids \in [Candidates -> GridState]
    BY DEF PiecesInv, TypeOK, JobType, Thread
  <1>2. /\ pc[Caller] \in {"claim", "gate", "exec", "verdict"} => phase = "execute"
        /\ pc[Caller] # "validate" /\ \A t \in Thread : pc[t] = "validate" => job[t].grid \in Candidates
        /\ pc[Caller] \in {"top", "stage"} => phase = "staging"
    BY DEF PiecesInv, ExecInv, VerdictInv
  <1> DEFINE Goal == /\ pc'[Caller] \in {"claim", "gate", "exec", "verdict"} => phase' = "execute"
                     /\ pc'[Caller] # "validate"
                     /\ \A t \in Thread : pc'[t] = "validate" => job'[t].grid \in Candidates
  <1>3. ASSUME NEW t \in Thread, ThreadStep(t) PROVE Goal
    <2>1. phase' = phase /\ (\A u \in Thread : u # t => pc'[u] = pc[u] /\ job'[u] = job[u])
      BY <1>3, ThreadKeeps
    <2>2. CASE ClaimValidate(t)
      <3>1. pc[t] = "claim" /\ phase = "staging" /\ \E j \in Walkable : GotoJob(t, "validate", j, grids[j].nextValidate)
        BY <2>2 DEF ClaimValidate, Claiming
      <3>2. t # Caller
        BY <1>2, <3>1
      <3>3. job'[t].grid \in Candidates
        <4>1. Walkable \subseteq Candidates
          BY <1>1 DEF Walkable
        <4> QED
          BY <1>1, <3>1, <4>1 DEF GotoJob
      <3> QED
        BY <1>1, <1>2, <2>1, <3>2, <3>3
    <2>3. CASE StageDone(t)
      <3>1. pc[t] = "stage" /\ pc' = [pc EXCEPT ![t] = AfterJob(t)] /\ job' = job
        BY <2>3 DEF StageDone, Goto
      <3>2. pc'[t] = AfterJob(t) /\ AfterJob(t) \in {"top", "claim"}
        BY <1>1, <3>1 DEF AfterJob
      <3>3. t = Caller => AfterJob(t) = "top"
        BY <1>2, <3>1 DEF AfterJob
      <3> QED
        BY <1>1, <1>2, <2>1, <3>1, <3>2, <3>3
    <2>4. CASE ClaimStage(t) \/ ClaimExec(t) \/ Quit(t)
      <3>1. /\ pc'[t] \in {"stage", "gate", "verdict", "left"}
            /\ pc'[t] = "gate" => phase = "execute"
            /\ pc'[t] = "verdict" => pc[Caller] = "claim"
        BY <1>1, <2>4 DEF ClaimStage, ClaimExec, Quit, GotoJob, Goto, Claiming
      <3> QED
        BY <1>1, <1>2, <2>1, <3>1
    <2>5. CASE ClaimWait(t) \/ GateWait(t)
      <3>1. pc' = pc /\ job' = job
        BY <2>5 DEF ClaimWait, GateWait
      <3> QED
        BY <1>2, <2>1, <3>1
    <2>6. CASE PassGate(t) \/ ExecDone(t) \/ ValidateDone(t)
      <3>1. pc[t] \in {"gate", "exec", "validate"} /\ pc'[t] \in {"claim", "exec"} /\ job' = job
        BY <1>1, <2>6 DEF PassGate, ExecDone, ValidateDone, Goto
      <3> QED
        BY <1>1, <1>2, <2>1, <3>1
    <2> QED
      BY <1>3, <2>2, <2>3, <2>4, <2>5, <2>6 DEF ThreadStep, QuickStep
  <1>4. ASSUME CallerStep PROVE Goal
    <2>1. job' = job /\ \A t \in Thread : t # Caller => pc'[t] = pc[t]
      BY <1>4, CallerKeeps
    <2>2. pc'[Caller] # "validate" /\ (pc'[Caller] \in {"claim", "gate", "exec", "verdict"} => phase' = "execute")
      <3>1. CASE Park \/ AwaitPieces
        BY <1>2, <3>1 DEF Park, AwaitPieces
      <3>2. CASE Ready \/ TakeStageError \/ Serial \/ Place \/ Verdict \/ Return
        BY <1>1, <3>2 DEF Ready, TakeStageError, Serial, Place, Verdict, Return, AbortWith, GotoC, Goto
      <3>3. CASE Install
        BY <1>1, <3>3 DEF Install, GotoC, Goto
      <3> QED
        BY <1>4, <3>1, <3>2, <3>3 DEF CallerStep
    <2> QED
      BY <1>2, <2>1, <2>2
  <1>5. Goal
    <2> HIDE DEF Goal
    <2> QED
      BY <1>3, <1>4 DEF Next
  <1> QED
    BY <1>5

LEMMA ExecStep ==
    ASSUME PiecesInv, FrameFacts, Next
    PROVE  ExecInv'
  <1>1. pc \in [Thread -> Label] /\ job \in [Thread -> JobType]
    BY DEF PiecesInv, TypeOK, JobType
  <1>2. ASSUME NEW t \in Thread, ThreadStep(t) PROVE ExecThen
    <2>1. CASE ClaimExec(t)
      BY <2>1, ExecClaims
    <2>2. CASE ExecDone(t)
      BY <2>2, ExecEnds
    <2>3. CASE ~ClaimExec(t) /\ ~ExecDone(t)
      <3>1. UNCHANGED <<phase, pieces, nextPiece, done, watermarkPiece, absorbNext>>
            /\ \A u \in Thread : u # t => pc'[u] = pc[u] /\ job'[u] = job[u]
        BY <1>2, <2>3, ThreadKeeps
      <3>2. pc'[t] \in {"gate", "exec"} =>
                /\ job'[t] = job[t] /\ pc[t] \in {"gate", "exec"}
                /\ pc'[t] = "exec" => pc[t] = "exec" \/ GateOpen(job[t].id)
        <4>1. CASE PassGate(t)
          BY <1>1, <4>1 DEF PassGate, Goto
        <4>2. CASE StageDone(t)
          BY <1>1, <4>2 DEF StageDone, Goto, AfterJob
        <4>3. CASE ClaimWait(t) \/ GateWait(t)
          BY <4>3 DEF ClaimWait, GateWait
        <4>4. CASE Quit(t) \/ ClaimStage(t) \/ ClaimValidate(t) \/ ValidateDone(t)
          BY <1>1, <4>4 DEF Quit, ClaimStage, ClaimValidate, ValidateDone, Goto, GotoJob
        <4> QED
          BY <1>2, <2>3, <4>1, <4>2, <4>3, <4>4 DEF ThreadStep, QuickStep
      <3> QED
        BY <3>1, <3>2, ExecIdle
    <2> QED
      BY <2>1, <2>2, <2>3
  <1>3. ASSUME CallerStep PROVE ExecThen
    <2>1. CASE Install \/ Serial \/ Verdict
      BY <2>1, ExecTurns
    <2>2. CASE Park \/ Ready \/ TakeStageError \/ Place \/ AwaitPieces \/ Return
      <3>1. UNCHANGED <<phase, pieces, nextPiece, done, watermarkPiece, absorbNext>>
        BY <2>2 DEF Park, Ready, TakeStageError, Place, AwaitPieces, Return, execVars, AbortWith
      <3>2. pc' = pc \/ pc'[Caller] \notin {"gate", "exec"}
        <4>1. Caller \in Thread
          BY DEF Thread
        <4> QED
          BY <1>1, <2>2, <4>1 DEF Park, Ready, TakeStageError, Place, AwaitPieces, Return, GotoC, Goto, AbortWith
      <3>3. job' = job /\ \A t \in Thread : t # Caller => pc'[t] = pc[t]
        BY <1>3, CallerKeeps
      <3>4. \A u \in Thread : pc'[u] \in {"gate", "exec"} => pc[u] = pc'[u]
        BY <3>2, <3>3
      <3> QED
        BY <3>1, <3>3, <3>4, ExecIdle
    <2> QED
      BY <1>3, <2>1, <2>2 DEF CallerStep
  <1>4. ExecThen
    BY <1>2, <1>3 DEF Next
  <1>5. frame' = frame /\ Candidates' = Candidates
    BY InputsStay, FactsStay
  <1>6. \A j : NPieces(j)' = NPieces(j)
    BY <1>5, FactsStay
  <1>7. phase' = "execute" => nextPiece' <= NPieces(pieces)'
    BY <1>4, <1>5 DEF ExecThen, NPieces, Fcs
  <1>8. Watermark' = Mark(pieces', watermarkPiece')
    BY <1>5 DEF Watermark, Mark, NPieces, Start, Fcs
  <1>9. \A t \in Thread : pc'[t] = "exec" => Watermark' >= grids'[pieces'].tops[job'[t].id]
    BY <1>4, <1>8 DEF ExecThen
  <1>10. /\ pc'[Caller] \in {"claim", "gate", "exec", "verdict"} => phase' = "execute"
         /\ pc'[Caller] # "validate" /\ \A t \in Thread : pc'[t] = "validate" => job'[t].grid \in Candidates'
    BY <1>5, ExecPhases
  <1> QED
    BY <1>4, <1>5, <1>7, <1>9, <1>10 DEF ExecInv, ExecThen

-----------------------------------------------------------------------------
(* What the call returns.                                                   *)

(* The reasons a call may end with r.                                       *)
Explained(r) ==
    /\ r # "none"
    /\ r = "ok" => StagedOk /\ SerialResult = "ok"
    /\ r \in {"place", "size", "sum"} => r = SerialResult
    /\ r = "exec" => frame.serial # "ok"
    /\ r = "stage" => \E s \in Seg : staging[s] = "err"
    /\ r = "panic" => Panics

LEMMA VerdictIs ==
    ASSUME PiecesInv, FrameFacts, Verdict
    PROVE  Explained(res') /\ (res' = "aborted" => poison)
  <1>1. /\ pc[Caller] = "verdict" /\ (Pieced \/ execErr \/ aborting)
        /\ res' = IF execErr THEN "exec" ELSE IF aborting THEN "aborted" ELSE IF sumOk THEN "ok" ELSE "sum"
    BY DEF Verdict, At
  <1>2. phase = "execute"
    BY <1>1 DEF PiecesInv, ExecInv
  <1>3. CASE execErr
    <2>1. \E i \in DOMAIN frame.table : frame.table[i].exec = "err"
      BY <1>3 DEF PiecesInv, FaultInv
    <2>2. frame.serial # "ok"
      BY <2>1 DEF FrameFacts
    <2> QED
      BY <1>1, <1>3, <2>2 DEF Explained
  <1>4. CASE ~execErr /\ aborting
    <2>1. poison
      BY <1>1, <1>4 DEF PiecesInv, FaultInv
    <2> QED
      BY <1>1, <1>4, <2>1 DEF Explained
  <1>5. CASE ~execErr /\ ~aborting
    <2>1. Cardinality(done) = NPieces(pieces)
      BY <1>1, <1>5 DEF Pieced, Executed
    <2>2. /\ pieces = winner /\ pieces \in Candidates /\ NPieces(pieces) \in Nat /\ nextPiece \in Nat
          /\ nextPiece <= NPieces(pieces) /\ done \subseteq 0 .. nextPiece - 1
      BY <1>2, ExecIn
    <2>3. done = 0 .. NPieces(pieces) - 1
      <3> DEFINE n == NPieces(pieces)
      <3> HIDE DEF n
      <3> QED
        BY <2>1, <2>2, AllDone DEF n
    <2>4. winner # 0 /\ winner = RoundWinner /\ StagedOk /\ placeOk
      BY <1>2 DEF PiecesInv, VerdictInv
    <2>5. StagedPos(NSeg) = Fcs
      BY <2>4 DEF RoundWinner
    <2>6. \A k \in done : frame.piece[pieces][k].exec = "ok"
      BY <1>2 DEF PiecesInv, ExecInv
    <2>7. \A k \in 0 .. NPieces(winner) - 1 : ValidatePiece(winner, k).ok
      BY <2>4 DEF PiecesInv, WinnerInv, Recorded
    <2>8. frame.serial = "ok"
      BY <2>2, <2>3, <2>5, <2>6, <2>7 DEF FrameFacts
    <2>9. SerialResult = IF ~sumOk THEN "sum" ELSE "ok"
      BY <2>4, <2>5, <2>8 DEF SerialResult
    <2> QED
      BY <1>1, <1>5, <2>4, <2>9 DEF Explained
  <1> QED
    BY <1>3, <1>4, <1>5

LEMMA OutcomeStep ==
    ASSUME PiecesInv, FrameFacts, Next
    PROVE  OutcomeInv'
  <1> DEFINE Ended == pc[Caller] \in {"join", "returned"}
             Goal == /\ phase' = "serial" => Ended'
                     /\ Ended' => Explained(res') /\ (res' = "aborted" => poison' /\ pc'[Caller] = "join")
  <1>1. /\ Panics' = Panics /\ StagedOk' = StagedOk /\ SerialResult' = SerialResult
        /\ frame' = frame /\ Seg' = Seg /\ staging' = staging
    BY InputsStay
  <1>2. /\ phase = "serial" => Ended
        /\ Ended => Explained(res) /\ (res = "aborted" => poison /\ pc[Caller] = "join")
    BY DEF PiecesInv, OutcomeInv, Explained
  <1>3. pc \in [Thread -> Label] /\ Caller \in Thread /\ (poison => poison')
    BY FaultsStay DEF PiecesInv, TypeOK, Thread
  <1> HIDE DEF Explained
  <1>4. ASSUME NEW t \in Thread, ThreadStep(t) PROVE Goal
    <2>1. phase' = phase /\ res' = res /\ pc[t] \in {"claim", "top", "stage", "validate", "gate", "exec"}
          /\ \A u \in Thread : u # t => pc'[u] = pc[u]
      BY <1>4, ThreadKeeps
    <2>2. pc'[t] \in Label \ {"join", "returned"}
      <3>1. CASE StageDone(t)
        BY <1>3, <3>1 DEF StageDone, Goto, AfterJob, Label
      <3>2. CASE ClaimWait(t) \/ GateWait(t)
        BY <1>3, <2>1, <3>2 DEF ClaimWait, GateWait
      <3>3. CASE ~StageDone(t) /\ ~ClaimWait(t) /\ ~GateWait(t)
        BY <1>3, <1>4, <3>3 DEF ThreadStep, QuickStep, Quit, ClaimStage, ClaimValidate, ClaimExec,
                                PassGate, ExecDone, ValidateDone, Goto, GotoJob, Label
      <3> QED
        BY <3>1, <3>2, <3>3
    <2>3. Ended' <=> Ended
      BY <1>3, <2>1, <2>2
    <2>4. Ended => pc'[Caller] = pc[Caller]
      BY <1>3, <2>1
    <2> QED
      BY <1>2, <1>3, <2>1, <2>3, <2>4
  <1>5. ASSUME CallerStep PROVE Goal
    <2>1. ASSUME NEW l, GotoC(l) PROVE pc'[Caller] = l
      BY <1>3, <2>1 DEF GotoC, Goto
    <2>2. poison' = poison
      BY <1>5, CallerKeeps
    <2>3. /\ pc[Caller] \in {"top", "stageError", "verdictTaken", "install"} => phase = "staging"
          /\ pc[Caller] = "verdict" => phase = "execute"
      BY DEF PiecesInv, VerdictInv, ExecInv
    <2>4. CASE Park \/ AwaitPieces
      <3>1. pc' = pc /\ res' = res /\ phase' = phase
        BY <2>4 DEF Park, AwaitPieces
      <3> QED
        BY <1>2, <2>2, <3>1
    <2>5. CASE Ready
      <3>1. /\ pc[Caller] = "top" /\ phase' = phase /\ phase = "staging"
            /\ GotoC(IF aborting THEN "join" ELSE "stageError")
            /\ res' = IF aborting THEN "aborted" ELSE res
        BY <2>3, <2>5 DEF Ready, At
      <3>2. aborting => poison
        BY <3>1 DEF PiecesInv, FaultInv
      <3>3. pc'[Caller] = IF aborting THEN "join" ELSE "stageError"
        BY <2>1, <3>1
      <3> QED
        BY <2>2, <3>1, <3>2, <3>3 DEF Explained
    <2>6. CASE TakeStageError
      <3>1. /\ pc[Caller] = "stageError" /\ phase' = phase /\ phase = "staging"
            /\ IF stageErrors # {} THEN res' = "stage" ELSE GotoC("verdictTaken")
        BY <2>3, <2>6 DEF TakeStageError, At, AbortWith
      <3>2. CASE stageErrors # {}
        <4>1. PICK s \in Seg : s \in stageErrors
          BY <3>2 DEF PiecesInv, TypeOK
        <4>2. staging[s] = "err"
          BY <4>1 DEF PiecesInv, StagingInv
        <4> QED
          BY <3>1, <3>2, <4>2 DEF Explained
      <3>3. CASE stageErrors = {}
        <4>1. pc'[Caller] = "verdictTaken"
          BY <2>1, <3>1, <3>3
        <4> QED
          BY <3>1, <4>1
      <3> QED
        BY <3>2, <3>3
    <2>7. CASE Serial
      <3>1. pc[Caller] = "verdictTaken" /\ res' = SerialResult /\ GotoC("join")
        BY <2>7 DEF Serial, At
      <3>2. StagedOk
        BY <3>1 DEF PiecesInv, VerdictInv
      <3>3. SerialResult \in {"place", "exec", "panic", "size", "sum", "ok"}
            /\ (SerialResult \in {"exec", "panic"} => frame.serial # "ok")
            /\ (SerialResult = "panic" => frame.serial = "panic")
        BY DEF SerialResult
      <3>4. frame.serial = "panic" => Panics
        BY DEF FrameFacts, Panics
      <3>5. pc'[Caller] = "join"
        BY <2>1, <3>1
      <3> QED
        BY <3>1, <3>2, <3>3, <3>4, <3>5 DEF Explained
    <2>8. CASE Place
      <3>1. /\ pc[Caller] = "verdictTaken" /\ phase' = phase /\ phase = "staging"
            /\ IF placeOk THEN GotoC("install") ELSE res' = "place"
        BY <2>3, <2>8 DEF Place, At, AbortWith
      <3>2. CASE placeOk
        <4>1. pc'[Caller] = "install"
          BY <2>1, <3>1, <3>2
        <4> QED
          BY <3>1, <4>1
      <3>3. CASE ~placeOk
        <4>1. SerialResult = "place"
          BY <3>3 DEF SerialResult
        <4> QED
          BY <3>1, <3>3, <4>1 DEF Explained
      <3> QED
        BY <3>2, <3>3
    <2>9. CASE Install
      <3>1. phase' = "execute" /\ GotoC("claim")
        BY <2>9 DEF Install
      <3> QED
        BY <2>1, <3>1
    <2>10. CASE Verdict
      <3>1. GotoC("join") /\ phase' = phase /\ pc[Caller] = "verdict"
        BY <2>10 DEF Verdict, At
      <3> QED
        BY <2>1, <2>2, <2>3, <2>10, <3>1, VerdictIs
    <2>11. CASE Return
      <3>1. /\ pc[Caller] = "join" /\ res' = (IF poison THEN "panic" ELSE res) /\ phase' = phase
            /\ GotoC("returned")
        BY <2>11 DEF Return
      <3>2. poison => Panics
        BY DEF PiecesInv, FaultInv
      <3>3. pc'[Caller] = "returned"
        BY <2>1, <3>1
      <3>4. CASE poison
        BY <3>1, <3>2, <3>3, <3>4 DEF Explained
      <3>5. CASE ~poison
        BY <1>2, <3>1, <3>3, <3>5
      <3> QED
        BY <3>4, <3>5
    <2> QED
      BY <1>5, <2>4, <2>5, <2>6, <2>7, <2>8, <2>9, <2>10, <2>11 DEF CallerStep
  <1>6. Goal
    <2> HIDE DEF Goal
    <2> QED
      BY <1>4, <1>5 DEF Next
  <1>7. (Ended => Explained(res))' => OutcomeInv' \/ ~(phase' = "serial" => Ended') \/
        ~(Ended' /\ res' = "aborted" => poison' /\ pc'[Caller] = "join")
    BY <1>1 DEF OutcomeInv, Explained
  <1>8. Explained(res') => Explained(res)'
    BY <1>1 DEF Explained
  <1> QED
    BY <1>6, <1>7, <1>8

-----------------------------------------------------------------------------
(* The theorems.                                                            *)

LEMMA FrameKnown ==
    ASSUME PiecesAssumption, TypeOK
    PROVE  FrameFacts
  <1>1. PICK f \in Frames : frame = Laid(f)
    BY DEF TypeOK
  <1> QED
    BY <1>1, FrameIs

LEMMA NoneStaged ==
    ASSUME PiecesAssumption, NEW f \in Frames, frame = Laid(f)
    PROVE  StagedPos(0) = 0
  <1>1. FrameOK(f) /\ 0 \in Nat
    BY DEF PiecesAssumption
  <1>2. \A i \in DOMAIN f.table : ~(f.table[i].seg <= 0)
    BY <1>1, TableTyped
  <1>3. EndOf(f.table, 0) = 0
    BY <1>1, <1>2, EndIs
  <1>4. 0 \in 0 .. f.nSeg
    BY <1>1, TableTyped
  <1>5. StagedPos(0) = EndOf(f.table, 0)
    BY <1>4 DEF StagedPos, Laid
  <1> QED
    BY <1>3, <1>5

LEMMA PiecesInit ==
    ASSUME PiecesAssumption, Init
    PROVE  PiecesInv
  <1>1. PICK f \in Frames : frame = Laid(f)
    BY DEF Init
  <1>2. FrameFacts
    BY <1>1, FrameIs
  <1>3. Fcs \in Nat \ {0} /\ NSeg \in Nat \ {0} /\ Candidates \subseteq Nat \ {0} /\ StagedPos(0) \in Nat
    BY <1>2 DEF FrameFacts
  <1>4. \A t \in Thread : pc[t] \in {"top", "claim"} /\ job[t].grid = 0 /\ job[t].id = 0
    BY DEF Init
  <1>5. \A l \in Label \ {"top", "claim"} : \A g : Busy(l, g) = {}
    BY <1>4 DEF Busy
  <1>6. NewGrid \in GridState
    <2>1. <<>> \in [0 .. 0 - 1 -> Nat] /\ 0 \in Nat
      OBVIOUS
    <2>2. <<>> \in UNION {[0 .. n - 1 -> Nat] : n \in Nat}
      BY <2>1
    <2> QED
      BY <2>2 DEF NewGrid, GridState
  <1>7. TypeOK
    <2>1. \E x \in Frames : frame = Laid(x)
      BY <1>1
    <2>2. grids \in [Candidates -> GridState] /\ slots \in [Seg -> {"pending", "ok", "failed"}]
      BY <1>6 DEF Init
    <2>3. nextStage \in 1 .. NSeg + 1 /\ contig \in 0 .. NSeg
      BY <1>3 DEF Init
    <2>4. pc \in [Thread -> Label]
      BY DEF Init, Label
    <2>5. job \in [Thread -> [grid : Candidates \cup {0}, id : Nat]]
      BY DEF Init
    <2> QED
      BY <2>1, <2>2, <2>3, <2>4, <2>5 DEF Init, TypeOK, Result
  <1>8. Alone
    BY <1>4 DEF Alone
  <1>9. StagingInv
    <2>1. Busy("stage", 0) = {} /\ Cardinality({}) = 0
      BY <1>5, FS_EmptySet DEF Label
    <2>2. \A s \in Seg : ~Finished(s) /\ slots[s] = "pending"
      BY DEF Init, Finished, Seg
    <2>3. 1 \in Seg
      BY <1>3 DEF Seg
    <2> QED
      BY <1>3, <1>4, <2>1, <2>2, <2>3 DEF Init, StagingInv
  <1>10. FaultInv
    BY DEF Init, FaultInv
  <1>11. ASSUME NEW j \in Candidates PROVE GridInv(j)
    <2>1. Busy("validate", j) = {} /\ Cardinality({}) = 0
      BY <1>5, FS_EmptySet DEF Label
    <2>2. grids[j] = [alive |-> TRUE, cut |-> 0, nextValidate |-> 0, validated |-> 0, tops |-> <<>>] /\ contig = 0
      BY DEF Init, NewGrid
    <2>3. NPieces(j) \in Nat /\ StagedPos(0) = 0 /\ \A k \in 0 .. NPieces(j) - 1 : End(j, k) \in Nat \ {0}
      <3>1. Fcs \in Nat \ {0} /\ j \in Nat \ {0}
        BY <1>3
      <3>2. NPieces(j) \in Nat /\ \A k \in 0 .. NPieces(j) - 1 :
                Start(j, k) \in Nat /\ End(j, k) \in Nat /\ Start(j, k) < End(j, k)
        <4>1. NPieces(j) \in Nat \ {0} /\ (\A k \in Nat : Start(j, k) \in Nat /\ End(j, k) \in Nat)
              /\ (\A k \in 0 .. NPieces(j) - 1 : Start(j, k) < End(j, k))
          BY <3>1, GridFacts
        <4> QED
          BY <4>1
      <3>3. StagedPos(0) = 0
        BY <1>1, NoneStaged
      <3> QED
        BY <3>2, <3>3
    <2>4. Inside(j, 0) = {}
      BY <2>3 DEF Inside
    <2>5. \A k \in 1 .. NPieces(j) - 1 : ~(Start(j, k) < 0)
      <3>1. Fcs \in Nat \ {0} /\ j \in Nat \ {0}
        BY <1>3
      <3>2. \A k \in Nat : Start(j, k) \in Nat
        BY <3>1, GridFacts
      <3> QED
        BY <2>3, <3>2
    <2>6. <<>> \in [0 .. 0 - 1 -> Nat]
      OBVIOUS
    <2>7. /\ grids[j].alive /\ grids[j].cut = 0 /\ grids[j].nextValidate = 0 /\ grids[j].validated = 0
          /\ grids[j].tops = <<>> /\ StagedPos(contig) = 0
      BY <2>2, <2>3
    <2>8. 0 .. 0 - 1 = {} /\ 0 <= NPieces(j) /\ 0 + 0 = 0
      BY <2>3
    <2>9. \A k \in 0 .. grids[j].nextValidate - 1 : k \notin Busy("validate", j) => Recorded(j, k)
      BY <2>7, <2>8
    <2>10. grids[j].tops \in [0 .. grids[j].cut - 1 -> Nat]
      BY <2>6, <2>7
    <2>11. Busy("validate", j) \subseteq 0 .. grids[j].nextValidate - 1
      BY <2>1
    <2>12. grids[j].cut = Cardinality(Inside(j, StagedPos(contig)))
      BY <2>1, <2>4, <2>7
    <2>13. grids[j].validated + Cardinality(Busy("validate", j)) = grids[j].nextValidate
      <3>1. Cardinality(Busy("validate", j)) = 0
        BY <2>1, Zenon
      <3> QED
        BY <2>7, <3>1
    <2> QED
      BY <2>5, <2>7, <2>8, <2>9, <2>10, <2>11, <2>12, <2>13 DEF GridInv
  <1>12. WinnerInv /\ VerdictInv /\ ExecInv /\ OutcomeInv
    <2>1. Caller \in Thread /\ pc[Caller] = "top"
      BY DEF Init, Thread
    <2>2. WinnerInv
      <3>1. stagedCount # NSeg
        BY <1>3 DEF Init
      <3> QED
        BY <3>1 DEF Init, WinnerInv
    <2>3. VerdictInv
      BY <2>1 DEF Init, VerdictInv
    <2>4. ExecInv
      BY <1>4, <2>1 DEF Init, ExecInv
    <2>5. OutcomeInv
      BY <2>1 DEF Init, OutcomeInv
    <2> QED
      BY <2>2, <2>3, <2>4, <2>5
  <1> QED
    BY <1>7, <1>8, <1>9, <1>10, <1>11, <1>12 DEF PiecesInv

LEMMA PiecesStep ==
    ASSUME PiecesAssumption, PiecesInv, Next
    PROVE  PiecesInv'
  <1>1. FrameFacts
    BY FrameKnown DEF PiecesInv
  <1>2. Candidates' = Candidates
    BY <1>1, InputsStay, FactsStay
  <1>3. (\A j \in Candidates' : GridInv(j)') /\ WinnerInv'
    BY <1>1, <1>2, GridsStep
  <1> QED
    BY <1>1, <1>3, TypeStep, AloneStep, StagingStep, FaultStep, VerdictStep, ExecStep, OutcomeStep
       DEF PiecesInv

LEMMA PiecesStutter ==
    ASSUME PiecesAssumption, PiecesInv, UNCHANGED vars
    PROVE  PiecesInv'
  <1>1. /\ UNCHANGED <<frame, staging, placeOk, sumOk, phase, aborting, poison, slots, stagedCount,
                       nextStage, stageErrors, contig, grids, winner, allDead, stageFailed>>
        /\ UNCHANGED <<pieces, nextPiece, done, watermarkPiece, absorbNext, execErr, onCv, parked,
                       pc, job, res>>
    BY DEF vars, inputVars, stageVars, gridVars, execVars
  <1>2. FrameFacts
    BY FrameKnown DEF PiecesInv
  <1>3. /\ Seg' = Seg /\ Candidates' = Candidates /\ NSeg' = NSeg /\ Fcs' = Fcs /\ RoundWinner' = RoundWinner
        /\ \A n : StagedPos(n)' = StagedPos(n)
        /\ \A j : NPieces(j)' = NPieces(j) /\ Usable(j)' = Usable(j)
    BY <1>1, <1>2, FactsStay
  <1>4. \A l, g : Busy(l, g)' = Busy(l, g)
    BY <1>1 DEF Busy
  <1>5. TypeOK'
    BY <1>1, <1>3 DEF PiecesInv, TypeOK
  <1>6. Alone' /\ FaultInv'
    BY <1>1, <1>3 DEF PiecesInv, Alone, FaultInv, Panics
  <1>7. StagingInv'
    BY <1>1, <1>3, <1>4 DEF PiecesInv, StagingInv, Finished
  <1>8. ASSUME NEW j \in Candidates PROVE GridInv(j)'
    <2>1. GridInv(j)
      BY DEF PiecesInv
    <2>2. /\ GridInv(j) <=> Standing(grids[j], j, Busy("validate", j), StagedPos(contig),
                                     stageFailed \/ StagedPos(NSeg) # Fcs)
          /\ GridInv(j)' <=> Standing(grids'[j], j, Busy("validate", j)', StagedPos(contig'),
                                      stageFailed' \/ StagedPos(NSeg) # Fcs)
      BY <1>1, <1>2, StandingIs
    <2>3. Busy("validate", j)' = Busy("validate", j)
      BY <1>4
    <2> QED
      BY <1>1, <2>1, <2>2, <2>3
  <1>9. WinnerInv'
    <2>1. \A k : Recorded(winner, k)' = Recorded(winner, k)
      BY <1>1 DEF Recorded, ValidatePiece
    <2>2. Usable(winner)' = Usable(winner) /\ NPieces(winner)' = NPieces(winner)
          /\ FullyWalked(grids[winner], winner)' = FullyWalked(grids[winner], winner)
          /\ StagedPos(contig)' = StagedPos(contig) /\ StagedPos(NSeg)' = StagedPos(NSeg)
      BY <1>1 DEF Usable, NPieces, FullyWalked, StagedPos, OnBlock, ValidatePiece, LagDeep, Start, Fcs, NSeg
    <2> QED
      BY <1>1, <1>3, <2>1, <2>2 DEF PiecesInv, WinnerInv
  <1>10. VerdictInv'
    BY <1>1, <1>3 DEF PiecesInv, VerdictInv, StagedOk
  <1>11. ExecInv'
    <2>1. Watermark' = Watermark /\ NPieces(pieces)' = NPieces(pieces)
      BY <1>1 DEF Watermark, NPieces, Start, Fcs
    <2> QED
      BY <1>1, <1>3, <2>1 DEF PiecesInv, ExecInv
  <1>12. OutcomeInv'
    <2>1. SerialResult' = SerialResult /\ Panics' = Panics /\ StagedOk' = StagedOk
      BY <1>1, <1>3 DEF SerialResult, Panics, StagedOk, StagedPos, NSeg, Fcs
    <2> QED
      BY <1>1, <1>3, <2>1 DEF PiecesInv, OutcomeInv
  <1> QED
    BY <1>3, <1>5, <1>6, <1>7, <1>8, <1>9, <1>10, <1>11, <1>12 DEF PiecesInv

(* A piece reads below its start only what the pieces done have written.    *)
LEMMA PiecesRead ==
    ASSUME PiecesAssumption, PiecesInv
    PROVE  ReadsFinal
  <1>1. FrameFacts
    BY FrameKnown DEF PiecesInv
  <1>2. ASSUME NEW t \in Thread, pc[t] = "exec"
        PROVE  /\ SerialReads(job[t].id) = ValidatePiece(pieces, job[t].id).reads
               /\ SerialReads(job[t].id) \subseteq Final
    <2> DEFINE k == job[t].id
    <2>1. phase = "execute"
      BY <1>2 DEF PiecesInv, ExecInv
    <2>2. /\ pieces = winner /\ pieces \in Candidates /\ NPieces(pieces) \in Nat /\ k \in 0 .. nextPiece - 1
          /\ nextPiece \in Nat /\ nextPiece <= NPieces(pieces) /\ watermarkPiece \in Nat
          /\ watermarkPiece <= NPieces(pieces)
      BY <1>1, <1>2, <2>1, ExecIn
    <2>3. k \in 0 .. NPieces(pieces) - 1
      BY <2>2
    <2>4. Recorded(pieces, k)
      BY <2>1, <2>2, <2>3 DEF PiecesInv, WinnerInv, VerdictInv
    <2>5. ValidatePiece(pieces, k).ok /\ grids[pieces].tops[k] = ValidatePiece(pieces, k).top
      BY <2>4 DEF Recorded
    <2>6. SerialReads(k) = ValidatePiece(pieces, k).reads
      <3>1. \E f \in Frames : frame = Laid(f)
        BY DEF PiecesInv, TypeOK
      <3> HIDE DEF k
      <3> QED
        BY <2>2, <2>3, <2>5, <3>1, ReadsAre
    <2>7. Watermark >= ValidatePiece(pieces, k).top
      BY <1>2, <2>5 DEF PiecesInv, ExecInv
    <2>8. /\ ValidatePiece(pieces, k).top \in Nat
          /\ \A x \in ValidatePiece(pieces, k).reads : x \in Nat /\ x < ValidatePiece(pieces, k).top
      BY <1>1, <2>2, <2>3, <2>5 DEF FrameFacts
    <2>9. Fcs \in Nat \ {0} /\ pieces \in Nat \ {0}
      BY <1>1, <2>2 DEF FrameFacts
    <2>10. Mark(pieces, watermarkPiece) = Watermark
      BY DEF Mark, Watermark
    <2>11. Watermark \in Nat /\ Watermark <= Fcs
      <3> DEFINE n == NPieces(pieces)
      <3>1. watermarkPiece \in 0 .. n /\ n \in 0 .. n /\ watermarkPiece <= n
        BY <2>2
      <3>2. Mark(pieces, n) = Fcs
        BY DEF Mark
      <3>3. Mark(pieces, watermarkPiece) <= Mark(pieces, n) /\ Mark(pieces, watermarkPiece) \in Nat
        BY <2>9, <3>1, MarkGrows
      <3> QED
        BY <2>10, <3>2, <3>3
    <2>12. ASSUME NEW x \in ValidatePiece(pieces, k).reads PROVE x \in Final
      <3>1. x \in Nat /\ x < Watermark
        BY <2>7, <2>8, <2>11
      <3>2. x < Fcs
        BY <2>9, <2>11, <3>1
      <3>3. PICK m \in 0 .. NPieces(pieces) - 1 : Start(pieces, m) <= x /\ x < End(pieces, m)
        BY <2>9, <3>1, <3>2, PieceAt
      <3>4. m \in Nat /\ Start(pieces, m) \in Nat /\ End(pieces, m) \in Nat
        <4>1. m \in Nat
          BY <2>2
        <4> QED
          BY <2>9, <4>1, GridFacts
      <3>5. m < watermarkPiece
        <4> SUFFICES ASSUME watermarkPiece <= m PROVE FALSE
          BY <2>2, <3>4
        <4>1. watermarkPiece # NPieces(pieces)
          BY <2>2, <3>4
        <4>2. Watermark = Start(pieces, watermarkPiece)
          BY <4>1 DEF Watermark
        <4>3. Start(pieces, watermarkPiece) <= Start(pieces, m)
          BY <2>2, <2>9, <3>4, GridFacts
        <4> QED
          BY <2>11, <3>1, <3>3, <3>4, <4>2, <4>3
      <3>6. m \in done
        <4>1. 0 .. watermarkPiece - 1 \subseteq done
          BY <2>1 DEF PiecesInv, ExecInv
        <4>2. m \in 0 .. watermarkPiece - 1
          BY <2>2, <3>4, <3>5
        <4> QED
          BY <4>1, <4>2
      <3>7. x \in Start(pieces, m) .. End(pieces, m) - 1
        BY <3>1, <3>3, <3>4
      <3> QED
        BY <3>6, <3>7 DEF Final
    <2> QED
      BY <2>6, <2>12
  <1>3. 0 .. absorbNext - 1 \subseteq done
    BY DEF PiecesInv, ExecInv
  <1> QED
    BY <1>2, <1>3 DEF ReadsFinal

LEMMA PiecesOutcome ==
    ASSUME PiecesAssumption, PiecesInv
    PROVE  OutcomeIsSerial
  <1> SUFFICES ASSUME pc[Caller] = "returned"
               PROVE  /\ res \in {"ok", "stage", "exec", "place", "size", "sum", "panic"}
                      /\ res = "ok" <=> StagedOk /\ SerialResult = "ok"
                      /\ res \in {"place", "size", "sum"} => res = SerialResult
                      /\ res = "stage" => \E s \in Seg : staging[s] = "err"
                      /\ res = "panic" => Panics
    BY DEF OutcomeIsSerial
  <1>1. FrameFacts
    BY FrameKnown DEF PiecesInv
  <1>2. /\ res \in Result /\ res # "none" /\ res # "aborted"
        /\ res = "ok" => StagedOk /\ SerialResult = "ok"
        /\ res \in {"place", "size", "sum"} => res = SerialResult
        /\ res = "exec" => frame.serial # "ok"
        /\ res = "stage" => \E s \in Seg : staging[s] = "err"
        /\ res = "panic" => Panics
    BY DEF PiecesInv, TypeOK, OutcomeInv
  <1>3. ASSUME StagedOk, SerialResult = "ok" PROVE res = "ok"
    <2>1. frame.serial = "ok"
      <3>1. frame.serial \in {"ok", "err", "panic"}
        BY <1>1 DEF FrameFacts
      <3> QED
        BY <1>3, <3>1 DEF SerialResult
    <2>2. \A i \in DOMAIN frame.table : frame.table[i].exec = "ok"
      BY <1>1, <2>1 DEF FrameFacts
    <2>3. ~Panics /\ ~(\E s \in Seg : staging[s] = "err")
      BY <1>3, <2>2 DEF Panics, StagedOk
    <2> QED
      BY <1>2, <1>3, <2>1, <2>3 DEF Result
  <1> QED
    BY <1>2, <1>3 DEF Result

LEMMA PiecesImply ==
    ASSUME PiecesAssumption, PiecesInv
    PROVE  ReadsFinal /\ VerdictIsRound /\ OutcomeIsSerial
  <1>1. VerdictIsRound
    <2> SUFFICES ASSUME pc[Caller] \in {"verdictTaken", "install"}
                 PROVE  /\ winner = RoundWinner
                        /\ winner # 0 => \A k \in 0 .. NPieces(winner) - 1 :
                                            grids[winner].tops[k] = ValidatePiece(winner, k).top
      BY DEF VerdictIsRound
    <2>1. winner = RoundWinner
      BY DEF PiecesInv, VerdictInv
    <2> QED
      BY <2>1 DEF PiecesInv, WinnerInv, Recorded
  <1> QED
    BY <1>1, PiecesRead, PiecesOutcome

(* The inductive invariant: staging, cutting, walking, the verdict, the     *)
(* pieces that execute and the result agree, whichever thread does what and *)
(* whatever goes wrong (decode_pieces).                                     *)
THEOREM PiecesCorrect ==
    ASSUME PiecesAssumption
    PROVE  Spec => []PiecesInv
  <1>1. Init => PiecesInv
    BY PiecesInit
  <1>2. PiecesInv /\ [Next]_vars => PiecesInv'
    BY PiecesStep, PiecesStutter
  <1> QED
    BY <1>1, <1>2, PTL DEF Spec

(* Parallel pieces read below their starts exactly what in-order execution  *)
(* reads, and only final bytes; the fused verdict is the round form's; the  *)
(* call succeeds exactly when the serial decoder does: for every frame, set *)
(* of workers, job formula, lag and slack (run_exec, try_settle,            *)
(* decode_pieces).                                                          *)
THEOREM PiecesSound ==
    ASSUME PiecesAssumption
    PROVE  Spec => [](ReadsFinal /\ VerdictIsRound /\ OutcomeIsSerial)
  <1>1. PiecesInv => ReadsFinal /\ VerdictIsRound /\ OutcomeIsSerial
    BY PiecesImply
  <1> QED
    BY <1>1, PiecesCorrect, PTL
=============================================================================
