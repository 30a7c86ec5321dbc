---------------------------- MODULE AttesterProofs ----------------------------
(***************************************************************************)
(* Theorem of the rewards attester, for any rewards, deny list, batch and  *)
(* page sizes and any number of faults: wherever the loop is, or would     *)
(* start again, nothing that is still to be attested is behind it.         *)
(*                                                                         *)
(* The inductive invariant, Progress, says why the offset may count        *)
(* failures: the rewards that are taken are the first that are due, so     *)
(* that the failures that were counted are before all that is due.         *)
(***************************************************************************)
EXTENDS RewardsAttester, FiniteSetTheorems, SequenceTheorems, TLAPS

-----------------------------------------------------------------------------
(* The invariant.                                                          *)

Position == [start : Nat, offset : Nat]
Marks == {"dropped", "early", "recounted", "gone"}
Basis == [counted : SUBSET Rewards, excused : SUBSET Rewards, marred : SUBSET Marks]

AttesterOK ==
    /\ known \subseteq Rewards /\ flushed \subseteq disbursed /\ disbursed \subseteq known
    /\ threshold \in [poa : Nat, solana : Nat]
    /\ position \in Position /\ saved \in Position
    /\ queue \subseteq known /\ batch \subseteq known /\ needs \subseteq batch /\ failed \subseteq batch
    /\ settled \subseteq Rewards /\ recent \in Seq(Rewards)
    /\ basis \in Basis /\ savedBasis \in Basis
    /\ hidden \subseteq basis.excused /\ hidden \subseteq savedBasis.excused
    /\ pc # "attesting" => batch = {} /\ needs = {}

\* What was worked through is settled.
WorkedThrough ==
    /\ batch \ needs \subseteq settled /\ failed \subseteq settled
    /\ Elements(recent) \subseteq settled

\* What is still to be attested, whether it is listed already or is to come.
Due(b) ==
    {r \in Rewards \ (settled \cup Denied \cup flushed \cup b.excused) : r \in known \/ ~Ripe(r)}

\* A position is before all that is due, and its offset counts failures that are
\* listed before all that is due.
Ahead(p, b) ==
    /\ b.counted \subseteq After(p.start) /\ p.offset <= Cardinality(b.counted)
    /\ \A r \in Due(b) : /\ Block[r] > p.start
                         /\ \A f \in b.counted : Place[f] < Place[r]

Ways ==
    /\ basis.marred = {} => Ahead(position, basis)
    /\ savedBasis.marred = {} => Ahead(saved, savedBasis)

\* What is due is in work or comes after what is in work, and what is left in the
\* queue comes after the batch (Solana challenges aside).
InWork ==
    basis.marred = {} =>
        /\ \A q \in (queue \cup batch) \ Solana, r \in Due(basis) \ (queue \cup batch) : Place[q] <= Place[r]
        /\ \A q \in batch \ Solana, r \in Due(basis) \cap queue : Place[q] <= Place[r]

Progress == AttesterOK /\ WorkedThrough /\ Ways /\ InWork

-----------------------------------------------------------------------------
(* Sets of rewards.                                                        *)

LEMMA Sizes ==
    ASSUME NEW T \in SUBSET Rewards
    PROVE  /\ IsFiniteSet(T) /\ Cardinality(T) \in Nat
           /\ \A S \in SUBSET T : Cardinality(S) <= Cardinality(T)
<1>1. IsFiniteSet(Rewards)
  BY AttesterAssumption
<1>2. IsFiniteSet(T)
  BY <1>1, FS_Subset
<1>3. Cardinality(T) \in Nat
  BY <1>2, FS_CardinalityType
<1>4. QED
  BY <1>2, <1>3, FS_Subset

\* Of some rewards one is of the highest block.
LEMMA Last ==
    ASSUME NEW S \in SUBSET Rewards, S # {}
    PROVE  \E q \in S : \A r \in S : Block[r] <= Block[q]
<1> DEFINE Above(q) == {r \in S : Block[q] <= Block[r]}
           all == {Above(q) : q \in S}
<1>1. IsFiniteSet(S) /\ \A r \in S : Block[r] \in Nat
  BY Sizes, AttesterAssumption
<1>2. IsWellFoundedOn(StrictSubsetOrdering(S), SUBSET S)
  BY <1>1, FS_StrictSubsetOrderingWellFounded, FS_FiniteSubsetsOfFinite
<1>3. all \subseteq SUBSET S /\ all # {}
  OBVIOUS
<1>4. PICK A \in all : \A B \in all : ~(<<B, A>> \in StrictSubsetOrdering(S))
  <2> HIDE DEF all
  <2>1. QED
    BY <1>2, <1>3, WFMin
<1>5. PICK q \in S : A = Above(q)
  OBVIOUS
<1>6. ASSUME NEW r \in S, Block[q] < Block[r]
      PROVE  FALSE
  <2>1. Above(r) \subseteq Above(q)
    BY <1>1, <1>6
  <2>2. q \in Above(q) /\ q \notin Above(r)
    BY <1>1, <1>6
  <2>3. Above(r) \in all /\ Above(r) \in SUBSET S /\ Above(q) \in SUBSET S
    OBVIOUS
  <2>4. <<Above(r), A>> \in StrictSubsetOrdering(S)
    <3> HIDE DEF Above
    <3>1. QED
      BY <1>5, <2>1, <2>2, <2>3 DEF StrictSubsetOrdering
  <2>5. QED
    BY <1>4, <2>3, <2>4
<1>7. QED
  BY <1>1, <1>6

\* The highest block is that of a reward of the batch.
LEMMA Highest ==
    ASSUME batch \subseteq Rewards, HighestBlock # 0
    PROVE  \E q \in batch \ Solana : Block[q] = HighestBlock
<1> DEFINE blocks == {Block[r] : r \in batch \ Solana}
<1>1. blocks # {}
  BY DEF HighestBlock
<1>2. PICK q \in batch \ Solana : \A r \in batch \ Solana : Block[r] <= Block[q]
  <2>1. batch \ Solana \in SUBSET Rewards /\ batch \ Solana # {}
    BY <1>1
  <2>2. QED
    BY <2>1, Last
<1>3. \E b \in blocks : \A c \in blocks : c <= b
  BY <1>2
<1>4. HighestBlock = CHOOSE b \in blocks : \A c \in blocks : c <= b
  BY <1>1 DEF HighestBlock
<1>5. HighestBlock \in blocks
  BY <1>3, <1>4
<1>6. QED
  BY <1>5

\* It is 0 where the batch has no reward but those of Solana.
LEMMA HighestTyped ==
    ASSUME batch \subseteq Rewards
    PROVE  HighestBlock \in Nat
<1>1. CASE HighestBlock = 0
  BY <1>1
<1>2. CASE HighestBlock # 0
  <2>1. PICK q \in batch \ Solana : Block[q] = HighestBlock
    BY <1>2, Highest
  <2>2. QED
    BY <2>1, AttesterAssumption
<1>3. QED
  BY <1>1, <1>2

\* A failure that is counted is that of a reward of the highest block, and not of Solana.
LEMMA CountedOnes ==
    ASSUME AttesterOK
    PROVE  /\ Counted \subseteq batch \ Solana
           /\ HighestBlock = 0 => Counted = {}
           /\ Cardinality(Counted) \in Nat
<1>1. Counted \subseteq batch /\ batch \subseteq Rewards
  BY DEF AttesterOK, Counted
<1>2. \A c \in Counted : Block[c] = HighestBlock /\ Block[c] # 0
  BY <1>1, AttesterAssumption DEF Counted
<1>3. ASSUME NEW c \in Counted
      PROVE  c \notin Solana
  <2>1. PICK q \in batch \ Solana : Block[q] = HighestBlock
    BY <1>1, <1>2, Highest
  <2>2. q \in Rewards \ Solana /\ Block[q] = Block[c] /\ Block[q] \in Nat
    BY <1>1, <1>2, <2>1, AttesterAssumption
  <2>3. c \in Solana => Block[q] < Block[c]
    BY <2>2, AttesterAssumption
  <2>4. QED
    BY <2>2, <2>3
<1>4. Cardinality(Counted) \in Nat
  BY <1>1, Sizes
<1>5. QED
  BY <1>1, <1>2, <1>3, <1>4

\* A queue of recent rewards gains rewards of the batch only.
LEMMA OrderTyped ==
    ASSUME NEW S \in SUBSET Rewards, NEW t \in Orders(S)
    PROVE  t \in Seq(S)
<1>1. Cardinality(S) \in Nat /\ t \in [1..Cardinality(S) -> S]
  BY Sizes DEF Orders
<1>2. QED
  BY <1>1

\* The queue of recent rewards gains those of the batch, and no others.
LEMMA Recents ==
    ASSUME AttesterOK, NEW t \in Orders(batch)
    PROVE  /\ Trim(recent \o t) \in Seq(Rewards)
           /\ Elements(Trim(recent \o t)) \subseteq Elements(recent) \cup batch
<1> DEFINE s == recent \o t
<1>1. t \in Seq(batch) /\ recent \in Seq(Rewards) /\ batch \in SUBSET Rewards
  BY Sizes, OrderTyped DEF AttesterOK
<1>2. t \in Seq(Rewards)
  BY <1>1
<1>3. s \in Seq(Rewards) /\ Len(s) = Len(recent) + Len(t)
      /\ \A i \in 1..Len(s) : s[i] = IF i <= Len(recent) THEN recent[i] ELSE t[i - Len(recent)]
  BY <1>1, <1>2, ConcatProperties
<1>4. ASSUME NEW i \in 1..Len(s)
      PROVE  s[i] \in Elements(recent) \cup batch
  <2>1. Len(recent) \in Nat /\ Len(t) \in Nat
    BY <1>1, <1>2
  <2>2. CASE i <= Len(recent)
    BY <1>1, <1>3, <2>1, <2>2 DEF Elements
  <2>3. CASE ~(i <= Len(recent))
    <3>1. i - Len(recent) \in 1..Len(t)
      BY <1>3, <2>1, <2>3
    <3>2. t[i - Len(recent)] \in batch
      BY <1>1, <3>1
    <3>3. QED
      BY <1>3, <2>3, <3>2
  <2>4. QED
    BY <2>2, <2>3
<1> HIDE DEF s
<1>5. CASE Len(s) <= CacheSize
  <2>1. Trim(s) = s
    BY <1>5 DEF Trim
  <2>2. Elements(s) \subseteq Elements(recent) \cup batch
    BY <1>3, <1>4 DEF Elements
  <2>3. QED
    BY <1>3, <2>1, <2>2 DEF s
<1>6. CASE ~(Len(s) <= CacheSize)
  <2> DEFINE m == Len(s) - CacheSize + 1
             u == SubSeq(s, m, Len(s))
  <2>1. CacheSize \in Nat /\ Len(s) \in Nat
    BY <1>3, AttesterAssumption
  <2>2. m \in 1..(Len(s) + 1) /\ Len(s) \in m-1..Len(s)
    BY <1>6, <2>1
  <2>3. u \in Seq(Rewards) /\ Len(u) = Len(s) - m + 1
        /\ \A i \in 1..(Len(s) - m + 1) : u[i] = s[m + i - 1]
    <3> HIDE DEF m
    <3>1. u \in Seq(Rewards) /\ Len(u) = (IF m <= Len(s) THEN Len(s) - m + 1 ELSE 0)
          /\ \A i \in 1..(Len(s) - m + 1) : u[i] = s[m + i - 1]
      BY <1>3, <2>1, <2>2, SubSeqProperties
    <3>2. QED
      BY <2>1, <2>2, <3>1
  <2>4. Trim(s) = u
    BY <1>6 DEF Trim
  <2> HIDE DEF u
  <2>5. ASSUME NEW i \in 1..Len(u)
        PROVE  u[i] \in Elements(recent) \cup batch
    <3>1. m + i - 1 \in 1..Len(s) /\ u[i] = s[m + i - 1]
      BY <2>1, <2>2, <2>3
    <3>2. QED
      BY <1>4, <3>1
  <2>6. DOMAIN u = 1..Len(u)
    BY <2>3
  <2>7. Elements(u) \subseteq Elements(recent) \cup batch
    BY <2>5, <2>6 DEF Elements
  <2>8. QED
    BY <2>3, <2>4, <2>7 DEF s
<1>7. QED
  BY <1>5, <1>6
-----------------------------------------------------------------------------
(* The first ones of a set.                                                *)

LEMMA FirstsOf ==
    ASSUME NEW S \in SUBSET Rewards, NEW n \in Nat, NEW T \in Firsts(n, S)
    PROVE  /\ T \in SUBSET S
           /\ Cardinality(T) <= n
           /\ \A t \in T, s \in S \ T : Place[t] <= Place[s]
<1>1. Cardinality(S) \in Nat
  BY Sizes
<1>2. QED
  BY <1>1 DEF Firsts

\* A reward that comes after at least n others is not among the first n.
LEMMA NotSkipped ==
    ASSUME NEW S \in SUBSET Rewards, NEW n \in Nat, NEW T \in Firsts(n, S),
           NEW C \in SUBSET S, n <= Cardinality(C),
           NEW r \in S, \A c \in C : Place[c] < Place[r]
    PROVE  r \notin T
<1> SUFFICES ASSUME r \in T
             PROVE  FALSE
  OBVIOUS
<1>1. T \in SUBSET S /\ T \in SUBSET Rewards /\ C \in SUBSET Rewards /\ Cardinality(T) <= n
      /\ \A t \in T, s \in S \ T : Place[t] <= Place[s]
  BY FirstsOf
<1>2. \A q \in Rewards : Place[q] \in Nat
  BY AttesterAssumption
<1>3. r \notin C
  BY <1>1, <1>2
<1>4. C \subseteq T
  BY <1>1, <1>2
<1>5. C \cup {r} \in SUBSET T
  BY <1>4
<1>6. Cardinality(C \cup {r}) <= Cardinality(T) /\ Cardinality(T) \in Nat
  BY <1>1, <1>5, Sizes
<1>7. Cardinality(C \cup {r}) = Cardinality(C) + 1 /\ Cardinality(C) \in Nat
  BY <1>1, <1>3, Sizes, FS_AddElement
<1>8. QED
  BY <1>1, <1>6, <1>7

\* So many rewards before one are as many as come before it in the list.
LEMMA AheadIsBeyond ==
    ASSUME NEW p, NEW b, AttesterOK, p \in Position, b \in Basis, hidden \subseteq b.excused, Ahead(p, b)
    PROVE  Open(b) \subseteq Beyond(p)
<1> SUFFICES ASSUME NEW r \in Open(b)
             PROVE  r \in Beyond(p)
  OBVIOUS
<1> DEFINE before == {q \in After(p.start) : Place[q] < Place[r]}
<1>1. r \in Due(b) /\ r \in Listed
  BY DEF Open, Due, Listed, AttesterOK
<1>2. r \in After(p.start)
  BY <1>1 DEF Ahead, After
<1>3. b.counted \in SUBSET before
  BY <1>1 DEF Ahead
<1>4. before \in SUBSET Rewards
  BY DEF After, Listed, AttesterOK
<1>5. Cardinality(b.counted) <= Cardinality(before) /\ Cardinality(before) \in Nat
      /\ Cardinality(b.counted) \in Nat
  BY <1>3, <1>4, Sizes
<1>6. p.offset <= Cardinality(b.counted) /\ p.offset \in Nat
  BY DEF Ahead, Position
<1>7. Cardinality(before) >= p.offset
  <2> HIDE DEF before
  <2>1. QED
    BY <1>5, <1>6
<1>8. QED
  BY <1>2, <1>7 DEF Beyond

-----------------------------------------------------------------------------
(* Steps that leave the position and what is in work.                      *)

LEMMA AttesterStarts == AttesterInit => Progress
<1> SUFFICES ASSUME AttesterInit
             PROVE  Progress
  OBVIOUS
<1>1. AttesterOK
  BY DEF AttesterInit, AttesterOK, position0, basis0, Position, Basis
<1>2. WorkedThrough
  BY DEF AttesterInit, WorkedThrough, Elements
<1>3. Ahead(position0, basis0)
  <2>1. \A r \in Rewards : Block[r] > 0
    BY AttesterAssumption
  <2>2. basis0.counted = {} /\ position0.start = 0 /\ position0.offset = 0 /\ Cardinality({}) = 0
    BY FS_EmptySet DEF basis0, position0
  <2>3. QED
    BY <2>1, <2>2 DEF Ahead, Due
<1>4. Ways
  BY <1>3 DEF Ways, AttesterInit
<1>5. InWork
  BY DEF InWork, AttesterInit
<1>6. QED
  BY <1>1, <1>2, <1>4, <1>5 DEF Progress

\* What is due only gets less, and what is counted stays listed.
Shrinks ==
    /\ UNCHANGED <<position, saved, queue, batch>>
    /\ basis'.counted = basis.counted /\ savedBasis'.counted = savedBasis.counted
    /\ basis'.marred = {} => /\ basis.marred = {}
                             /\ Due(basis)' \subseteq Due(basis)
                             /\ basis.counted \cap Listed \subseteq Listed'
    /\ savedBasis'.marred = {} => /\ savedBasis.marred = {}
                                  /\ Due(savedBasis)' \subseteq Due(savedBasis)
                                  /\ savedBasis.counted \cap Listed \subseteq Listed'

LEMMA ShrinkingKeeps ==
    ASSUME Progress, Shrinks
    PROVE  Ways' /\ InWork'
<1>1. ASSUME basis'.marred = {}
      PROVE  Ahead(position, basis)'
  <2>1. Ahead(position, basis) /\ Due(basis)' \subseteq Due(basis)
    BY <1>1 DEF Progress, Ways, Shrinks
  <2>2. basis'.counted \subseteq After(position.start)'
    BY <1>1, <2>1 DEF Shrinks, Ahead, After
  <2>3. QED
    BY <2>1, <2>2 DEF Shrinks, Ahead
<1>2. ASSUME savedBasis'.marred = {}
      PROVE  Ahead(saved, savedBasis)'
  <2>1. Ahead(saved, savedBasis) /\ Due(savedBasis)' \subseteq Due(savedBasis)
    BY <1>2 DEF Progress, Ways, Shrinks
  <2>2. savedBasis'.counted \subseteq After(saved.start)'
    BY <1>2, <2>1 DEF Shrinks, Ahead, After
  <2>3. QED
    BY <2>1, <2>2 DEF Shrinks, Ahead
<1>3. InWork'
  BY DEF Progress, InWork, Shrinks
<1>4. QED
  BY <1>1, <1>2, <1>3 DEF Ways

\* Rewards get old enough, and never too young again.
LEMMA Ripens ==
    ASSUME AttesterOK, Ripen
    PROVE  \A r \in Rewards : Ripe(r) => Ripe(r)'
<1>1. PICK b \in Rewards :
        \/ threshold.poa < Block[b] /\ threshold' = [threshold EXCEPT !.poa = Block[b]]
        \/ threshold.solana < Block[b] /\ threshold' = [threshold EXCEPT !.solana = Block[b]]
  <2>1. PICK b \in Rewards :
          ~Ripe(b) /\ threshold' = IF b \in Solana THEN [threshold EXCEPT !.solana = Block[b]]
                                   ELSE [threshold EXCEPT !.poa = Block[b]]
    BY DEF Ripen
  <2>2. threshold \in [poa : Nat, solana : Nat] /\ Block[b] \in Nat
    BY AttesterAssumption DEF AttesterOK
  <2>3. CASE b \in Solana
    BY <2>1, <2>2, <2>3 DEF Ripe
  <2>4. CASE b \notin Solana
    BY <2>1, <2>2, <2>4 DEF Ripe
  <2>5. QED
    BY <2>3, <2>4
<1>2. threshold \in [poa : Nat, solana : Nat] /\ \A r \in Rewards : Block[r] \in Nat
  BY AttesterAssumption DEF AttesterOK
<1>3. threshold'.poa >= threshold.poa /\ threshold'.solana >= threshold.solana
      /\ threshold' \in [poa : Nat, solana : Nat]
  BY <1>1, <1>2
<1>4. QED
  BY <1>2, <1>3 DEF Ripe

LEMMA NodeKeeps ==
    ASSUME Progress, Ripen \/ (\E r \in Rewards : NodeStep(r))
    PROVE  Shrinks
<1>1. AttesterOK
  BY DEF Progress
<1>2. CASE Ripen
  <2>1. \A r \in Rewards : Ripe(r) => Ripe(r)'
    BY <1>1, <1>2, Ripens
  <2>2. QED
    BY <1>2, <2>1 DEF Ripen, Shrinks, Due, node, local, bases, Listed
<1>3. ASSUME NEW r \in Rewards, NodeStep(r)
      PROVE  Shrinks
  <2>1. CASE Complete(r)
    <3>1. UNCHANGED <<position, saved, queue, batch, settled, flushed, hidden, threshold>>
          /\ known' = known \cup {r} /\ r \notin known
      BY <2>1 DEF Complete, local
    <3>2. Listed \subseteq Listed'
      BY <3>1 DEF Listed
    <3>3. CASE Ripe(r)
      <4>1. basis' = [basis EXCEPT !.excused = @ \cup {r}] /\ savedBasis' = [savedBasis EXCEPT !.excused = @ \cup {r}]
        BY <2>1, <3>3 DEF Complete, Excuse
      <4>2. QED
        BY <1>1, <3>1, <3>2, <4>1 DEF Shrinks, Due, Ripe, AttesterOK, Basis
    <3>4. CASE ~Ripe(r)
      <4>1. UNCHANGED <<basis, savedBasis>>
        BY <2>1, <3>4 DEF Complete, bases
      <4>2. QED
        BY <3>1, <3>2, <3>4, <4>1 DEF Shrinks, Due, Ripe
    <3>5. QED
      BY <3>3, <3>4
  <2>2. CASE DisburseElsewhere(r)
    BY <2>2 DEF DisburseElsewhere, Shrinks, Due, Ripe, Listed, local, bases
  <2>3. CASE Flush(r)
    <3>1. UNCHANGED <<position, saved, queue, batch, settled, known, hidden, threshold>>
          /\ flushed' = flushed \cup {r}
          /\ basis' = Gone(r, basis) /\ savedBasis' = Gone(r, savedBasis)
      BY <2>3 DEF Flush, local, Leaves
    <3>2. Listed' = Listed \ {r}
      BY <3>1 DEF Listed
    <3>3. QED
      BY <1>1, <3>1, <3>2 DEF Shrinks, Due, Ripe, Gone, Mar, AttesterOK, Basis
  <2>4. CASE Hide(r)
    <3>1. UNCHANGED <<position, saved, queue, batch, settled, known, flushed, threshold>>
          /\ hidden' = hidden \cup {r}
          /\ basis' = [Gone(r, basis) EXCEPT !.excused = @ \cup {r}]
          /\ savedBasis' = [Gone(r, savedBasis) EXCEPT !.excused = @ \cup {r}]
      BY <2>4 DEF Hide, local
    <3>2. Listed' = Listed \ {r}
      BY <3>1 DEF Listed
    <3>3. QED
      BY <1>1, <3>1, <3>2 DEF Shrinks, Due, Ripe, Gone, Mar, AttesterOK, Basis
  <2>5. CASE Show(r)
    BY <2>5 DEF Show, Shrinks, Due, Ripe, Listed, local, bases
  <2>6. QED
    BY <1>3, <2>1, <2>2, <2>3, <2>4, <2>5 DEF NodeStep
<1>4. QED
  BY <1>2, <1>3

-----------------------------------------------------------------------------
(* Types.                                                                  *)

LEMMA Marring ==
    ASSUME NEW b \in Basis, NEW marks \in SUBSET Marks
    PROVE  /\ Mar(b, marks) \in Basis
           /\ Mar(b, marks).counted = b.counted /\ Mar(b, marks).excused = b.excused
           /\ Mar(b, marks).marred = b.marred \cup marks
BY DEF Mar, Basis

LEMMA Leaving ==
    ASSUME NEW b \in Basis, NEW r \in Rewards
    PROVE  /\ Gone(r, b) \in Basis
           /\ Gone(r, b).counted = b.counted /\ Gone(r, b).excused = b.excused
<1>1. {"gone"} \in SUBSET Marks
  BY DEF Marks
<1>2. QED
  BY <1>1, Marring DEF Gone

\* What the end of a batch does to what the position rests on.
LEMMA FinishBasis ==
    ASSUME AttesterOK, Finish
    PROVE  /\ basis' \in Basis /\ position' \in Position
           /\ basis'.excused = basis.excused \cup {r \in Rewards : \E f \in Counted : Place[r] = Place[f]}
           /\ basis'.counted = IF SameStart THEN basis.counted \cup Counted ELSE Counted
           /\ basis'.marred = {} => /\ basis.marred = {} /\ Counted \subseteq Listed
                                    /\ SameStart => Counted \cap basis.counted = {}
<1> DEFINE again == {m \in {"recounted"} : SameStart /\ Counted \cap basis.counted # {}}
           left == {m \in {"gone"} : ~(Counted \subseteq Listed)}
           ties == {r \in Rewards : \E f \in Counted : Place[r] = Place[f]}
           all == IF SameStart THEN basis.counted \cup Counted ELSE Counted
<1>1. basis \in Basis /\ position \in Position /\ Counted \in SUBSET Rewards /\ batch \subseteq Rewards
      /\ Cardinality(Counted) \in Nat
  BY CountedOnes DEF AttesterOK
<1>2. /\ again \in SUBSET Marks /\ left \in SUBSET Marks /\ ties \in SUBSET Rewards
      /\ again = {} => ~(SameStart /\ Counted \cap basis.counted # {})
      /\ left = {} => Counted \subseteq Listed
  <2>1. again \in SUBSET Marks /\ left \in SUBSET Marks /\ ties \in SUBSET Rewards
    BY DEF Marks
  <2>2. SameStart /\ Counted \cap basis.counted # {} => "recounted" \in again
    OBVIOUS
  <2>3. ~(Counted \subseteq Listed) => "gone" \in left
    OBVIOUS
  <2>4. QED
    BY <2>1, <2>2, <2>3
<1>3. all \in SUBSET Rewards
  BY <1>1 DEF Basis
<1>4. basis' = [counted |-> all, excused |-> basis.excused \cup ties, marred |-> basis.marred \cup again \cup left]
  BY DEF Finish, NewBasis
<1>5. basis'.counted = all /\ basis'.excused = basis.excused \cup ties
      /\ basis'.marred = basis.marred \cup again \cup left /\ basis' \in Basis
  <2> HIDE DEF all, ties, again, left
  <2>1. QED
    BY <1>1, <1>2, <1>3, <1>4 DEF Basis
<1>6. basis'.marred = {} => basis.marred = {} /\ again = {} /\ left = {}
  BY <1>5
<1>7. HighestBlock \in Nat
  BY <1>1, HighestTyped
<1>8. position' \in Position
  BY <1>1, <1>7 DEF Finish, NewPosition, Position
<1>9. QED
  BY <1>2, <1>5, <1>6, <1>8

LEMMA TypesStep ==
    ASSUME AttesterOK, AttesterNext
    PROVE  AttesterOK'
<1>1. ASSUME Ripen
      PROVE  AttesterOK'
  <2>1. \A r \in Rewards : Block[r] \in Nat
    BY AttesterAssumption
  <2>2. threshold' \in [poa : Nat, solana : Nat]
    BY <1>1, <2>1 DEF Ripen, AttesterOK
  <2>3. QED
    BY <1>1, <2>2 DEF Ripen, AttesterOK, node, local, bases
<1>2. ASSUME NEW r \in Rewards, NodeStep(r)
      PROVE  AttesterOK'
  <2>1. CASE Complete(r)
    <3>1. UNCHANGED bases \/ Excuse(r)
      BY <2>1 DEF Complete
    <3>2. basis' \in Basis /\ savedBasis' \in Basis /\ hidden \subseteq basis'.excused /\ hidden \subseteq savedBasis'.excused
      BY <3>1 DEF AttesterOK, Basis, Excuse, bases
    <3>3. QED
      BY <2>1, <3>2 DEF AttesterOK, Complete, local
  <2>2. CASE DisburseElsewhere(r)
    BY <2>2 DEF AttesterOK, DisburseElsewhere, local, bases
  <2>3. CASE Flush(r)
    <3>1. basis' \in Basis /\ savedBasis' \in Basis
          /\ basis'.excused = basis.excused /\ savedBasis'.excused = savedBasis.excused
      BY <2>3, Leaving DEF AttesterOK, Flush, Leaves
    <3>2. QED
      BY <2>3, <3>1 DEF AttesterOK, Flush, local
  <2>4. CASE Hide(r)
    <3>1. basis' \in Basis /\ savedBasis' \in Basis
          /\ basis'.excused = basis.excused \cup {r} /\ savedBasis'.excused = savedBasis.excused \cup {r}
      <4>1. Gone(r, basis) \in Basis /\ Gone(r, savedBasis) \in Basis
            /\ Gone(r, basis).excused = basis.excused /\ Gone(r, savedBasis).excused = savedBasis.excused
        BY Leaving DEF AttesterOK
      <4>2. basis' = [Gone(r, basis) EXCEPT !.excused = @ \cup {r}]
            /\ savedBasis' = [Gone(r, savedBasis) EXCEPT !.excused = @ \cup {r}]
        BY <2>4 DEF Hide
      <4> HIDE DEF Gone
      <4>3. QED
        BY <4>1, <4>2 DEF Basis
    <3>2. QED
      BY <2>4, <3>1 DEF AttesterOK, Hide, local
  <2>5. CASE Show(r)
    BY <2>5 DEF AttesterOK, Show, local, bases
  <2>6. QED
    BY <1>2, <2>1, <2>2, <2>3, <2>4, <2>5 DEF NodeStep
<1>3. ASSUME Refill \/ RefillThrows
      PROVE  AttesterOK'
  <2>1. queue' \subseteq known
    <3>1. PICK page \in Pages(position) : queue' \subseteq page
      BY <1>3 DEF Refill, RefillThrows, Allowed
    <3>2. page \subseteq known
      BY <3>1 DEF Pages, Firsts, After, Listed
    <3>3. QED
      BY <3>1, <3>2
  <2>2. basis' \in Basis /\ basis'.excused = basis.excused
    <3>1. basis' \in {basis, Mar(basis, {"early"})} /\ {"early"} \in SUBSET Marks
      BY <1>3 DEF Refill, RefillThrows, bases, Marks
    <3>2. QED
      BY <3>1, Marring DEF AttesterOK
  <2>3. QED
    BY <1>3, <2>1, <2>2 DEF AttesterOK, Refill, RefillThrows, node, bases
<1>4. ASSUME Take
      PROVE  AttesterOK'
  BY <1>4 DEF AttesterOK, Take, Firsts, node, bases
<1>5. ASSUME Attest
      PROVE  AttesterOK'
  <2>1. PICK result \in [needs -> {"success", "already", "rejected", "error"}] :
          /\ disbursed' = disbursed \cup {r \in needs : result[r] = "success"}
          /\ failed' = failed \cup NoRetry(result)
          /\ needs' = NeedsRetry(result)
    BY <1>5 DEF Attest
  <2>2. needs' \subseteq needs /\ failed' \subseteq failed \cup needs /\ disbursed' \subseteq disbursed \cup needs
        /\ disbursed \subseteq disbursed'
    BY <2>1 DEF NoRetry, NeedsRetry
  <2>3. QED
    BY <1>5, <2>2 DEF AttesterOK, Attest, bases
<1>6. ASSUME Finish
      PROVE  AttesterOK'
  <2>1. basis' \in Basis /\ position' \in Position /\ basis.excused \subseteq basis'.excused
    BY <1>6, FinishBasis
  <2>2. recent' \in Seq(Rewards)
    BY <1>6, Recents DEF Finish
  <2>3. QED
    BY <1>6, <2>1, <2>2 DEF AttesterOK, Finish, node
<1>7. ASSUME Save \/ SaveFails
      PROVE  AttesterOK'
  BY <1>7 DEF AttesterOK, Save, SaveFails, node, local, bases
<1>8. ASSUME NEW block \in Overrides, Override(block)
      PROVE  AttesterOK'
  <2>1. position' \in Position
    BY <1>8, AttesterAssumption DEF Override, Position
  <2>2. hidden \subseteq Rewards
    BY DEF AttesterOK, Basis
  <2>3. basis' \in Basis /\ hidden \subseteq basis'.excused
    BY <1>8, <2>2 DEF Override, Basis, basis0
  <2>4. QED
    BY <1>8, <2>1, <2>3 DEF AttesterOK, Override, node
<1>9. ASSUME Throw \/ Restart
      PROVE  AttesterOK'
  <2>1. CASE Throw
    <3>1. basis' = Mar(basis, {"dropped"}) /\ {"dropped"} \in SUBSET Marks
      BY <2>1 DEF Throw, Marks
    <3>2. basis' \in Basis /\ basis'.excused = basis.excused
      BY <3>1, Marring DEF AttesterOK
    <3>3. QED
      BY <2>1, <3>2 DEF AttesterOK, Throw, Idle, node
  <2>2. CASE Restart
    BY <2>2 DEF AttesterOK, Restart, Idle, node
  <2>3. QED
    BY <1>9, <2>1, <2>2
<1>10. QED
  BY <1>1, <1>2, <1>3, <1>4, <1>5, <1>6, <1>7, <1>8, <1>9 DEF AttesterNext, LoopStep

LEMMA WorkedStep ==
    ASSUME AttesterOK, WorkedThrough, AttesterNext
    PROVE  WorkedThrough'
<1>1. ASSUME Ripen \/ (\E r \in Rewards : NodeStep(r)) \/ Refill \/ RefillThrows \/ Save \/ SaveFails
      PROVE  UNCHANGED <<batch, needs, failed, recent, settled>>
  BY <1>1 DEF Ripen, NodeStep, Complete, DisburseElsewhere, Flush, Hide, Show, Refill, RefillThrows,
              Save, SaveFails, local
<1>2. ASSUME Take
      PROVE  WorkedThrough'
  BY <1>2 DEF WorkedThrough, Take
<1>3. ASSUME Attest
      PROVE  WorkedThrough'
  <2>1. PICK result \in [needs -> {"success", "already", "rejected", "error"}] :
          /\ failed' = failed \cup NoRetry(result)
          /\ needs' = NeedsRetry(result)
    BY <1>3 DEF Attest
  <2>2. NoRetry(result) \subseteq needs \ needs'
    BY <2>1 DEF NoRetry, NeedsRetry
  <2>3. QED
    BY <1>3, <2>1, <2>2 DEF WorkedThrough, Attest
<1>4. ASSUME Finish
      PROVE  WorkedThrough'
  BY <1>4, Recents DEF WorkedThrough, Finish
<1>5. ASSUME \/ Throw \/ Restart \/ \E block \in Overrides : Override(block)
      PROVE  WorkedThrough'
  BY <1>5 DEF WorkedThrough, Throw, Restart, Override, Idle, Elements
<1>6. QED
  BY <1>1, <1>2, <1>3, <1>4, <1>5 DEF AttesterNext, LoopStep, WorkedThrough

-----------------------------------------------------------------------------
(* Steps of the loop.                                                      *)

\* What is due and old enough is listed after the position, and the offset does
\* not skip it: it is on the page or comes after it.
LEMMA PageIsFirst ==
    ASSUME AttesterOK, Ahead(position, basis), NEW page \in Pages(position),
           NEW q \in page, NEW r \in Due(basis), Ripe(r), r \notin page
    PROVE  Place[q] <= Place[r]
<1> DEFINE after == After(position.start)
<1>1. PICK skipped \in Firsts(position.offset, after) : page \in Firsts(PageLimit, after \ skipped)
  BY DEF Pages
<1>2. r \in after
  <2>1. r \in Listed
    BY DEF Due, Listed, AttesterOK
  <2>2. QED
    BY <2>1 DEF Ahead, After
<1>3. after \in SUBSET Rewards /\ basis.counted \in SUBSET after
      /\ position.offset \in Nat /\ position.offset <= Cardinality(basis.counted)
      /\ \A f \in basis.counted : Place[f] < Place[r]
  BY DEF Ahead, After, Listed, AttesterOK, Position
<1> HIDE DEF after
<1>4. r \notin skipped
  BY <1>1, <1>2, <1>3, NotSkipped
<1>5. r \in (after \ skipped) \ page /\ after \ skipped \in SUBSET Rewards
  BY <1>2, <1>3, <1>4
<1>6. PageLimit \in Nat
  BY AttesterAssumption
<1>7. QED
  BY <1>1, <1>5, <1>6, FirstsOf

\* A queue that is old enough and was allowed of a page is the first that is due.
LEMMA FilledInOrder ==
    ASSUME AttesterOK, WorkedThrough, Ahead(position, basis), NEW page \in Pages(position),
           NEW q \in Allowed(page) \ Solana, Ripe(q),
           NEW r \in Due(basis), ~(r \in Allowed(page) /\ Ripe(r))
    PROVE  Place[q] <= Place[r]
<1>1. q \in page /\ q \in Rewards \ Solana /\ r \in Rewards
  BY DEF Allowed, Pages, Firsts, After, Listed, AttesterOK, Due
<1>2. Place[q] \in Nat /\ Place[r] \in Nat /\ Block[q] \in Nat /\ Block[r] \in Nat
  BY <1>1, AttesterAssumption
<1>3. CASE ~Ripe(r)
  <2>1. CASE r \in Solana
    BY <1>1, <1>2, <2>1, AttesterAssumption
  <2>2. CASE r \notin Solana
    <3>1. Block[q] <= threshold.poa /\ ~(Block[r] <= threshold.poa) /\ threshold.poa \in Nat
      BY <1>1, <1>3, <2>2 DEF Ripe, AttesterOK
    <3>2. Block[q] < Block[r]
      BY <1>2, <3>1
    <3>3. QED
      BY <1>1, <1>2, <3>2, AttesterAssumption
  <2>3. QED
    BY <2>1, <2>2
<1>4. CASE Ripe(r)
  <2>1. r \notin Denied \cup Elements(recent)
    BY DEF Due, WorkedThrough
  <2>2. r \notin page
    BY <1>4, <2>1 DEF Allowed
  <2>3. QED
    BY <1>1, <1>4, <2>2, PageIsFirst
<1>5. QED
  BY <1>3, <1>4

LEMMA RefillKeeps ==
    ASSUME Progress, Refill \/ RefillThrows
    PROVE  Ways' /\ InWork'
<1>1. PICK page \in Pages(position) :
        basis'.marred = {} => basis' = basis /\ queue' = {r \in Allowed(page) : Ripe(r)}
  <2>1. CASE Refill
    BY <2>1 DEF Refill, bases
  <2>2. CASE RefillThrows
    <3>1. PICK page \in Pages(position) : queue' = Allowed(page)
      BY <2>2 DEF RefillThrows
    <3>2. CASE \A r \in queue' : Ripe(r)
      <4>1. basis' = basis /\ queue' = {r \in Allowed(page) : Ripe(r)}
        BY <2>2, <3>1, <3>2 DEF RefillThrows
      <4>2. QED
        BY <3>1, <4>1
    <3>3. CASE ~(\A r \in queue' : Ripe(r))
      <4>1. basis' = Mar(basis, {"early"}) /\ {"early"} \in SUBSET Marks
        BY <2>2, <3>3 DEF RefillThrows, Marks
      <4>2. basis \in Basis
        BY DEF Progress, AttesterOK
      <4>3. Mar(basis, {"early"}).marred = basis.marred \cup {"early"}
        BY <4>1, <4>2, Marring
      <4>4. basis'.marred # {}
        BY <4>1, <4>3
      <4>5. QED
        BY <3>1, <4>4
    <3>4. QED
      BY <3>2, <3>3
  <2>3. QED
    BY <2>1, <2>2
<1>2. batch = {} /\ batch' = {}
  BY DEF Refill, RefillThrows, Progress, AttesterOK
<1>3. UNCHANGED <<position, saved, savedBasis, known, hidden, flushed, settled, threshold>>
  BY DEF Refill, RefillThrows, node, bases
<1>4. Due(savedBasis)' = Due(savedBasis) /\ Listed' = Listed
  BY <1>3 DEF Due, Ripe, Listed
<1>5. savedBasis'.marred = {} => Ahead(saved, savedBasis)'
  BY <1>3, <1>4 DEF Progress, Ways, Ahead, After
<1>6. ASSUME basis'.marred = {}
      PROVE  Ahead(position, basis)' /\ InWork'
  <2>1. basis' = basis /\ queue' = {r \in Allowed(page) : Ripe(r)}
    BY <1>1, <1>6
  <2>2. Due(basis)' = Due(basis)
    BY <1>3, <2>1 DEF Due, Ripe
  <2>3. Ahead(position, basis)
    BY <1>6, <2>1 DEF Progress, Ways
  <2>4. Ahead(position, basis)'
    BY <1>3, <1>4, <2>1, <2>2, <2>3 DEF Ahead, After
  <2>5. \A q \in queue' \ Solana, r \in Due(basis) \ queue' : Place[q] <= Place[r]
    BY <2>1, <2>3, FilledInOrder DEF Progress
  <2>6. QED
    BY <1>2, <2>2, <2>4, <2>5 DEF InWork
<1>7. QED
  BY <1>5, <1>6 DEF Ways, InWork

LEMMA TakeKeeps ==
    ASSUME Progress, Take
    PROVE  Ways' /\ InWork'
<1>1. UNCHANGED <<position, saved, basis, savedBasis, known, hidden, flushed, settled, threshold>>
  BY DEF Take, node, bases
<1>2. Due(basis)' = Due(basis) /\ Due(savedBasis)' = Due(savedBasis) /\ Listed' = Listed
  BY <1>1 DEF Due, Ripe, Listed
<1>3. Ways'
  BY <1>1, <1>2 DEF Progress, Ways, Ahead, After
<1>4. /\ batch = {} /\ queue \in SUBSET Rewards
      /\ batch' \in Firsts(BatchSize, queue) /\ queue' = queue \ batch'
  BY DEF Take, Progress, AttesterOK
<1>5. batch' \in SUBSET queue /\ \A q \in batch', r \in queue \ batch' : Place[q] <= Place[r]
  BY <1>4, FirstsOf, AttesterAssumption
<1>6. InWork'
  BY <1>1, <1>2, <1>4, <1>5 DEF Progress, InWork
<1>7. QED
  BY <1>3, <1>6

LEMMA AttestKeeps ==
    ASSUME Progress, Attest
    PROVE  Ways' /\ InWork'
<1>1. settled \subseteq settled'
      /\ UNCHANGED <<position, saved, queue, batch, basis, savedBasis, known, hidden, flushed, threshold>>
  BY DEF Attest, bases
<1>2. Shrinks
  BY <1>1 DEF Shrinks, Due, Ripe, Listed
<1>3. QED
  BY <1>2, ShrinkingKeeps

\* The failures of a batch are before all that is due after it.
LEMMA BatchBeforeDue ==
    ASSUME Progress, Finish, basis'.marred = {}, NEW r \in Due(basis)'
    PROVE  /\ r \in Due(basis) \ batch
           /\ \A q \in batch \ Solana : Place[q] <= Place[r]
           /\ \A f \in Counted : Place[f] < Place[r]
           /\ HighestBlock # 0 => HighestBlock <= Block[r]
<1>1. /\ UNCHANGED <<known, hidden, flushed, settled, threshold, queue>>
      /\ needs = {}
  BY DEF Finish, node
<1>2. /\ basis'.excused = basis.excused \cup {q \in Rewards : \E f \in Counted : Place[q] = Place[f]}
      /\ basis.marred = {}
  BY FinishBasis DEF Progress
<1>3. r \in Due(basis) /\ r \in Rewards /\ \A f \in Counted : Place[r] # Place[f]
  BY <1>1, <1>2 DEF Due, Ripe
<1>4. r \notin batch
  BY <1>1, <1>3 DEF Progress, WorkedThrough, Due
<1>5. \A q \in batch \ Solana : Place[q] <= Place[r]
  BY <1>2, <1>3, <1>4 DEF Progress, InWork
<1>6. Counted \subseteq batch \ Solana /\ batch \subseteq Rewards
  BY CountedOnes DEF Progress, AttesterOK
<1>7. \A f \in Counted : Place[f] < Place[r]
  <2>1. \A q \in Rewards : Place[q] \in Nat
    BY AttesterAssumption
  <2>2. QED
    BY <1>3, <1>5, <1>6, <2>1
<1>8. ASSUME HighestBlock # 0
      PROVE  HighestBlock <= Block[r]
  <2>1. PICK q \in batch \ Solana : Block[q] = HighestBlock
    BY <1>6, <1>8, Highest
  <2>2. Place[q] <= Place[r] /\ Place[q] \in Nat /\ Place[r] \in Nat /\ Block[q] \in Nat /\ Block[r] \in Nat
    BY <1>3, <1>5, <1>6, <2>1, AttesterAssumption
  <2>3. ~(Block[r] < Block[q])
    BY <1>3, <1>6, <2>1, <2>2, AttesterAssumption
  <2>4. QED
    BY <2>1, <2>2, <2>3
<1>9. QED
  BY <1>3, <1>4, <1>5, <1>7, <1>8

\* The new position is ahead of them.
LEMMA FinishAhead ==
    ASSUME Progress, Finish, basis'.marred = {}
    PROVE  Ahead(position, basis)'
<1>1. /\ basis'.counted = IF SameStart THEN basis.counted \cup Counted ELSE Counted
      /\ basis.marred = {} /\ Counted \subseteq Listed
      /\ SameStart => Counted \cap basis.counted = {}
      /\ position' = NewPosition
  BY FinishBasis DEF Progress, Finish
<1>2. Ahead(position, basis)
  BY <1>1 DEF Progress, Ways
<1>3. Listed' = Listed
  BY DEF Finish, node, Listed
<1>4. /\ HighestBlock \in Nat /\ Cardinality(Counted) \in Nat
      /\ HighestBlock = 0 => Counted = {}
      /\ Counted \in SUBSET Rewards /\ basis.counted \in SUBSET Rewards
      /\ position.start \in Nat /\ position.offset \in Nat
      /\ \A f \in Counted : Block[f] = HighestBlock
  BY HighestTyped, CountedOnes DEF Progress, AttesterOK, Basis, Position, Counted
<1>5. \A r \in Due(basis)' : /\ r \in Due(basis) /\ r \in Rewards
                             /\ \A f \in Counted : Place[f] < Place[r]
                             /\ HighestBlock # 0 => HighestBlock <= Block[r]
  BY BatchBeforeDue DEF Due
<1>6. \A r \in Rewards : Block[r] \in Nat
  BY AttesterAssumption
<1>7. CASE SameStart
  <2>1. /\ position'.start = HighestBlock - 1 /\ position'.start = position.start
        /\ position'.offset = position.offset + Cardinality(Counted)
        /\ basis'.counted = basis.counted \cup Counted
    BY <1>1, <1>7 DEF NewPosition, SameStart
  <2>2. Cardinality(basis.counted \cup Counted) = Cardinality(basis.counted) + Cardinality(Counted)
    <3>1. IsFiniteSet(basis.counted) /\ IsFiniteSet(Counted) /\ Cardinality(basis.counted) \in Nat
      BY <1>4, Sizes
    <3>2. basis.counted \cap Counted = {} /\ Cardinality({}) = 0
      BY <1>1, <1>7, FS_EmptySet
    <3>3. Cardinality(basis.counted \cup Counted)
            = Cardinality(basis.counted) + Cardinality(Counted) - Cardinality(basis.counted \cap Counted)
      BY <3>1, FS_Union
    <3>4. QED
      BY <1>4, <3>1, <3>2, <3>3
  <2>3. position'.offset <= Cardinality(basis'.counted)
    <3>1. Cardinality(basis.counted) \in Nat /\ position.offset <= Cardinality(basis.counted)
      BY <1>2, <1>4, Sizes DEF Ahead
    <3>2. QED
      BY <1>4, <2>1, <2>2, <3>1
  <2>4. basis'.counted \subseteq {r \in Listed : Block[r] > position'.start}
    BY <1>1, <1>2, <1>4, <2>1 DEF Ahead, After
  <2>5. \A r \in Due(basis)' : Block[r] > position'.start /\ \A f \in basis'.counted : Place[f] < Place[r]
    BY <1>2, <1>5, <2>1 DEF Ahead
  <2>6. QED
    BY <1>3, <2>3, <2>4, <2>5 DEF Ahead, After
<1>8. CASE ~SameStart
  <2>1. position'.offset = Cardinality(Counted) /\ basis'.counted = Counted
        /\ position'.start = IF HighestBlock # 0 THEN HighestBlock - 1 ELSE position.start
    BY <1>1, <1>8 DEF NewPosition
  <2>2. basis'.counted \subseteq {r \in Listed : Block[r] > position'.start}
    BY <1>1, <1>4, <2>1
  <2>3. \A r \in Due(basis)' : Block[r] > position'.start /\ \A f \in basis'.counted : Place[f] < Place[r]
    BY <1>2, <1>4, <1>5, <1>6, <2>1 DEF Ahead
  <2>4. QED
    BY <1>3, <1>4, <2>1, <2>2, <2>3 DEF Ahead, After
<1>9. QED
  BY <1>7, <1>8

LEMMA FinishKeeps ==
    ASSUME Progress, Finish
    PROVE  Ways' /\ InWork'
<1>1. UNCHANGED <<saved, savedBasis, queue, known, hidden, flushed, settled, threshold>> /\ batch' = {}
  BY DEF Finish, node
<1>2. Due(savedBasis)' = Due(savedBasis) /\ Listed' = Listed
  BY <1>1 DEF Due, Ripe, Listed
<1>3. Ways'
  BY <1>1, <1>2, FinishAhead DEF Progress, Ways, Ahead, After
<1>4. InWork'
  <2>1. basis'.marred = {} => basis.marred = {}
    BY FinishBasis DEF Progress
  <2>2. basis'.marred = {} => \A r \in Due(basis)' : r \in Due(basis) \ batch
    BY BatchBeforeDue
  <2>3. QED
    BY <1>1, <2>1, <2>2 DEF Progress, InWork
<1>5. QED
  BY <1>3, <1>4

LEMMA SaveKeeps ==
    ASSUME Progress, Save \/ SaveFails
    PROVE  Ways' /\ InWork'
<1>1. UNCHANGED <<position, basis, queue, batch, known, hidden, flushed, settled, threshold>>
      /\ <<saved', savedBasis'>> \in {<<saved, savedBasis>>, <<position, basis>>}
  BY DEF Save, SaveFails, node, local, bases
<1>2. Due(basis)' = Due(basis) /\ Listed' = Listed
      /\ Due(savedBasis)' = IF savedBasis' = savedBasis THEN Due(savedBasis) ELSE Due(basis)
  BY <1>1 DEF Due, Ripe, Listed
<1>3. InWork'
  BY <1>1, <1>2 DEF Progress, InWork
<1>4. basis'.marred = {} => Ahead(position, basis)'
  BY <1>1, <1>2 DEF Progress, Ways, Ahead, After
<1>5. CASE saved' = saved /\ savedBasis' = savedBasis
  <2>1. savedBasis'.marred = {} => Ahead(saved, savedBasis)'
    BY <1>1, <1>2, <1>5 DEF Progress, Ways, Ahead, After
  <2>2. QED
    BY <1>3, <1>4, <2>1 DEF Ways
<1>6. CASE saved' = position /\ savedBasis' = basis
  <2>1. Due(savedBasis)' = Due(basis)
    BY <1>1, <1>6 DEF Due, Ripe
  <2>2. savedBasis'.marred = {} => Ahead(saved, savedBasis)'
    BY <1>1, <1>2, <1>6, <2>1 DEF Progress, Ways, Ahead, After
  <2>3. QED
    BY <1>3, <1>4, <2>2 DEF Ways
<1>7. QED
  BY <1>1, <1>5, <1>6

LEMMA BreakKeeps ==
    ASSUME Progress, AttesterOK', \/ Throw \/ Restart \/ \E block \in Overrides : Override(block)
    PROVE  Ways' /\ InWork'
<1>1. UNCHANGED <<saved, savedBasis, known, hidden, flushed, settled, threshold>>
  BY DEF Throw, Restart, Override, node
<1>2. Due(savedBasis)' = Due(savedBasis) /\ Listed' = Listed
  BY <1>1 DEF Due, Ripe, Listed
<1>3. savedBasis'.marred = {} => Ahead(saved, savedBasis)'
  BY <1>1, <1>2 DEF Progress, Ways, Ahead, After
<1>4. CASE Throw
  <2>1. basis' = Mar(basis, {"dropped"}) /\ {"dropped"} \in SUBSET Marks
    BY <1>4 DEF Throw, Marks
  <2>2. basis \in Basis
    BY DEF Progress, AttesterOK
  <2>3. Mar(basis, {"dropped"}).marred = basis.marred \cup {"dropped"}
    BY <2>1, <2>2, Marring
  <2>4. basis'.marred # {}
    BY <2>1, <2>3
  <2>5. QED
    BY <1>3, <2>4 DEF Ways, InWork
<1>5. CASE Restart
  <2>1. position' = saved /\ basis' = savedBasis /\ queue' = {} /\ batch' = {}
    BY <1>5 DEF Restart, Idle
  <2>2. Due(basis)' = Due(savedBasis)
    BY <1>1, <2>1 DEF Due, Ripe
  <2>3. basis'.marred = {} => Ahead(position, basis)'
    BY <1>2, <2>1, <2>2 DEF Progress, Ways, Ahead, After
  <2>4. QED
    BY <1>3, <2>1, <2>3 DEF Ways, InWork
<1>6. ASSUME NEW block \in Overrides, Override(block)
      PROVE  Ways' /\ InWork'
  <2>1. /\ position' = [start |-> block, offset |-> 0] /\ queue' = {} /\ batch' = {}
        /\ basis' = [basis0 EXCEPT !.excused = hidden \cup {r \in Rewards : Block[r] <= block}]
    BY <1>6 DEF Override, Progress, AttesterOK
  <2>2. basis'.counted = {} /\ position'.offset <= Cardinality({})
    BY <2>1, FS_EmptySet DEF basis0
  <2>3. \A r \in Due(basis)' : Block[r] > position'.start
    <3>1. block \in Nat /\ \A r \in Rewards : Block[r] \in Nat
      BY AttesterAssumption
    <3>2. basis'.excused = hidden \cup {r \in Rewards : Block[r] <= block} /\ position'.start = block
      BY <2>1 DEF basis0
    <3>3. QED
      BY <3>1, <3>2 DEF Due
  <2>4. Ahead(position, basis)'
    BY <2>2, <2>3 DEF Ahead
  <2>5. QED
    BY <1>3, <2>1, <2>4 DEF Ways, InWork
<1>7. QED
  BY <1>4, <1>5, <1>6

-----------------------------------------------------------------------------
(* The theorem.                                                            *)

LEMMA AttesterSteps == Progress /\ [AttesterNext]_vars => Progress'
<1> SUFFICES ASSUME Progress, [AttesterNext]_vars
             PROVE  Progress'
  OBVIOUS
<1>1. CASE UNCHANGED vars
  BY <1>1 DEF Progress, AttesterOK, WorkedThrough, Ways, InWork, Ahead, Due, Ripe, After, Listed, Elements,
              vars, node, local, bases
<1>2. CASE AttesterNext
  <2>1. AttesterOK' /\ WorkedThrough'
    BY <1>2, TypesStep, WorkedStep DEF Progress
  <2>2. CASE Ripen \/ \E r \in Rewards : NodeStep(r)
    BY <2>1, <2>2, NodeKeeps, ShrinkingKeeps DEF Progress
  <2>3. CASE Refill \/ RefillThrows
    BY <2>1, <2>3, RefillKeeps DEF Progress
  <2>4. CASE Take
    BY <2>1, <2>4, TakeKeeps DEF Progress
  <2>5. CASE Attest
    BY <2>1, <2>5, AttestKeeps DEF Progress
  <2>6. CASE Finish
    BY <2>1, <2>6, FinishKeeps DEF Progress
  <2>7. CASE Save \/ SaveFails
    BY <2>1, <2>7, SaveKeeps DEF Progress
  <2>8. CASE \/ Throw \/ Restart \/ \E block \in Overrides : Override(block)
    BY <2>1, <2>8, BreakKeeps DEF Progress
  <2>9. QED
    BY <1>2, <2>2, <2>3, <2>4, <2>5, <2>6, <2>7, <2>8 DEF AttesterNext, LoopStep
<1>3. QED
  BY <1>1, <1>2

LEMMA ProgressInvariant == AttesterSpec => []Progress
<1>1. AttesterInit => Progress
  BY AttesterStarts
<1>2. Progress /\ [AttesterNext]_vars => Progress'
  BY AttesterSteps
<1>3. QED
  BY <1>1, <1>2, PTL DEF AttesterSpec

\* The loop moves past rewards that are rejected, which the discovery node lists for
\* ever, "so we have to move past them" (rewardsAttester.ts), and past nothing else:
\* from where it is, and from where it would start again, each reward that was not
\* attested yet, if it is not denied, is still ahead, however rewards that tie are
\* ordered.  This excepts what an override passed, what was listed late or hidden
\* for a time, what ties with a failure, and all after a batch was dropped or taken
\* early, or a failure was counted again or left the list.
THEOREM NothingSkipped == AttesterSpec => []NothingPassedOver
<1>1. ASSUME Progress
      PROVE  NothingPassedOver
  <2>1. basis.marred = {} => Open(basis) \subseteq Beyond(position)
    BY <1>1, AheadIsBeyond DEF Progress, AttesterOK, Ways
  <2>2. savedBasis.marred = {} => Open(savedBasis) \subseteq Beyond(saved)
    BY <1>1, AheadIsBeyond DEF Progress, AttesterOK, Ways
  <2>3. QED
    BY <2>1, <2>2 DEF NothingPassedOver
<1>2. QED
  BY <1>1, ProgressInvariant, PTL
=============================================================================
