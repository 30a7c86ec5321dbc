---------------------------- MODULE PlaybackProofs ----------------------------
(***************************************************************************)
(* For all tracks, lists and bounds: the shuffled queue is always the      *)
(* original one along a permutation, the position is always in the queue,  *)
(* and playback implements PlayOrder.                                      *)
(*                                                                         *)
(* The inductive invariant is QueueInv: Mirrored and InQueue together,     *)
(* with Mirrored said entry by entry.  Neither is inductive alone: when    *)
(* shuffle is turned off, the position is read from the permutation.       *)
(***************************************************************************)
EXTENDS Playback, SequenceTheorems, TLAPS

-----------------------------------------------------------------------------
(* Sequences and permutations.                                             *)

\* A function on 1..n is a sequence of length n.
LEMMA FunctionIsSeq ==
    ASSUME NEW S, NEW n \in Nat, NEW s \in [1..n -> S]
    PROVE  s \in Seq(S) /\ Len(s) = n /\ DOMAIN s = 1..n
<1>1. s \in Seq(S) OBVIOUS
<1>2. QED BY <1>1, LenProperties

\* InsertAt of sequences over S is one.
LEMMA InsertedSeq ==
    ASSUME NEW S, NEW s \in Seq(S), NEW t \in Seq(S), NEW at \in 1..(Len(s) + 1)
    PROVE  /\ Order!InsertAt(s, at, t) \in Seq(S)
           /\ Len(Order!InsertAt(s, at, t)) = Len(s) + Len(t)
<1> DEFINE u == Order!InsertAt(s, at, t)
<1>1. /\ Len(s) \in Nat /\ Len(t) \in Nat
      /\ \A i \in 1..Len(s) : s[i] \in S
      /\ \A i \in 1..Len(t) : t[i] \in S
  BY LenProperties
<1>2. u \in [1..(Len(s) + Len(t)) -> S]
  <2> DEFINE entry(i) == IF i < at THEN s[i] ELSE IF i < at + Len(t) THEN t[i - at + 1]
                         ELSE s[i - Len(t)]
  <2>1. \A i \in 1..(Len(s) + Len(t)) : entry(i) \in S BY <1>1
  <2>2. u = [i \in 1..(Len(s) + Len(t)) |-> entry(i)] BY DEF Order!InsertAt
  <2> DEFINE domain == 1..(Len(s) + Len(t))
  <2>3. (\A i \in domain : entry(i) \in S) /\ u = [i \in domain |-> entry(i)] BY <2>1, <2>2
  <2> HIDE DEF u, entry, domain
  <2>4. u \in [domain -> S] BY <2>3
  <2>5. QED BY <2>4 DEF domain
<1>3. Len(s) + Len(t) \in Nat BY <1>1
<1> HIDE DEF u
<1>4. u \in Seq(S) /\ Len(u) = Len(s) + Len(t) BY <1>2, <1>3, FunctionIsSeq
<1>5. QED BY <1>4 DEF u

\* The same of DropAt.
LEMMA DroppedSeq ==
    ASSUME NEW S, NEW s \in Seq(S), NEW at \in 1..Len(s)
    PROVE  Order!DropAt(s, at) \in Seq(S) /\ Len(Order!DropAt(s, at)) = Len(s) - 1
<1> DEFINE u == Order!DropAt(s, at)
<1>1. Len(s) \in Nat \ {0} /\ \A i \in 1..Len(s) : s[i] \in S BY LenProperties
<1>2. u \in [1..(Len(s) - 1) -> S] BY <1>1 DEF Order!DropAt
<1>3. QED BY <1>1, <1>2, FunctionIsSeq

\* The same of Along.
LEMMA FollowedSeq ==
    ASSUME NEW S, NEW s \in Seq(S), NEW p \in [1..Len(s) -> 1..Len(s)]
    PROVE  Order!Along(s, p) \in Seq(S) /\ Len(Order!Along(s, p)) = Len(s)
<1> DEFINE u == Order!Along(s, p)
<1>1. Len(s) \in Nat /\ \A i \in 1..Len(s) : s[i] \in S BY LenProperties
<1>2. u \in [1..Len(s) -> S] BY <1>1 DEF Order!Along
<1>3. QED BY <1>1, <1>2, FunctionIsSeq

\* A permutation is a sequence of positions.
LEMMA PermutationIsSeq ==
    ASSUME NEW n \in Nat, NEW p \in Order!Permutations(n)
    PROVE  /\ p \in [1..n -> 1..n] /\ p \in Seq(1..n) /\ p \in Seq(Nat) /\ Len(p) = n
           /\ \A i, j \in 1..n : p[i] = p[j] => i = j
<1>1. p \in [1..n -> 1..n] BY DEF Order!Permutations
<1>2. p \in [1..n -> Nat] BY <1>1
<1>3. QED BY <1>1, <1>2, FunctionIsSeq DEF Order!Permutations

\* New positions behind all others may be put anywhere.
LEMMA PermutationInserted ==
    ASSUME NEW n \in Nat, NEW p \in Order!Permutations(n), NEW m \in Nat, NEW at \in 1..(n + 1)
    PROVE  Order!InsertAt(p, at, [i \in 1..m |-> n + i]) \in Order!Permutations(n + m)
<1> DEFINE new == [i \in 1..m |-> n + i]
           u == Order!InsertAt(p, at, new)
<1>1. new \in [1..m -> Nat] OBVIOUS
<1>2. new \in Seq(Nat) /\ Len(new) = m BY <1>1, FunctionIsSeq
<1>3. p \in [1..n -> 1..n] /\ p \in Seq(Nat) /\ Len(p) = n
      /\ \A i, j \in 1..n : p[i] = p[j] => i = j
  BY PermutationIsSeq
<1> HIDE DEF new
<1>4. at \in 1..(Len(p) + 1) /\ at \in Nat BY <1>3
<1>4a. u \in Seq(Nat) /\ Len(u) = n + m BY <1>2, <1>3, <1>4, InsertedSeq
<1>4b. \A i \in 1..(n + m) :
          /\ i < at => u[i] = p[i]
          /\ at <= i /\ i < at + m => u[i] = new[i - at + 1]
          /\ at + m <= i => u[i] = p[i - m]
  <2>1. Len(p) = n /\ Len(new) = m /\ at \in Nat BY <1>2, <1>3, <1>4
  <2>2. \A i \in 1..(Len(p) + Len(new)) :
          /\ i < at => u[i] = p[i]
          /\ at <= i /\ i < at + Len(new) => u[i] = new[i - at + 1]
          /\ at + Len(new) <= i => u[i] = p[i - Len(new)]
    BY <2>1 DEF Order!InsertAt
  <2> HIDE DEF u
  <2>3. QED BY <2>1, <2>2
<1>5. \A i \in 1..m : new[i] = n + i BY DEF new
<1> HIDE DEF u
<1>6. \A i \in 1..(n + m) :
         /\ i < at => u[i] = p[i] /\ u[i] \in 1..n
         /\ at <= i /\ i < at + m => u[i] = n + (i - at + 1)
         /\ at + m <= i => u[i] = p[i - m] /\ u[i] \in 1..n
  <2> TAKE i \in 1..(n + m)
  <2>1. CASE i < at BY <2>1, <1>3, <1>4b
  <2>2. CASE at <= i /\ i < at + m
    <3>1. i - at + 1 \in 1..m BY <2>2
    <3>2. u[i] = new[i - at + 1] BY <2>2, <1>4b
    <3>3. new[i - at + 1] = n + (i - at + 1) BY <3>1, <1>5
    <3>4. QED BY <2>2, <3>2, <3>3
  <2>3. CASE at + m <= i
    <3>1. i - m \in 1..n BY <2>3
    <3>2. QED BY <2>3, <3>1, <1>3, <1>4b
  <2>4. QED BY <2>1, <2>2, <2>3
<1>7. u \in [1..(n + m) -> 1..(n + m)]
  <2>1. \A i \in 1..(n + m) : u[i] \in 1..(n + m) BY <1>6
  <2>2. QED BY <1>4a, <2>1, LenProperties
<1>8. ASSUME NEW i \in 1..(n + m), NEW j \in 1..(n + m), u[i] = u[j] PROVE i = j
  <2>1. CASE i < at /\ j < at BY <2>1, <1>3, <1>6, <1>8
  <2>2. CASE i < at /\ at + m <= j
    <3>1. p[i] = p[j - m] BY <2>2, <1>6, <1>8
    <3>2. i \in 1..n /\ j - m \in 1..n /\ i # j - m BY <2>2
    <3>3. QED BY <3>1, <3>2, <1>3
  <2>3. CASE j < at /\ at + m <= i
    <3>1. p[j] = p[i - m] BY <2>3, <1>6, <1>8
    <3>2. j \in 1..n /\ i - m \in 1..n /\ j # i - m BY <2>3
    <3>3. QED BY <3>1, <3>2, <1>3
  <2>4. CASE at + m <= i /\ at + m <= j
    <3>1. p[i - m] = p[j - m] BY <2>4, <1>6, <1>8
    <3>2. i - m \in 1..n /\ j - m \in 1..n BY <2>4
    <3>3. QED BY <3>1, <3>2, <1>3
  <2>5. CASE (at <= i /\ i < at + m) \/ (at <= j /\ j < at + m) BY <2>5, <1>6, <1>8
  <2>6. QED BY <2>1, <2>2, <2>3, <2>4, <2>5
<1>9. QED BY <1>7, <1>8 DEF Order!Permutations, u, new

\* When a position goes, those behind it move up.
LEMMA PermutationDropped ==
    ASSUME NEW n \in Nat, NEW p \in Order!Permutations(n), NEW at \in 1..n,
           NEW rest, rest = Order!DropAt(p, at),
           NEW u, u = [k \in DOMAIN rest |-> IF rest[k] > p[at] THEN rest[k] - 1 ELSE rest[k]]
    PROVE  /\ u \in Order!Permutations(n - 1)
           /\ rest \in [1..(n - 1) -> 1..n]
           /\ \A k \in 1..(n - 1) : rest[k] # p[at]
<1>1. p \in [1..n -> 1..n] /\ p \in Seq(1..n) /\ Len(p) = n
      /\ \A i, j \in 1..n : p[i] = p[j] => i = j
  BY PermutationIsSeq
<1>2. rest \in [1..(n - 1) -> 1..n]
  <2>1. rest \in Seq(1..n) /\ Len(rest) = n - 1 BY <1>1, DroppedSeq
  <2>2. QED BY <2>1, LenProperties
<1>2a. \A i \in 1..(n - 1) : (i < at => rest[i] = p[i]) /\ (at <= i => rest[i] = p[i + 1])
  <2>1. Len(p) = n BY <1>1
  <2>2. QED BY <2>1 DEF Order!DropAt
<1>3. \A i \in 1..(n - 1) : rest[i] # p[at] /\ rest[i] \in 1..n
  <2> TAKE i \in 1..(n - 1)
  <2>1. CASE i < at BY <2>1, <1>1, <1>2a
  <2>2. CASE at <= i
    <3>1. i + 1 \in 1..n /\ i + 1 # at BY <2>2
    <3>2. QED BY <2>2, <3>1, <1>1, <1>2a
  <2>3. QED BY <2>1, <2>2
<1>4. \A i, j \in 1..(n - 1) : rest[i] = rest[j] => i = j
  <2> TAKE i, j \in 1..(n - 1)
  <2> DEFINE a == IF i < at THEN i ELSE i + 1
             b == IF j < at THEN j ELSE j + 1
  <2>1. a \in 1..n /\ b \in 1..n /\ (a = b => i = j) OBVIOUS
  <2>2. rest[i] = p[a] /\ rest[j] = p[b] BY <1>2a
  <2> HIDE DEF a, b
  <2>3. QED BY <2>1, <2>2, <1>1
<1>5. DOMAIN rest = 1..(n - 1) BY <1>2
<1>6. \A i \in 1..(n - 1) : u[i] = IF rest[i] > p[at] THEN rest[i] - 1 ELSE rest[i] BY <1>5
<1>7. p[at] \in 1..n BY <1>1
<1>8. u \in [1..(n - 1) -> 1..(n - 1)] BY <1>3, <1>5, <1>7
<1>9. \A i, j \in 1..(n - 1) : u[i] = u[j] => i = j
  <2> TAKE i, j \in 1..(n - 1)
  <2> HAVE u[i] = u[j]
  <2>1. rest[i] \in 1..n /\ rest[j] \in 1..n /\ rest[i] # p[at] /\ rest[j] # p[at] BY <1>3
  <2>2. rest[i] = rest[j] BY <1>6, <1>7, <2>1
  <2>3. QED BY <2>2, <1>4
<1>10. QED BY <1>2, <1>3, <1>8, <1>9 DEF Order!Permutations

\* One permutation along another is a permutation.
LEMMA PermutationFollowed ==
    ASSUME NEW n \in Nat, NEW q \in Order!Permutations(n), NEW p \in Order!Permutations(n)
    PROVE  Order!Along(q, p) \in Order!Permutations(n)
<1> DEFINE u == Order!Along(q, p)
<1>1. p \in [1..n -> 1..n] /\ \A i, j \in 1..n : p[i] = p[j] => i = j BY PermutationIsSeq
<1>2. /\ q \in [1..n -> 1..n] /\ q \in Seq(1..n) /\ Len(q) = n
      /\ \A i, j \in 1..n : q[i] = q[j] => i = j
  BY PermutationIsSeq
<1>3. u \in [1..n -> 1..n] /\ \A i \in 1..n : u[i] = q[p[i]]
  <2>1. u \in Seq(1..n) /\ Len(u) = n BY <1>1, <1>2, FollowedSeq
  <2>2. u \in [1..n -> 1..n] BY <2>1, LenProperties
  <2>3. Len(q) = n BY <1>2
  <2>4. \A i \in 1..n : u[i] = q[p[i]] BY <2>3 DEF Order!Along
  <2>5. QED BY <2>2, <2>4
<1> HIDE DEF u
<1>4. \A i, j \in 1..n : u[i] = u[j] => i = j
  <2> TAKE i, j \in 1..n
  <2> HAVE u[i] = u[j]
  <2>1. p[i] \in 1..n /\ p[j] \in 1..n BY <1>1
  <2>2. q[p[i]] = q[p[j]] BY <1>3
  <2>3. p[i] = p[j] BY <2>1, <2>2, <1>2
  <2>4. QED BY <2>3, <1>1
<1>5. u \in Order!Permutations(n) BY <1>3, <1>4 DEF Order!Permutations
<1>6. QED BY <1>5 DEF u

-----------------------------------------------------------------------------
(* One sequence along another.                                             *)

\* The queue q is the original queue o in the order of the positions p.
Mirrors(q, o, p) ==
    /\ Len(q) \in Nat /\ Len(o) = Len(q) /\ p \in Order!Permutations(Len(q))
    /\ \A i \in 1..Len(q) : q[i] = o[p[i]]

\* The length of what InsertAt, DropAt and Along give, of whatever entries.
LEMMA FunctionLen ==
    ASSUME NEW n \in Nat, NEW s, s = [i \in 1..n |-> s[i]]
    PROVE  Len(s) = n
<1> DEFINE S == {s[i] : i \in 1..n}
<1>1. s \in [1..n -> S] OBVIOUS
<1> HIDE DEF S
<1>2. QED BY <1>1, FunctionIsSeq

\* InsertAt adds the lengths.
LEMMA InsertedLen ==
    ASSUME NEW s, NEW at, NEW t, Len(s) \in Nat, Len(t) \in Nat
    PROVE  Len(Order!InsertAt(s, at, t)) = Len(s) + Len(t)
<1> DEFINE n == Len(s) + Len(t)
           u == Order!InsertAt(s, at, t)
<1>1. n \in Nat OBVIOUS
<1>2. u = [i \in 1..n |-> u[i]] BY DEF Order!InsertAt
<1> HIDE DEF u, n
<1>3. Len(u) = n BY <1>1, <1>2, FunctionLen
<1>4. QED BY <1>3 DEF u, n

\* DropAt takes one entry.
LEMMA DroppedLen ==
    ASSUME NEW s, NEW at, Len(s) \in Nat \ {0}
    PROVE  Len(Order!DropAt(s, at)) = Len(s) - 1
<1> DEFINE n == Len(s) - 1
           u == Order!DropAt(s, at)
<1>1. n \in Nat OBVIOUS
<1>2. u = [i \in 1..n |-> u[i]] BY DEF Order!DropAt
<1> HIDE DEF u, n
<1>3. Len(u) = n BY <1>1, <1>2, FunctionLen
<1>4. QED BY <1>3 DEF u, n

\* Along keeps the length.
LEMMA FollowedLen ==
    ASSUME NEW s, NEW p, Len(s) \in Nat
    PROVE  Len(Order!Along(s, p)) = Len(s)
<1> DEFINE n == Len(s)
           u == Order!Along(s, p)
<1>1. u = [i \in 1..n |-> u[i]] BY DEF Order!Along
<1> HIDE DEF u
<1>2. Len(u) = n BY <1>1, FunctionLen
<1>3. QED BY <1>2 DEF u

\* Adding to the queue and, behind all others, to the original queue: the queue
\* is still the original one along the positions.
LEMMA MirrorInserted ==
    ASSUME NEW q, NEW o, NEW p, NEW t, NEW o1, NEW new,
           Mirrors(q, o, p), NEW at \in 1..(Len(q) + 1), Len(t) \in Nat,
           Len(o1) = Len(q) + Len(t),
           \A i \in 1..(Len(q) + Len(t)) :
              o1[i] = IF i <= Len(q) THEN o[i] ELSE t[i - Len(q)],
           new = [i \in 1..Len(t) |-> Len(q) + i]
    PROVE  Mirrors(Order!InsertAt(q, at, t), o1, Order!InsertAt(p, at, new))
<1> DEFINE n == Len(q)
           m == Len(t)
           q1 == Order!InsertAt(q, at, t)
           p1 == Order!InsertAt(p, at, new)
<1>1. n \in Nat /\ m \in Nat /\ p \in Order!Permutations(n)
      /\ \A i \in 1..n : q[i] = o[p[i]]
  BY DEF Mirrors
<1>2. Len(p) = n /\ \A i \in 1..n : p[i] \in 1..n BY <1>1, PermutationIsSeq
<1>3. Len(new) = m /\ \A i \in 1..m : new[i] = n + i
  <2>1. new = [i \in 1..m |-> new[i]] BY <1>1
  <2>2. QED BY <1>1, <2>1, FunctionLen
<1>4. p1 \in Order!Permutations(n + m) BY <1>1, PermutationInserted
<1>5. Len(q1) = n + m BY <1>1, InsertedLen
<1>6. \A i \in 1..(n + m) :
         /\ i < at => q1[i] = q[i]
         /\ at <= i /\ i < at + m => q1[i] = t[i - at + 1]
         /\ at + m <= i => q1[i] = q[i - m]
  BY <1>1 DEF Order!InsertAt
<1>7. \A i \in 1..(n + m) :
         /\ i < at => p1[i] = p[i]
         /\ at <= i /\ i < at + m => p1[i] = new[i - at + 1]
         /\ at + m <= i => p1[i] = p[i - m]
  BY <1>1, <1>2, <1>3 DEF Order!InsertAt
<1>8. \A i \in 1..(n + m) : o1[i] = IF i <= n THEN o[i] ELSE t[i - n] OBVIOUS
<1> HIDE DEF n, m, q1, p1
<1>9. \A i \in 1..(n + m) : q1[i] = o1[p1[i]]
  <2> TAKE i \in 1..(n + m)
  <2>1. CASE i < at
    <3>1. i \in 1..n BY <1>1, <2>1 DEF n
    <3>2. p[i] \in 1..n /\ p[i] \in 1..(n + m) /\ p[i] <= n BY <1>1, <1>2, <3>1
    <3>3. o1[p[i]] = o[p[i]] BY <1>8, <3>2
    <3>4. p1[i] = p[i] /\ q1[i] = q[i] BY <1>6, <1>7, <2>1
    <3>5. QED BY <1>1, <3>1, <3>3, <3>4
  <2>2. CASE at <= i /\ i < at + m
    <3> DEFINE k == i - at + 1
               x == n + k
    <3>1. k \in 1..m BY <1>1, <2>2 DEF n
    <3>2. p1[i] = n + k /\ q1[i] = t[k] BY <1>3, <1>6, <1>7, <2>2, <3>1
    <3> HIDE DEF k
    <3>3. x \in 1..(n + m) /\ ~(x <= n) /\ x - n = k BY <1>1, <3>1
    <3> HIDE DEF x
    <3>4. o1[x] = t[k] BY <1>8, <3>3
    <3>5. p1[i] = x BY <3>2 DEF x
    <3>6. QED BY <3>2, <3>4, <3>5
  <2>3. CASE at + m <= i
    <3>1. i - m \in 1..n BY <1>1, <2>3 DEF n
    <3>2. p[i - m] \in 1..n /\ p[i - m] \in 1..(n + m) /\ p[i - m] <= n BY <1>1, <1>2, <3>1
    <3>3. o1[p[i - m]] = o[p[i - m]] BY <1>8, <3>2
    <3>4. p1[i] = p[i - m] /\ q1[i] = q[i - m] BY <1>6, <1>7, <2>3
    <3>5. QED BY <1>1, <3>1, <3>3, <3>4
  <2>4. QED BY <1>1, <2>1, <2>2, <2>3 DEF n
<1>10. n + m \in Nat /\ Len(o1) = n + m BY <1>1 DEF n, m
<1>11. Mirrors(q1, o1, p1) BY <1>4, <1>5, <1>9, <1>10 DEF Mirrors
<1>12. QED BY <1>11 DEF q1, p1

\* Where the entries are after an insertion.
LEMMA InsertedPlaces ==
    ASSUME NEW p, NEW at \in Nat, NEW new, Len(p) \in Nat, Len(new) \in Nat,
           NEW i \in 1..Len(p)
    PROVE  /\ i < at => Order!InsertAt(p, at, new)[i] = p[i]
           /\ at <= i => Order!InsertAt(p, at, new)[i + Len(new)] = p[i]
  BY DEF Order!InsertAt

\* An entry goes from the queue and from the original queue.
LEMMA MirrorDropped ==
    ASSUME NEW q, NEW o, NEW p, Mirrors(q, o, p), NEW at \in 1..Len(q),
           NEW rest, rest = Order!DropAt(p, at),
           NEW u, u = [k \in DOMAIN rest |-> IF rest[k] > p[at] THEN rest[k] - 1 ELSE rest[k]]
    PROVE  Mirrors(Order!DropAt(q, at), Order!DropAt(o, p[at]), u)
<1> DEFINE n == Len(q)
           q1 == Order!DropAt(q, at)
           o1 == Order!DropAt(o, p[at])
<1>1. n \in Nat \ {0} /\ Len(o) = n /\ p \in Order!Permutations(n)
      /\ \A i \in 1..n : q[i] = o[p[i]]
  BY DEF Mirrors
<1>2. Len(p) = n /\ \A i \in 1..n : p[i] \in 1..n BY <1>1, PermutationIsSeq
<1>3. u \in Order!Permutations(n - 1) /\ rest \in [1..(n - 1) -> 1..n]
      /\ \A k \in 1..(n - 1) : rest[k] # p[at]
  BY <1>1, PermutationDropped
<1>4. Len(q1) = n - 1 /\ Len(o1) = n - 1 BY <1>1, DroppedLen
<1>5. \A k \in 1..(n - 1) : q1[k] = o[rest[k]]
  <2> TAKE k \in 1..(n - 1)
  <2> DEFINE a == IF k < at THEN k ELSE k + 1
  <2>1. a \in 1..n OBVIOUS
  <2>2. q1[k] = q[a] BY <1>1 DEF Order!DropAt
  <2>3. rest[k] = p[a] BY <1>1, <1>2 DEF Order!DropAt
  <2> HIDE DEF a
  <2>4. QED BY <1>1, <2>1, <2>2, <2>3
<1>6. \A x \in 1..(n - 1) : o1[x] = IF x < p[at] THEN o[x] ELSE o[x + 1]
  BY <1>1 DEF Order!DropAt
<1> HIDE DEF n, q1, o1
<1>7. \A k \in 1..(n - 1) : q1[k] = o1[u[k]]
  <2> TAKE k \in 1..(n - 1)
  <2>1. rest[k] \in 1..n /\ rest[k] # p[at] /\ p[at] \in 1..n BY <1>2, <1>3 DEF n
  <2>2. u[k] = IF rest[k] > p[at] THEN rest[k] - 1 ELSE rest[k] BY <1>3
  <2>3. CASE rest[k] > p[at]
    <3> DEFINE x == rest[k] - 1
    <3>1. x \in 1..(n - 1) /\ ~(x < p[at]) /\ x + 1 = rest[k] BY <1>1, <2>1, <2>3
    <3>2. u[k] = x BY <2>2, <2>3
    <3> HIDE DEF x
    <3>3. o1[x] = o[rest[k]] BY <1>6, <3>1
    <3>4. QED BY <1>5, <3>2, <3>3
  <2>4. CASE rest[k] < p[at]
    <3>1. rest[k] \in 1..(n - 1) BY <1>1, <2>1, <2>4
    <3>2. u[k] = rest[k] BY <2>1, <2>2, <2>4
    <3>3. QED BY <1>5, <1>6, <2>4, <3>1, <3>2
  <2>5. QED BY <2>1, <2>3, <2>4
<1>8. n - 1 \in Nat BY <1>1
<1>9. Mirrors(q1, o1, u) BY <1>3, <1>4, <1>7, <1>8 DEF Mirrors
<1>10. QED BY <1>9 DEF q1, o1

\* The queue and its positions are reordered alike.
LEMMA MirrorFollowed ==
    ASSUME NEW q, NEW o, NEW p, NEW r, Mirrors(q, o, p), r \in Order!Permutations(Len(q))
    PROVE  Mirrors(Order!Along(q, r), o, Order!Along(p, r))
<1> DEFINE n == Len(q)
<1>1. n \in Nat /\ Len(o) = n /\ p \in Order!Permutations(n)
      /\ \A i \in 1..n : q[i] = o[p[i]]
  BY DEF Mirrors
<1>2. Len(p) = n BY <1>1, PermutationIsSeq
<1>3. \A i \in 1..n : r[i] \in 1..n BY <1>1, PermutationIsSeq
<1>4. Len(Order!Along(q, r)) = n BY <1>1, FollowedLen
<1>5. \A i \in 1..n : Order!Along(q, r)[i] = q[r[i]] /\ Order!Along(p, r)[i] = p[r[i]]
  BY <1>2 DEF Order!Along
<1>6. \A i \in 1..n : Order!Along(q, r)[i] = o[Order!Along(p, r)[i]] BY <1>1, <1>3, <1>5
<1>7. Order!Along(p, r) \in Order!Permutations(n) BY <1>1, PermutationFollowed
<1>8. QED BY <1>1, <1>4, <1>6, <1>7 DEF Mirrors

\* A list is shuffled.
LEMMA MirrorShuffled ==
    ASSUME NEW o, NEW p, Len(o) \in Nat, p \in Order!Permutations(Len(o))
    PROVE  Mirrors(Order!Along(o, p), o, p)
<1>1. Len(Order!Along(o, p)) = Len(o) BY FollowedLen
<1>2. \A i \in 1..Len(o) : Order!Along(o, p)[i] = o[p[i]] BY DEF Order!Along
<1>3. QED BY <1>1, <1>2 DEF Mirrors

\* The positions themselves.
Identity(s, n) == Len(s) = n /\ \A k \in 1..n : s[k] = k

\* A permutation, in which every position occurs.
Onto(p, n) == p \in Order!Permutations(n) /\ \A x \in 1..n : \E k \in 1..n : p[k] = x

\* The entry at i is put at j: that is such a permutation.
LEMMA PermutationMoved ==
    ASSUME NEW n \in Nat, NEW i \in 1..n, NEW j \in 1..n,
           NEW places, Identity(places, n), NEW block, block = <<i>>,
           NEW p, p = Order!InsertAt(Order!DropAt(places, i), j, block)
    PROVE  Onto(p, n)
<1> DEFINE rest == Order!DropAt(places, i)
<1>1. Len(places) = n BY DEF Identity
<1>2. \A k \in 1..n : places[k] = k BY DEF Identity
<1>3. p = Order!InsertAt(rest, j, <<i>>) OBVIOUS
<1>4. Len(rest) = n - 1 BY <1>1, DroppedLen
<1>5. \A k \in 1..(n - 1) : rest[k] = IF k < i THEN k ELSE k + 1 BY <1>1, <1>2 DEF Order!DropAt
<1> HIDE DEF rest
<1>6. /\ p = [k \in 1..n |-> p[k]]
      /\ \A k \in 1..n : p[k] = IF k < j THEN rest[k] ELSE IF k = j THEN i ELSE rest[k - 1]
  <2>1. Len(<<i>>) = 1 /\ <<i>>[1] = i /\ Len(rest) + 1 = n BY <1>4
  <2>2. p = [k \in 1..n |-> IF k < j THEN rest[k]
                            ELSE IF k < j + 1 THEN <<i>>[k - j + 1] ELSE rest[k - 1]]
    BY <1>3, <2>1 DEF Order!InsertAt
  <2>3. \A k \in 1..n : p[k] = IF k < j THEN rest[k]
                            ELSE IF k < j + 1 THEN <<i>>[k - j + 1] ELSE rest[k - 1]
    BY <2>2
  <2>4. \A k \in 1..n : k = j => k - j + 1 = 1 OBVIOUS
  <2>5. QED BY <2>1, <2>2, <2>3, <2>4
<1>7. \A k \in 1..n :
         p[k] = IF k < j THEN (IF k < i THEN k ELSE k + 1)
                ELSE IF k = j THEN i ELSE (IF k - 1 < i THEN k - 1 ELSE k)
  <2> TAKE k \in 1..n
  <2>1. CASE k < j
    <3>1. k \in 1..(n - 1) BY <2>1
    <3>2. QED BY <1>5, <1>6, <2>1, <3>1
  <2>2. CASE k = j BY <1>6, <2>2
  <2>3. CASE j < k
    <3>1. k - 1 \in 1..(n - 1) BY <2>3
    <3>2. rest[k - 1] = IF k - 1 < i THEN k - 1 ELSE k - 1 + 1 BY <1>5, <3>1
    <3>3. QED BY <1>6, <2>3, <3>2
  <2>4. QED BY <2>1, <2>2, <2>3
<1> DEFINE back(x) == LET k == IF x < i THEN x ELSE x - 1
                     IN  IF x = i THEN j ELSE IF k < j THEN k ELSE k + 1
<1>8. \A k \in 1..n : p[k] \in 1..n /\ back(p[k]) = k
  <2> TAKE k \in 1..n
  <2>1. CASE k < j BY <1>7, <2>1
  <2>2. CASE k = j BY <1>7, <2>2
  <2>3. CASE j < k BY <1>7, <2>3
  <2>4. QED BY <2>1, <2>2, <2>3
<1>9. \A x \in 1..n : back(x) \in 1..n /\ p[back(x)] = x
  <2> TAKE x \in 1..n
  <2>1. back(x) \in 1..n OBVIOUS
  <2> DEFINE k == back(x)
  <2>2. k \in 1..n BY <2>1
  <2>3. p[k] = IF k < j THEN (IF k < i THEN k ELSE k + 1)
               ELSE IF k = j THEN i ELSE (IF k - 1 < i THEN k - 1 ELSE k)
    <3> HIDE DEF k
    <3>1. QED BY <1>7, <2>2
  <2>4. (IF k < j THEN (IF k < i THEN k ELSE k + 1)
         ELSE IF k = j THEN i ELSE (IF k - 1 < i THEN k - 1 ELSE k)) = x
    OBVIOUS
  <2>5. QED BY <2>1, <2>3, <2>4
<1> HIDE DEF back
<1>10. p \in Order!Permutations(n)
  <2>1. p \in [1..n -> 1..n] BY <1>6, <1>8
  <2>2. \A k, l \in 1..n : p[k] = p[l] => k = l BY <1>8
  <2>3. QED BY <2>1, <2>2 DEF Order!Permutations
<1>11. QED BY <1>9, <1>10 DEF Onto

-----------------------------------------------------------------------------
(* The inductive invariant, and the listener's view of it.                 *)

QueueInv ==
    /\ queue \in Seq(Tracks) /\ shuffleOriginalQueue \in Seq(Tracks)
    /\ index \in 0..Len(queue)
    /\ shuffle \in BOOLEAN /\ counter \in {0, 1}
    /\ shuffle => Mirrors(queue, shuffleOriginalQueue, shuffleOriginalIndices)
    /\ ~shuffle => shuffleOriginalQueue = << >> /\ shuffleOriginalIndices = << >>

\* What PlayOrder sees of the queue.
Ordered == IF shuffle THEN shuffleOriginalQueue ELSE queue
Place == IF shuffle /\ index \in DOMAIN shuffleOriginalIndices
         THEN shuffleOriginalIndices[index] ELSE index

\* A step of PlayOrder, in these terms.
LEMMA IsMove ==
    ASSUME counter' # counter,
           \/ Ordered' = Ordered /\ Place' \in DOMAIN Ordered \cup {Place}
           \/ Ordered' \in Lists /\ Place' \in DOMAIN Ordered'
    PROVE  Order!Move
  BY DEF Order!Move, Ordered, Place

\* A block is inserted into the order.
LEMMA IsInsert ==
    ASSUME counter' = counter,
           NEW block, block \in Additions \cup {<<t>> : t \in Suggested},
           NEW at, at \in 1..(Len(Ordered) + 1),
           Ordered' = Order!InsertAt(Ordered, at, block),
           Place' = IF at <= Place THEN Place + Len(block) ELSE Place
    PROVE  Order!Edit
  BY DEF Order!Edit, Order!Insert, Ordered, Place

\* An entry goes from the order.
LEMMA IsRemove ==
    ASSUME counter' = counter, NEW i, i \in DOMAIN Ordered,
           Ordered' = Order!DropAt(Ordered, i),
           i = Place => /\ Place' \in DOMAIN Ordered' \cup {0}
                        /\ Place' = 0 => Ordered' = << >>,
           i # Place => Place' = IF i < Place THEN Place - 1 ELSE Place
    PROVE  Order!Edit
  BY DEF Order!Edit, Order!Remove, Ordered, Place

\* The order is rearranged.
LEMMA IsRearrange ==
    ASSUME counter' = counter, NEW p, p \in Order!Permutations(Len(Ordered)),
           Ordered' = Order!Along(Ordered, p),
           Place = 0 => Place' = 0,
           Place # 0 => Place' \in DOMAIN p /\ p[Place'] = Place
    PROVE  Order!Edit
  BY DEF Order!Edit, Order!Rearrange, Ordered, Place

\* Only the current entry stays.
LEMMA IsKeepEntry ==
    ASSUME counter' = counter,
           Place = 0 => Ordered' = << >> /\ Place' = 0,
           Place # 0 => Ordered' = <<Ordered[Place]>> /\ Place' = 1
    PROVE  Order!Edit
  BY DEF Order!Edit, Order!KeepEntry, Ordered, Place

\* The invariant says what the runs check.
LEMMA InvChecked == QueueInv => Mirrored /\ InQueue
<1> SUFFICES ASSUME QueueInv PROVE Mirrored /\ InQueue
  OBVIOUS
<1>1. InQueue
  <2>1. queue \in Seq(Tracks) /\ index \in 0..Len(queue) BY DEF QueueInv
  <2>2. DOMAIN queue = 1..Len(queue) BY <2>1
  <2>3. QED BY <2>1, <2>2 DEF InQueue
<1>2. CASE ~shuffle
  <2>1. shuffleOriginalQueue = << >> /\ shuffleOriginalIndices = << >> BY <1>2, Zenon DEF QueueInv
  <2>2. Mirrored BY <1>2, <2>1, Zenon DEF Mirrored
  <2>3. QED BY <1>1, <2>2
<1>3. CASE shuffle
  <2> DEFINE a == Order!Along(shuffleOriginalQueue, shuffleOriginalIndices)
  <2>1. Mirrors(queue, shuffleOriginalQueue, shuffleOriginalIndices) BY <1>3 DEF QueueInv
  <2>2. /\ Len(queue) \in Nat /\ Len(shuffleOriginalQueue) = Len(queue)
        /\ shuffleOriginalIndices \in Order!Permutations(Len(queue))
        /\ \A i \in 1..Len(queue) : queue[i] = shuffleOriginalQueue[shuffleOriginalIndices[i]]
    BY <2>1 DEF Mirrors
  <2>3. queue = [i \in 1..Len(queue) |-> queue[i]]
    <3>1. queue \in Seq(Tracks) BY DEF QueueInv
    <3>2. QED BY <3>1
  <2>4. queue = Order!Along(shuffleOriginalQueue, shuffleOriginalIndices)
    BY <2>2, <2>3 DEF Order!Along
  <2>5. Mirrored BY <1>3, <2>2, <2>4, Zenon DEF Mirrored
  <2>6. QED BY <1>1, <2>5
<1>4. QED BY <1>1, <1>2, <1>3

\* At the start.
LEMMA InitQueueInv == PlaybackInit => QueueInv /\ Order!Empty
<1> SUFFICES ASSUME PlaybackInit PROVE QueueInv /\ Order!Empty
  OBVIOUS
<1>1. queue = << >> /\ index = 0 /\ shuffle = FALSE /\ counter = 0
      /\ shuffleOriginalQueue = << >> /\ shuffleOriginalIndices = << >>
  BY DEF PlaybackInit
<1>2. QueueInv
  <2>1. queue \in Seq(Tracks) /\ shuffleOriginalQueue \in Seq(Tracks) /\ index \in 0..Len(queue)
    BY <1>1
  <2>2. shuffle \in BOOLEAN /\ counter \in {0, 1} BY <1>1
  <2>3. QED BY <1>1, <2>1, <2>2, Zenon DEF QueueInv
<1>3. Order!Empty BY <1>1 DEF Order!Empty
<1>4. QED BY <1>2, <1>3

\* What the invariant gives.
LEMMA InvFacts ==
    ASSUME QueueInv
    PROVE  /\ Len(queue) \in Nat /\ DOMAIN queue = 1..Len(queue)
           /\ index \in 0..Len(queue) /\ index \in Nat
           /\ shuffle => /\ Ordered = shuffleOriginalQueue
                         /\ Len(shuffleOriginalQueue) = Len(queue)
                         /\ DOMAIN shuffleOriginalQueue = 1..Len(queue)
                         /\ shuffleOriginalIndices \in Order!Permutations(Len(queue))
                         /\ DOMAIN shuffleOriginalIndices = 1..Len(queue)
                         /\ Len(shuffleOriginalIndices) = Len(queue)
                         /\ \A i \in 1..Len(queue) : shuffleOriginalIndices[i] \in 1..Len(queue)
                         /\ Place = IF index = 0 THEN 0 ELSE shuffleOriginalIndices[index]
                         /\ Place \in 0..Len(queue)
           /\ ~shuffle => /\ Ordered = queue /\ Place = index
<1>1. queue \in Seq(Tracks) /\ shuffleOriginalQueue \in Seq(Tracks) /\ index \in 0..Len(queue)
      /\ shuffle \in BOOLEAN
  BY DEF QueueInv
<1>2. Len(queue) \in Nat /\ DOMAIN queue = 1..Len(queue)
      /\ DOMAIN shuffleOriginalQueue = 1..Len(shuffleOriginalQueue)
  <2>1. queue \in Seq(Tracks) /\ shuffleOriginalQueue \in Seq(Tracks) BY <1>1
  <2>2. QED BY <2>1, LenProperties
<1>2a. index \in Nat BY <1>1, <1>2
<1>3. CASE ~shuffle
  <2>1. Ordered = queue /\ Place = index BY <1>3, Zenon DEF Ordered, Place
  <2>2. QED BY <1>1, <1>2, <1>2a, <1>3, <2>1, Zenon
<1>4. CASE shuffle
  <2>1. Mirrors(queue, shuffleOriginalQueue, shuffleOriginalIndices) BY <1>4 DEF QueueInv
  <2>2. Len(shuffleOriginalQueue) = Len(queue)
        /\ shuffleOriginalIndices \in Order!Permutations(Len(queue))
    BY <2>1 DEF Mirrors
  <2>3. shuffleOriginalIndices \in [1..Len(queue) -> 1..Len(queue)]
        /\ Len(shuffleOriginalIndices) = Len(queue)
    BY <1>2, <2>2, PermutationIsSeq
  <2>4. DOMAIN shuffleOriginalIndices = 1..Len(queue)
        /\ \A i \in 1..Len(queue) : shuffleOriginalIndices[i] \in 1..Len(queue)
    BY <2>3
  <2>5. Place = IF index = 0 THEN 0 ELSE shuffleOriginalIndices[index]
    BY <1>1, <1>2, <1>4, <2>4 DEF Place
  <2>6. Place \in 0..Len(queue) BY <1>1, <1>2, <2>4, <2>5
  <2>7. DOMAIN shuffleOriginalQueue = 1..Len(queue) BY <1>2, <2>2
  <2>8. Ordered = shuffleOriginalQueue BY <1>4, Zenon DEF Ordered
  <2>9. QED BY <1>1, <1>2, <1>2a, <1>4, <2>2, <2>3, <2>4, <2>5, <2>6, <2>7, <2>8, Zenon
<1>5. QED BY <1>1, <1>3, <1>4

-----------------------------------------------------------------------------
(* The operations on the queue keep the invariant, and are those of        *)
(* PlayOrder.                                                              *)

\* addToQueue, and with it playNext and autoplay.
LEMMA AddedStep ==
    ASSUME QueueInv, NEW tracks, tracks \in Additions \cup {<<t>> : t \in Suggested},
           NEW at, at \in 1..(Len(queue) + 1), Added(tracks, at), counter' = counter
    PROVE  QueueInv' /\ Order!Edit
<1> DEFINE n == Len(queue)
           m == Len(tracks)
           new == [i \in 1..m |-> n + i]
<1>1. queue \in Seq(Tracks) /\ shuffleOriginalQueue \in Seq(Tracks) /\ tracks \in Seq(Tracks)
  <2>1. \A t \in Suggested : <<t>> \in Seq(Tracks) BY PlaybackAssumption
  <2>2. QED BY <2>1, PlaybackAssumption, Zenon DEF QueueInv
<1>2. n \in Nat /\ index \in 0..n /\ at \in 1..(n + 1) BY InvFacts
<1>3. m \in Nat /\ DOMAIN tracks = 1..m BY <1>1, LenProperties
<1>4. queue' = Order!InsertAt(queue, at, tracks) BY DEF Added, Splice
<1>5. index' = (IF at <= index THEN index + m ELSE index) /\ shuffle' = shuffle BY DEF Added
<1>6. queue' \in Seq(Tracks) /\ Len(queue') = n + m BY <1>1, <1>2, <1>4, InsertedSeq
<1>7. index' \in 0..Len(queue') BY <1>2, <1>3, <1>5, <1>6
<1>8. shuffle' \in BOOLEAN /\ counter' \in {0, 1} BY <1>5, Zenon DEF QueueInv
<1>9. CASE ~shuffle
  <2>1. shuffleOriginalQueue' = shuffleOriginalQueue
        /\ shuffleOriginalIndices' = shuffleOriginalIndices
    BY <1>9, Zenon DEF Added, Splice
  <2>2. shuffleOriginalQueue = << >> /\ shuffleOriginalIndices = << >>
    BY <1>9, Zenon DEF QueueInv
  <2>3. shuffleOriginalQueue' \in Seq(Tracks) BY <1>1, <2>1
  <2>4. QueueInv' BY <1>5, <1>6, <1>7, <1>8, <1>9, <2>1, <2>2, <2>3, Zenon DEF QueueInv
  <2>5. Ordered = queue /\ Place = index BY <1>9, InvFacts, Zenon
  <2>6. Ordered' = queue' /\ Place' = index' BY <1>5, <1>9, Zenon DEF Ordered, Place
  <2>7. Order!Edit BY <1>4, <1>5, <2>5, <2>6, IsInsert
  <2>8. QED BY <2>4, <2>7
<1>10. CASE shuffle
  <2> DEFINE end == n + 1
  <2>1. Mirrors(queue, shuffleOriginalQueue, shuffleOriginalIndices)
    BY <1>10, Zenon DEF QueueInv
  <2>2. /\ Len(shuffleOriginalQueue) = n /\ Ordered = shuffleOriginalQueue
        /\ Len(shuffleOriginalIndices) = n
        /\ Place = (IF index = 0 THEN 0 ELSE shuffleOriginalIndices[index])
        /\ Place \in 0..n
    BY <1>10, InvFacts, Zenon
  <2>3. shuffleOriginalQueue' = Order!InsertAt(shuffleOriginalQueue, end, tracks)
        /\ shuffleOriginalIndices' = Order!InsertAt(shuffleOriginalIndices, at, new)
    <3>1. shuffleOriginalQueue' = Order!InsertAt(shuffleOriginalQueue,
                                                 Len(shuffleOriginalQueue) + 1, tracks)
          /\ shuffleOriginalIndices' = Order!InsertAt(shuffleOriginalIndices, at,
                                [i \in DOMAIN tracks |-> Len(shuffleOriginalQueue) + i])
      BY <1>10, Zenon DEF Added, Splice
    <3>2. QED BY <1>3, <2>2, <3>1
  <2>4. shuffleOriginalQueue' \in Seq(Tracks) /\ Len(shuffleOriginalQueue') = n + m
    <3>1. end \in 1..(Len(shuffleOriginalQueue) + 1) BY <1>2, <2>2
    <3> HIDE DEF end, new
    <3> DEFINE u == Order!InsertAt(shuffleOriginalQueue, end, tracks)
    <3>2. u \in Seq(Tracks) /\ Len(u) = Len(shuffleOriginalQueue) + Len(tracks)
      BY <1>1, <3>1, InsertedSeq
    <3>3. QED BY <2>2, <2>3, <3>2
  <2>5. \A i \in 1..(n + m) :
           shuffleOriginalQueue'[i] = IF i <= n THEN shuffleOriginalQueue[i] ELSE tracks[i - n]
    BY <1>2, <1>3, <2>2, <2>3 DEF Order!InsertAt
  <2>6. Mirrors(queue', shuffleOriginalQueue', shuffleOriginalIndices')
    BY <1>2, <1>3, <1>4, <2>1, <2>3, <2>4, <2>5, MirrorInserted
  <2>7. QueueInv' BY <1>5, <1>6, <1>7, <1>8, <1>10, <2>4, <2>6, Zenon DEF QueueInv
  <2>8. Ordered' = Order!InsertAt(Ordered, end, tracks)
    <3>1. Ordered' = shuffleOriginalQueue' BY <1>5, <1>10, Zenon DEF Ordered
    <3>2. QED BY <2>2, <2>3, <3>1
  <2>9. Place' = Place
    <3>1. Len(new) = m
      <4>1. new = [i \in 1..m |-> new[i]] OBVIOUS
      <4> HIDE DEF new
      <4>2. QED BY <1>3, <4>1, FunctionLen
    <3>2. shuffleOriginalIndices' \in Order!Permutations(n + m) BY <1>6, <2>6 DEF Mirrors
    <3>3. DOMAIN shuffleOriginalIndices' = 1..(n + m) BY <3>2 DEF Order!Permutations
    <3>4. Place' = IF index' = 0 THEN 0 ELSE shuffleOriginalIndices'[index']
      <4>1. index' # 0 => index' \in DOMAIN shuffleOriginalIndices' BY <1>6, <1>7, <3>3
      <4>2. 0 \notin DOMAIN shuffleOriginalIndices' BY <3>3
      <4>3. QED BY <1>5, <1>10, <4>1, <4>2, Zenon DEF Place
    <3>5. CASE index = 0 BY <1>2, <1>5, <2>2, <3>4, <3>5
    <3>6. CASE index # 0
      <4>1. index \in 1..Len(shuffleOriginalIndices) /\ at \in Nat BY <1>2, <2>2, <3>6
      <4>2. /\ index < at => shuffleOriginalIndices'[index] = shuffleOriginalIndices[index]
            /\ at <= index => shuffleOriginalIndices'[index + m] = shuffleOriginalIndices[index]
        <5> HIDE DEF n, m, new
        <5>1. QED BY <1>2, <1>3, <2>2, <2>3, <3>1, <4>1, InsertedPlaces
      <4>3. index' # 0 BY <1>2, <1>3, <1>5, <3>6
      <4>4. QED BY <1>2, <1>5, <2>2, <3>4, <3>6, <4>2, <4>3
    <3>7. QED BY <3>5, <3>6
  <2>10. Order!Edit
    <3>1. end \in 1..(Len(Ordered) + 1) /\ ~(end <= Place) BY <1>2, <2>2
    <3> HIDE DEF end
    <3>2. QED BY <2>8, <2>9, <3>1, IsInsert
  <2>11. QED BY <2>7, <2>10
<1>11. QED BY <1>9, <1>10

\* removeFromQueue.
LEMMA RemovedStep ==
    ASSUME QueueInv, NEW i, i \in DOMAIN queue, Removed(i), counter' = counter
    PROVE  QueueInv' /\ Order!Edit
<1> DEFINE n == Len(queue)
<1>1. queue \in Seq(Tracks) /\ shuffleOriginalQueue \in Seq(Tracks) BY Zenon DEF QueueInv
<1>2. n \in Nat \ {0} /\ index \in 0..n /\ i \in 1..n BY InvFacts
<1>3. queue' = Order!DropAt(queue, i) /\ index' = PlaceAfter(i) /\ shuffle' = shuffle
  BY DEF Removed
<1>4. queue' \in Seq(Tracks) /\ Len(queue') = n - 1 BY <1>1, <1>2, <1>3, DroppedSeq
<1>5. index' = IF i < index THEN index - 1
               ELSE IF i = index /\ n - 1 < index THEN n - 1 ELSE index
  BY <1>2, <1>3 DEF PlaceAfter, Order!Minimum
<1>6. index' \in 0..Len(queue') BY <1>2, <1>4, <1>5
<1>7. shuffle' \in BOOLEAN /\ counter' \in {0, 1} BY <1>3, Zenon DEF QueueInv
<1>8. queue' = << >> <=> n = 1 BY <1>2, <1>4
<1>9. CASE ~shuffle
  <2>1. shuffleOriginalQueue' = shuffleOriginalQueue
        /\ shuffleOriginalIndices' = shuffleOriginalIndices
    BY <1>9, Zenon DEF Removed
  <2>2. shuffleOriginalQueue = << >> /\ shuffleOriginalIndices = << >>
    BY <1>9, Zenon DEF QueueInv
  <2>3. shuffleOriginalQueue' \in Seq(Tracks) BY <1>1, <2>1
  <2>4. QueueInv' BY <1>3, <1>4, <1>6, <1>7, <1>9, <2>1, <2>2, <2>3, Zenon DEF QueueInv
  <2>5. Ordered = queue /\ Place = index BY <1>9, InvFacts, Zenon
  <2>6. Ordered' = queue' /\ Place' = index' BY <1>3, <1>9, Zenon DEF Ordered, Place
  <2>7. DOMAIN queue' = 1..(n - 1) BY <1>4, LenProperties
  <2>8. i = index => index' \in DOMAIN queue' \cup {0} /\ (index' = 0 => queue' = << >>)
    BY <1>2, <1>5, <1>8, <2>7
  <2>9. i # index => index' = IF i < index THEN index - 1 ELSE index BY <1>5
  <2>10. Order!Edit BY <1>3, <2>5, <2>6, <2>8, <2>9, IsRemove
  <2>11. QED BY <2>4, <2>10
<1>10. CASE shuffle
  <2> DEFINE gone == shuffleOriginalIndices[i]
             rest == Order!DropAt(shuffleOriginalIndices, i)
  <2>1. Mirrors(queue, shuffleOriginalQueue, shuffleOriginalIndices)
    BY <1>10, Zenon DEF QueueInv
  <2>2. /\ Len(shuffleOriginalQueue) = n /\ Ordered = shuffleOriginalQueue
        /\ shuffleOriginalIndices \in Order!Permutations(n)
        /\ DOMAIN shuffleOriginalIndices = 1..n /\ Len(shuffleOriginalIndices) = n
        /\ DOMAIN shuffleOriginalQueue = 1..n
        /\ \A k \in 1..n : shuffleOriginalIndices[k] \in 1..n
        /\ Place = (IF index = 0 THEN 0 ELSE shuffleOriginalIndices[index])
    BY <1>10, InvFacts, Zenon
  <2>3. shuffleOriginalIndices # << >> BY <1>2, <2>2
  <2>4. /\ shuffleOriginalQueue' = Order!DropAt(shuffleOriginalQueue, gone)
        /\ shuffleOriginalIndices' =
              [k \in DOMAIN rest |-> IF rest[k] > gone THEN rest[k] - 1 ELSE rest[k]]
    BY <1>10, <2>3, Zenon DEF Removed
  <2>5. gone \in 1..n BY <1>2, <2>2
  <2>6. shuffleOriginalQueue' \in Seq(Tracks) /\ Len(shuffleOriginalQueue') = n - 1
    <3> HIDE DEF gone, rest
    <3>1. QED BY <1>1, <2>2, <2>4, <2>5, DroppedSeq
  <2>7. Mirrors(queue', shuffleOriginalQueue', shuffleOriginalIndices')
    BY <1>2, <1>3, <2>1, <2>4, MirrorDropped
  <2>8. QueueInv' BY <1>3, <1>4, <1>6, <1>7, <1>10, <2>6, <2>7, Zenon DEF QueueInv
  <2>9. DOMAIN shuffleOriginalIndices' = 1..(n - 1)
        /\ \A k \in 1..(n - 1) : shuffleOriginalIndices'[k] \in 1..(n - 1)
    <3>1. shuffleOriginalIndices' \in Order!Permutations(n - 1) BY <1>4, <2>7 DEF Mirrors
    <3>2. QED BY <3>1 DEF Order!Permutations
  <2>10. Ordered' = shuffleOriginalQueue' BY <1>3, <1>10, Zenon DEF Ordered
  <2>11. Place' = IF index' = 0 THEN 0 ELSE shuffleOriginalIndices'[index']
    <3>1. index' # 0 => index' \in DOMAIN shuffleOriginalIndices' BY <1>4, <1>6, <2>9
    <3>2. 0 \notin DOMAIN shuffleOriginalIndices' BY <2>9
    <3>3. QED BY <1>3, <1>10, <3>1, <3>2, Zenon DEF Place
  <2>12. gone = Place <=> i = index
    <3>1. \A k, l \in 1..n : shuffleOriginalIndices[k] = shuffleOriginalIndices[l] => k = l
      BY <2>2 DEF Order!Permutations
    <3>2. QED BY <1>2, <2>2, <2>5, <3>1
  <2>13. ASSUME i = index
         PROVE  Place' \in DOMAIN Ordered' \cup {0} /\ (Place' = 0 => Ordered' = << >>)
    <3>1. DOMAIN shuffleOriginalQueue' = 1..(n - 1) BY <2>6, LenProperties
    <3>2. CASE index' = 0
      <4>1. n = 1 BY <1>2, <1>5, <2>13, <3>2
      <4>2. shuffleOriginalQueue' = << >> BY <2>6, <4>1
      <4>3. QED BY <2>10, <2>11, <3>2, <4>2
    <3>3. CASE index' # 0
      <4>1. index' \in 1..(n - 1) BY <1>4, <1>6, <3>3
      <4>2. Place' \in 1..(n - 1) BY <2>9, <2>11, <3>3, <4>1
      <4>3. QED BY <2>10, <3>1, <4>2
    <3>4. QED BY <3>2, <3>3
  <2>14. ASSUME i # index PROVE Place' = IF gone < Place THEN Place - 1 ELSE Place
    <3>1. CASE index = 0 BY <1>2, <1>5, <2>2, <2>5, <2>11, <2>14, <3>1
    <3>2. CASE index # 0
      <4>1. index' \in 1..(n - 1) /\ index' = (IF i < index THEN index - 1 ELSE index)
        BY <1>2, <1>4, <1>5, <1>6, <2>14, <3>2
      <4>2. rest[index'] = shuffleOriginalIndices[index]
        <5>1. \A k \in 1..(n - 1) :
                 /\ k < i => rest[k] = shuffleOriginalIndices[k]
                 /\ i <= k => rest[k] = shuffleOriginalIndices[k + 1]
          BY <1>2, <2>2 DEF Order!DropAt
        <5> DEFINE x == index'
        <5>2. x \in 1..(n - 1) BY <4>1
        <5> HIDE DEF x
        <5>3. /\ x < i => rest[x] = shuffleOriginalIndices[x]
              /\ i <= x => rest[x] = shuffleOriginalIndices[x + 1]
          BY <5>1, <5>2
        <5>4. \/ i <= x /\ x + 1 = index
              \/ x < i /\ x = index
          BY <1>2, <2>14, <4>1 DEF x
        <5> HIDE DEF rest
        <5>5. rest[x] = shuffleOriginalIndices[index] BY <5>3, <5>4
        <5>6. QED BY <5>5 DEF x
      <4>3. index' \in DOMAIN rest BY <2>4, <2>9, <4>1
      <4>4. shuffleOriginalIndices'[index']
              = IF rest[index'] > gone THEN rest[index'] - 1 ELSE rest[index']
        BY <2>4, <4>3
      <4>5. Place = shuffleOriginalIndices[index] /\ Place \in 1..n BY <1>2, <2>2, <3>2
      <4> HIDE DEF rest, gone
      <4>6. Place' = shuffleOriginalIndices'[index'] BY <2>11, <4>1
      <4>7. QED BY <2>5, <4>2, <4>4, <4>5, <4>6
    <3>3. QED BY <3>1, <3>2
  <2>15. Order!Edit
    <3>1. gone \in DOMAIN Ordered /\ Ordered' = Order!DropAt(Ordered, gone)
      BY <2>2, <2>4, <2>5, <2>10
    <3> HIDE DEF gone
    <3>2. QED BY <2>12, <2>13, <2>14, <3>1, IsRemove
  <2>16. QED BY <2>8, <2>15
<1>11. QED BY <1>9, <1>10

\* reorder: with shuffle, nothing that PlayOrder sees.
LEMMA ReorderedStep ==
    ASSUME QueueInv, NEW p, p \in Order!Permutations(Len(queue)),
           \A x \in 1..Len(queue) : \E k \in 1..Len(queue) : p[k] = x,
           Reordered(p), counter' = counter
    PROVE  QueueInv' /\ (Order!Edit \/ (Ordered' = Ordered /\ Place' = Place))
<1> DEFINE n == Len(queue)
<1>1. queue \in Seq(Tracks) /\ shuffleOriginalQueue \in Seq(Tracks) BY Zenon DEF QueueInv
<1>2. n \in Nat /\ index \in 0..n BY InvFacts
<1>3. /\ queue' = Order!Along(queue, p)
      /\ index' = IF index = 0 THEN 0 ELSE CHOOSE i \in DOMAIN p : p[i] = index
      /\ shuffle' = shuffle /\ shuffleOriginalQueue' = shuffleOriginalQueue
  BY DEF Reordered
<1>4. p \in [1..n -> 1..n] BY DEF Order!Permutations
<1>5. queue' \in Seq(Tracks) /\ Len(queue') = n BY <1>1, <1>3, <1>4, FollowedSeq
<1>6. index # 0 => index' \in 1..n /\ p[index'] = index
  <2>1. index # 0 => \E k \in DOMAIN p : p[k] = index BY <1>2, <1>4
  <2>2. index # 0 => index' \in DOMAIN p /\ p[index'] = index BY <1>3, <2>1, Zenon
  <2>3. QED BY <1>4, <2>2
<1>7. index' \in 0..Len(queue') BY <1>2, <1>3, <1>5, <1>6
<1>8. shuffle' \in BOOLEAN /\ counter' \in {0, 1} BY <1>3, Zenon DEF QueueInv
<1>9. CASE ~shuffle
  <2>1. shuffleOriginalIndices' = shuffleOriginalIndices BY <1>9, Zenon DEF Reordered
  <2>2. shuffleOriginalQueue = << >> /\ shuffleOriginalIndices = << >>
    BY <1>9, Zenon DEF QueueInv
  <2>3. shuffleOriginalQueue' \in Seq(Tracks) BY <1>1, <1>3
  <2>4. QueueInv' BY <1>3, <1>5, <1>7, <1>8, <1>9, <2>1, <2>2, <2>3, Zenon DEF QueueInv
  <2>5. Ordered = queue /\ Place = index BY <1>9, InvFacts, Zenon
  <2>6. Ordered' = queue' /\ Place' = index' BY <1>3, <1>9, Zenon DEF Ordered, Place
  <2>7. Order!Edit BY <1>3, <1>4, <1>6, <2>5, <2>6, IsRearrange
  <2>8. QED BY <2>4, <2>7
<1>10. CASE shuffle
  <2>1. Mirrors(queue, shuffleOriginalQueue, shuffleOriginalIndices)
    BY <1>10, Zenon DEF QueueInv
  <2>2. /\ Ordered = shuffleOriginalQueue
        /\ Len(shuffleOriginalIndices) = n
        /\ Place = (IF index = 0 THEN 0 ELSE shuffleOriginalIndices[index])
    BY <1>10, InvFacts, Zenon
  <2>3. shuffleOriginalIndices' = Order!Along(shuffleOriginalIndices, p)
    BY <1>10, Zenon DEF Reordered
  <2>4. Mirrors(queue', shuffleOriginalQueue', shuffleOriginalIndices')
    BY <1>3, <2>1, <2>3, MirrorFollowed
  <2>5. shuffleOriginalQueue' \in Seq(Tracks) BY <1>1, <1>3
  <2>6. QueueInv' BY <1>3, <1>5, <1>7, <1>8, <1>10, <2>4, <2>5, Zenon DEF QueueInv
  <2>7. DOMAIN shuffleOriginalIndices' = 1..n
    BY <1>5, <2>4 DEF Mirrors, Order!Permutations
  <2>8. \A k \in 1..n : shuffleOriginalIndices'[k] = shuffleOriginalIndices[p[k]]
    BY <2>2, <2>3 DEF Order!Along
  <2>9. Ordered' = Ordered BY <1>3, <1>10, <2>2, Zenon DEF Ordered
  <2>10. Place' = Place
    <3>1. CASE index = 0
      <4>1. index' = 0 /\ 0 \notin DOMAIN shuffleOriginalIndices' BY <1>3, <2>7, <3>1
      <4>2. Place' = index' BY <4>1, Zenon DEF Place
      <4>3. QED BY <2>2, <3>1, <4>1, <4>2
    <3>2. CASE index # 0
      <4>1. index' \in DOMAIN shuffleOriginalIndices' BY <1>6, <2>7, <3>2
      <4>2. Place' = shuffleOriginalIndices'[index'] BY <1>3, <1>10, <4>1, Zenon DEF Place
      <4>3. QED BY <1>6, <2>2, <2>8, <3>2, <4>2
    <3>3. QED BY <3>1, <3>2
  <2>11. QED BY <2>6, <2>9, <2>10
<1>11. QED BY <1>9, <1>10

\* clearUpcoming.
LEMMA OnlyCurrentStep ==
    ASSUME QueueInv, OnlyCurrent, counter' = counter
    PROVE  QueueInv' /\ Order!Edit
<1>1. queue \in Seq(Tracks) /\ shuffle' = shuffle BY Zenon DEF QueueInv, OnlyCurrent
<1>2. Len(queue) \in Nat /\ index \in 0..Len(queue) BY InvFacts
<1>3. /\ queue' = IF index = 0 THEN << >> ELSE <<queue[index]>>
      /\ index' = IF index = 0 THEN 0 ELSE 1
  BY <1>2 DEF OnlyCurrent, Order!Minimum
<1>4. shuffle => /\ shuffleOriginalQueue' = queue'
                 /\ shuffleOriginalIndices' = IF index = 0 THEN << >> ELSE <<1>>
  BY Zenon DEF OnlyCurrent
<1>5. ~shuffle => shuffleOriginalQueue' = << >> /\ shuffleOriginalIndices' = << >>
  BY Zenon DEF OnlyCurrent
<1>6. queue' \in Seq(Tracks) /\ Len(queue') = index'
  <2>1. CASE index = 0 BY <1>3, <2>1
  <2>2. CASE index # 0
    <3>1. queue[index] \in Tracks BY <1>1, <1>2, <2>2
    <3>2. QED BY <1>3, <2>2, <3>1
  <2>3. QED BY <2>1, <2>2
<1>7. index' \in 0..Len(queue') /\ index' \in {0, 1} BY <1>3, <1>6
<1>8. shuffleOriginalQueue' \in Seq(Tracks)
  <2>1. << >> \in Seq(Tracks) OBVIOUS
  <2>2. QED BY <1>4, <1>5, <1>6, <2>1, Zenon
<1>9. shuffle' \in BOOLEAN /\ counter' \in {0, 1} BY <1>1, Zenon DEF QueueInv
<1>10. shuffle => Mirrors(queue', shuffleOriginalQueue', shuffleOriginalIndices')
  <2>1. SUFFICES ASSUME shuffle
                 PROVE  Mirrors(queue', queue', shuffleOriginalIndices')
    BY <1>4, Zenon
  <2>2. shuffleOriginalIndices' = IF index = 0 THEN << >> ELSE <<1>> BY <1>4, <2>1, Zenon
  <2>3. CASE index = 0
    <3>1. Len(queue') = 0 /\ shuffleOriginalIndices' = << >> BY <1>3, <1>6, <2>2, <2>3
    <3>2. << >> \in [1..0 -> 1..0] OBVIOUS
    <3>3. QED BY <3>1, <3>2 DEF Mirrors, Order!Permutations
  <2>4. CASE index # 0
    <3>1. Len(queue') = 1 /\ shuffleOriginalIndices' = <<1>> BY <1>3, <1>6, <2>2, <2>4
    <3>2. <<1>> \in [1..1 -> 1..1] /\ <<1>>[1] = 1 OBVIOUS
    <3>3. <<1>> \in Order!Permutations(1) BY <3>2 DEF Order!Permutations
    <3>4. \A i \in 1..1 : queue'[i] = queue'[<<1>>[i]] BY <3>2
    <3>5. QED BY <3>1, <3>3, <3>4 DEF Mirrors
  <2>5. QED BY <2>3, <2>4
<1>11. QueueInv' BY <1>1, <1>5, <1>6, <1>7, <1>8, <1>9, <1>10, Zenon DEF QueueInv
<1>12. Ordered' = queue' BY <1>1, <1>4, Zenon DEF Ordered
<1>13. Place' = index'
  <2>1. CASE ~shuffle BY <1>1, <2>1, Zenon DEF Place
  <2>2. CASE shuffle
    <3>1. shuffleOriginalIndices' = IF index = 0 THEN << >> ELSE <<1>> BY <1>4, <2>2, Zenon
    <3>2. index' \in DOMAIN shuffleOriginalIndices' => shuffleOriginalIndices'[index'] = index'
      BY <1>3, <3>1
    <3>3. QED BY <3>2, Zenon DEF Place
  <2>3. QED BY <2>1, <2>2, Zenon
<1>14. Place = 0 <=> index = 0
  <2>1. CASE ~shuffle
    <3>1. Place = index BY <2>1, InvFacts, Zenon
    <3>2. QED BY <3>1
  <2>2. CASE shuffle
    <3>1. Place = (IF index = 0 THEN 0 ELSE shuffleOriginalIndices[index])
          /\ \A i \in 1..Len(queue) : shuffleOriginalIndices[i] \in 1..Len(queue)
      BY <2>2, InvFacts, Zenon
    <3>2. QED BY <1>2, <3>1
  <2>3. QED BY <2>1, <2>2, Zenon
<1>15. index # 0 => Ordered[Place] = queue[index]
  <2>1. CASE ~shuffle BY <2>1, InvFacts, Zenon
  <2>2. CASE shuffle
    <3>1. Place = (IF index = 0 THEN 0 ELSE shuffleOriginalIndices[index])
          /\ Ordered = shuffleOriginalQueue
      BY <2>2, InvFacts, Zenon
    <3>2. Mirrors(queue, shuffleOriginalQueue, shuffleOriginalIndices)
      BY <2>2, Zenon DEF QueueInv
    <3>3. QED BY <1>2, <3>1, <3>2 DEF Mirrors
  <2>3. QED BY <2>1, <2>2, Zenon
<1>16. Order!Edit BY <1>3, <1>12, <1>13, <1>14, <1>15, IsKeepEntry
<1>17. QED BY <1>11, <1>16

\* setShuffle: the listener sees no change.
LEMMA ShuffleOnStep ==
    ASSUME QueueInv, ShuffleOn, counter' = counter
    PROVE  QueueInv' /\ Ordered' = Ordered /\ Place' = Place
<1> DEFINE n == Len(queue)
<1>1. queue \in Seq(Tracks) /\ ~shuffle /\ shuffle' = TRUE BY Zenon DEF QueueInv, ShuffleOn
<1>2. n \in Nat /\ index \in 0..n BY InvFacts
<1>3. PICK p \in Shuffles(n, index) :
         /\ queue' = Order!Along(queue, p)
         /\ shuffleOriginalQueue' = queue /\ shuffleOriginalIndices' = p
  BY DEF ShuffleOn
<1>4. index' = IF index = 0 THEN 0 ELSE 1 BY <1>2 DEF ShuffleOn, Order!Minimum
<1>5. p \in Order!Permutations(n) /\ (index # 0 => p[1] = index) BY <1>2 DEF Shuffles
<1>6. p \in [1..n -> 1..n] BY <1>5 DEF Order!Permutations
<1>7. queue' \in Seq(Tracks) /\ Len(queue') = n BY <1>1, <1>3, <1>6, FollowedSeq
<1>8. index' \in 0..Len(queue') BY <1>2, <1>4, <1>7
<1>9. Mirrors(queue', shuffleOriginalQueue', shuffleOriginalIndices')
  BY <1>2, <1>3, <1>5, MirrorShuffled
<1>10. shuffle' \in BOOLEAN /\ counter' \in {0, 1} BY <1>1, Zenon DEF QueueInv
<1>11. QueueInv' BY <1>1, <1>3, <1>7, <1>8, <1>9, <1>10, Zenon DEF QueueInv
<1>12. Ordered = queue /\ Place = index BY <1>1, InvFacts, Zenon
<1>13. Ordered' = queue BY <1>1, <1>3, Zenon DEF Ordered
<1>14. Place' = index
  <2>1. shuffleOriginalIndices' = p /\ DOMAIN p = 1..n BY <1>3, <1>6
  <2>2. CASE index = 0
    <3>1. index' = 0 /\ 0 \notin DOMAIN shuffleOriginalIndices' BY <1>4, <2>1, <2>2
    <3>2. Place' = index' BY <3>1, Zenon DEF Place
    <3>3. QED BY <2>2, <3>1, <3>2
  <2>3. CASE index # 0
    <3>1. index' = 1 /\ index' \in DOMAIN shuffleOriginalIndices' BY <1>2, <1>4, <2>1, <2>3
    <3>2. Place' = shuffleOriginalIndices'[index'] BY <1>1, <3>1, Zenon DEF Place
    <3>3. QED BY <1>5, <2>1, <2>3, <3>1, <3>2
  <2>4. QED BY <2>2, <2>3
<1>15. QED BY <1>11, <1>12, <1>13, <1>14

\* setShuffle, when shuffle was on.
LEMMA ShuffleOffStep ==
    ASSUME QueueInv, ShuffleOff, counter' = counter
    PROVE  QueueInv' /\ Ordered' = Ordered /\ Place' = Place
<1> DEFINE n == Len(queue)
<1>1. /\ queue \in Seq(Tracks) /\ shuffleOriginalQueue \in Seq(Tracks)
      /\ shuffle /\ shuffle' = FALSE
      /\ shuffleOriginalQueue' = << >> /\ shuffleOriginalIndices' = << >>
  BY Zenon DEF QueueInv, ShuffleOff
<1>2. n \in Nat /\ index \in 0..n BY InvFacts
<1>3. /\ Len(shuffleOriginalQueue) = n /\ Ordered = shuffleOriginalQueue
      /\ Place = (IF index = 0 THEN 0 ELSE shuffleOriginalIndices[index])
      /\ Place \in 0..n
  BY <1>1, InvFacts, Zenon
<1>4. queue' = Ordered /\ index' = Place
  <2>1. CASE shuffleOriginalQueue = << >>
    <3>1. n = 0 BY <1>3, <2>1
    <3>2. queue = << >> /\ index = 0 BY <1>1, <1>2, <3>1
    <3>3. queue' = queue /\ index' = index BY <2>1, Zenon DEF ShuffleOff
    <3>4. QED BY <1>3, <2>1, <3>2, <3>3
  <2>2. CASE shuffleOriginalQueue # << >>
    <3>1. queue' = shuffleOriginalQueue
          /\ index' = IF index = 0 THEN 0 ELSE shuffleOriginalIndices[index]
      BY <2>2, Zenon DEF ShuffleOff
    <3>2. QED BY <1>3, <3>1
  <2>3. QED BY <2>1, <2>2
<1>5. queue' \in Seq(Tracks) /\ index' \in 0..Len(queue') BY <1>1, <1>3, <1>4
<1>6. << >> \in Seq(Tracks) OBVIOUS
<1>7. shuffle' \in BOOLEAN /\ counter' \in {0, 1} BY <1>1, Zenon DEF QueueInv
<1>8. QueueInv' BY <1>1, <1>5, <1>6, <1>7, Zenon DEF QueueInv
<1>9. Ordered' = queue' /\ Place' = index' BY <1>1, Zenon DEF Ordered, Place
<1>10. QED BY <1>4, <1>8, <1>9

\* playFrom.
LEMMA PlayListStep ==
    ASSUME QueueInv, NEW list \in Lists, NEW start \in DOMAIN list,
           PlayList(list, start), shuffle' = shuffle, counter' = 1 - counter
    PROVE  QueueInv' /\ Order!Move
<1> DEFINE n == Len(list)
<1>1. list \in Seq(Tracks) BY PlaybackAssumption
<1>2. n \in Nat /\ DOMAIN list = 1..n /\ start \in 1..n BY <1>1, LenProperties
<1>3. shuffle' \in BOOLEAN /\ counter \in {0, 1} BY Zenon DEF QueueInv
<1>4. counter' \in {0, 1} /\ counter' # counter BY <1>3
<1>5. CASE ~shuffle
  <2>1. /\ queue' = list /\ index' = start
        /\ shuffleOriginalQueue' = << >> /\ shuffleOriginalIndices' = << >>
    BY <1>5, Zenon DEF PlayList
  <2>2. index' \in 0..Len(queue') /\ << >> \in Seq(Tracks) BY <1>2, <2>1
  <2>3. QueueInv' BY <1>1, <1>3, <1>4, <1>5, <2>1, <2>2, Zenon DEF QueueInv
  <2>4. Ordered' = list /\ Place' = start BY <1>5, <2>1, Zenon DEF Ordered, Place
  <2>5. Order!Move BY <1>4, <2>4, IsMove
  <2>6. QED BY <2>3, <2>5
<1>6. CASE shuffle
  <2>1. PICK p \in Shuffles(n, start) :
           /\ queue' = Order!Along(list, p) /\ index' = 1
           /\ shuffleOriginalQueue' = list /\ shuffleOriginalIndices' = p
    BY <1>6, Zenon DEF PlayList
  <2>2. p \in Order!Permutations(n) /\ p[1] = start BY <1>2 DEF Shuffles
  <2>3. p \in [1..n -> 1..n] BY <2>2 DEF Order!Permutations
  <2>4. queue' \in Seq(Tracks) /\ Len(queue') = n BY <1>1, <2>1, <2>3, FollowedSeq
  <2>5. index' \in 0..Len(queue') BY <1>2, <2>1, <2>4
  <2>6. Mirrors(queue', shuffleOriginalQueue', shuffleOriginalIndices')
    BY <1>2, <2>1, <2>2, MirrorShuffled
  <2>7. QueueInv' BY <1>1, <1>3, <1>4, <1>6, <2>1, <2>4, <2>5, <2>6, Zenon DEF QueueInv
  <2>8. Ordered' = list BY <1>6, <2>1, Zenon DEF Ordered
  <2>9. Place' = start
    <3>1. index' = 1 /\ index' \in DOMAIN shuffleOriginalIndices' BY <1>2, <2>1, <2>3
    <3>2. Place' = shuffleOriginalIndices'[index'] BY <1>6, <3>1, Zenon DEF Place
    <3>3. QED BY <2>1, <2>2, <3>1, <3>2
  <2>10. Order!Move BY <1>4, <2>8, <2>9, IsMove
  <2>11. QED BY <2>7, <2>10
<1>7. QED BY <1>5, <1>6

\* The queue itself stays.
SameQueue == UNCHANGED <<queue, shuffle, shuffleOriginalQueue, shuffleOriginalIndices>>

\* The position moves within the queue: playTrack, next, previous.
LEMMA MovedStep ==
    ASSUME QueueInv, index' \in DOMAIN queue, counter' = 1 - counter,
           SameQueue
    PROVE  QueueInv' /\ Order!Move
<1> DEFINE n == Len(queue)
<1>1. /\ queue' = queue /\ shuffle' = shuffle
      /\ shuffleOriginalQueue' = shuffleOriginalQueue
      /\ shuffleOriginalIndices' = shuffleOriginalIndices
  BY DEF SameQueue
<1>2. index' \in 1..n /\ n \in Nat BY InvFacts
<1>3. counter \in {0, 1} BY Zenon DEF QueueInv
<1>4. counter' \in {0, 1} /\ counter' # counter BY <1>3
<1>5. index' \in 0..Len(queue') BY <1>1, <1>2
<1>6. QueueInv' BY <1>1, <1>4, <1>5, Zenon DEF QueueInv
<1>7. Ordered' = Ordered BY <1>1, Zenon DEF Ordered
<1>8. Place' \in DOMAIN Ordered
  <2>1. CASE ~shuffle
    <3>1. Place' = index' BY <1>1, <2>1, Zenon DEF Place
    <3>2. Ordered = queue BY <2>1, InvFacts, Zenon
    <3>3. QED BY <3>1, <3>2
  <2>2. CASE shuffle
    <3>1. /\ Ordered = shuffleOriginalQueue /\ DOMAIN shuffleOriginalQueue = 1..n
          /\ DOMAIN shuffleOriginalIndices = 1..n
          /\ \A i \in 1..n : shuffleOriginalIndices[i] \in 1..n
      BY <2>2, InvFacts, Zenon
    <3>2. index' \in DOMAIN shuffleOriginalIndices' BY <1>1, <1>2, <3>1
    <3>3. Place' = shuffleOriginalIndices'[index'] BY <1>1, <2>2, <3>2, Zenon DEF Place
    <3>4. QED BY <1>1, <1>2, <3>1, <3>3
  <2>3. QED BY <2>1, <2>2, Zenon
<1>9. Order!Move BY <1>4, <1>7, <1>8, IsMove
<1>10. QED BY <1>6, <1>9

\* The queue stays; a new play may begin at the same entry.
LEMMA StayedStep ==
    ASSUME QueueInv, UNCHANGED queueVars, counter' \in {counter, 1 - counter}
    PROVE  QueueInv' /\ (Order!Move \/ (Ordered' = Ordered /\ Place' = Place /\ counter' = counter))
<1>1. /\ queue' = queue /\ index' = index /\ shuffle' = shuffle
      /\ shuffleOriginalQueue' = shuffleOriginalQueue
      /\ shuffleOriginalIndices' = shuffleOriginalIndices
  BY DEF queueVars
<1>2. counter \in {0, 1} BY Zenon DEF QueueInv
<1>3. counter' \in {0, 1} BY <1>2
<1>4. QueueInv' BY <1>1, <1>3, Zenon DEF QueueInv
<1>5. Ordered' = Ordered /\ Place' = Place BY <1>1, Zenon DEF Ordered, Place
<1>6. CASE counter' = counter BY <1>4, <1>5, <1>6
<1>7. CASE counter' # counter
  <2>1. Place' \in DOMAIN Ordered \cup {Place} BY <1>5
  <2>2. Order!Move BY <1>5, <1>7, <2>1, IsMove
  <2>3. QED BY <1>4, <2>2
<1>8. QED BY <1>6, <1>7

-----------------------------------------------------------------------------
(* Every step of playback.                                                 *)

\* A step of PlayOrder, or none.
OrderStep ==
    Order!Move \/ Order!Edit \/ (Ordered' = Ordered /\ Place' = Place /\ counter' = counter)

\* next, whoever dispatches it.
LEMMA NextStep ==
    ASSUME QueueInv, NEW skip, NEW pending, NEW sounds, Next(skip, pending, sounds)
    PROVE  QueueInv' /\ OrderStep
<1>1. /\ Len(queue) \in Nat /\ DOMAIN queue = 1..Len(queue) /\ index \in 0..Len(queue)
      /\ (queue # << >> => Len(queue) # 0)
  <2>1. queue \in Seq(Tracks) BY DEF QueueInv
  <2>2. queue # << >> => Len(queue) # 0 BY <2>1
  <2>3. QED BY <2>2, InvFacts
<1>2. ASSUME NEW i \in DOMAIN queue, MovedTo(i, pending, "next", skip, sounds)
      PROVE  QueueInv' /\ OrderStep
  <2>1. index' \in DOMAIN queue /\ counter' = 1 - counter /\ SameQueue
    BY <1>2 DEF MovedTo, NewPlay, SameQueue
  <2>2. QED BY <2>1, MovedStep DEF OrderStep
<1>3. ASSUME UNCHANGED queueVars, counter' \in {counter, 1 - counter}
      PROVE  QueueInv' /\ OrderStep
  BY <1>3, StayedStep DEF OrderStep
<1>4. CASE queue = << >> /\ Stopped /\ checks' = pending BY <1>3, <1>4 DEF Stopped
<1>5. CASE UNCHANGED <<queueVars, counter>> BY <1>3, <1>5
<1>6. CASE index # 0 /\ MovedTo(index, pending, "next", skip, sounds)
  <2>1. index \in DOMAIN queue BY <1>1, <1>6
  <2>2. QED BY <1>2, <1>6, <2>1
<1>7. CASE ~(index >= Len(queue)) /\ MovedTo(index + 1, pending, "next", skip, sounds)
  <2>1. index + 1 \in DOMAIN queue BY <1>1, <1>7
  <2>2. QED BY <1>2, <1>7, <2>1
<1>8. CASE queue # << >> /\ MovedTo(1, pending, "next", skip, sounds)
  <2>1. 1 \in DOMAIN queue BY <1>1, <1>8
  <2>2. QED BY <1>2, <1>8, <2>1
<1>9. CASE Rewound BY <1>3, <1>9 DEF Rewound
<1>10. QED BY <1>4, <1>5, <1>6, <1>7, <1>8, <1>9 DEF Next

\* previous.
LEMMA PreviousStep ==
    ASSUME QueueInv, NEW pending, NEW sounds, Previous(pending, sounds)
    PROVE  QueueInv' /\ OrderStep
<1>1. Len(queue) \in Nat /\ DOMAIN queue = 1..Len(queue) /\ index \in 0..Len(queue)
  BY InvFacts
<1>2. ASSUME UNCHANGED queueVars, counter' \in {counter, 1 - counter}
      PROVE  QueueInv' /\ OrderStep
  BY <1>2, StayedStep DEF OrderStep
<1>3. CASE Stopped BY <1>2, <1>3 DEF Stopped
<1>4. CASE Rewound BY <1>2, <1>4 DEF Rewound
<1>5. CASE index > 1 /\ MovedTo(index - 1, pending, "previous", TRUE, sounds)
  <2>1. index - 1 \in DOMAIN queue BY <1>1, <1>5
  <2>2. index' \in DOMAIN queue /\ counter' = 1 - counter /\ SameQueue
    BY <1>5, <2>1 DEF MovedTo, NewPlay, SameQueue
  <2>3. QED BY <2>2, MovedStep DEF OrderStep
<1>6. QED BY <1>3, <1>4, <1>5 DEF Previous

\* What the listener plays.
LEMMA ListenerPlaysStep ==
    ASSUME QueueInv, ListenerPlays
    PROVE  QueueInv' /\ OrderStep
<1>1. ASSUME UNCHANGED queueVars, counter' \in {counter, 1 - counter}
      PROVE  QueueInv' /\ OrderStep
  BY <1>1, StayedStep DEF OrderStep
<1>2. ASSUME NEW list \in Lists, NEW start \in DOMAIN list, PlayFrom(list, start)
      PROVE  QueueInv' /\ OrderStep
  <2>1. PlayList(list, start) /\ shuffle' = shuffle /\ counter' = 1 - counter
    BY <1>2 DEF PlayFrom, NewPlay
  <2>2. QED BY <2>1, PlayListStep DEF OrderStep
<1>3. ASSUME NEW i \in DOMAIN queue, PlayTrackAt(i)
      PROVE  QueueInv' /\ OrderStep
  <2>1. index' \in DOMAIN queue /\ counter' = 1 - counter /\ SameQueue
    BY <1>3 DEF PlayTrackAt, NewPlay, SameQueue
  <2>2. QED BY <2>1, MovedStep DEF OrderStep
<1>4. CASE Skip BY <1>4, NextStep DEF Skip
<1>5. CASE SkipBack BY <1>5, PreviousStep DEF SkipBack
<1>6. CASE Restart BY <1>1, <1>6 DEF Restart
<1>7. CASE TogglePlay BY <1>1, <1>7 DEF TogglePlay
<1>8. CASE Stop BY <1>1, <1>8 DEF Stop, Stopped
<1>9. ASSUME NEW mode, SetRepeat(mode) PROVE QueueInv' /\ OrderStep
  BY <1>1, <1>9 DEF SetRepeat
<1>10. QED BY <1>2, <1>3, <1>4, <1>5, <1>6, <1>7, <1>8, <1>9 DEF ListenerPlays

\* What the listener edits.
LEMMA ListenerEditsStep ==
    ASSUME QueueInv, ListenerEdits
    PROVE  QueueInv' /\ OrderStep
<1>1. Len(queue) \in Nat /\ DOMAIN queue = 1..Len(queue) /\ index \in 0..Len(queue)
  BY InvFacts
<1>2. ASSUME NEW tracks \in Additions, NEW at \in 1..(Len(queue) + 1), AddToQueue(tracks, at)
      PROVE  QueueInv' /\ OrderStep
  <2>1. Added(tracks, at) /\ counter' = counter BY <1>2 DEF AddToQueue, Edit
  <2>2. QED BY <2>1, AddedStep DEF OrderStep
<1>3. ASSUME NEW tracks \in Additions, PlayNext(tracks)
      PROVE  QueueInv' /\ OrderStep
  <2> DEFINE at == Order!Minimum(index, Len(queue)) + 1
  <2>1. at \in 1..(Len(queue) + 1) /\ ~(at <= index) BY <1>1 DEF Order!Minimum
  <2>2. Splice(tracks, at) /\ UNCHANGED <<index, shuffle>> /\ counter' = counter
    BY <1>3 DEF PlayNext, Edit
  <2> HIDE DEF at
  <2>3. Added(tracks, at) BY <2>1, <2>2 DEF Added
  <2>4. QED BY <2>1, <2>2, <2>3, AddedStep DEF OrderStep
<1>4. ASSUME NEW i \in DOMAIN queue, RemoveFromQueue(i)
      PROVE  QueueInv' /\ OrderStep
  <2>1. Removed(i) /\ counter' = counter BY <1>4 DEF RemoveFromQueue, Edit
  <2>2. QED BY <2>1, RemovedStep DEF OrderStep
<1>5. ASSUME NEW i \in DOMAIN queue, NEW j \in DOMAIN queue, Reorder(i, j)
      PROVE  QueueInv' /\ OrderStep
  <2> DEFINE places == [k \in DOMAIN queue |-> k]
             p == Order!InsertAt(Order!DropAt(places, i), j, <<i>>)
  <2>1. Reordered(p) /\ counter' = counter BY <1>5 DEF Reorder, Edit
  <2>2. i \in 1..Len(queue) /\ j \in 1..Len(queue) BY <1>1, <1>5
  <2>3. \A k \in 1..Len(queue) : places[k] = k BY <1>1
  <2>4. Len(places) = Len(queue)
    <3>1. places = [k \in 1..Len(queue) |-> places[k]] BY <1>1
    <3> HIDE DEF places
    <3>2. QED BY <1>1, <3>1, FunctionLen
  <2>5. p \in Order!Permutations(Len(queue))
        /\ \A x \in 1..Len(queue) : \E k \in 1..Len(queue) : p[k] = x
    <3> DEFINE block == <<i>>
    <3>1. p = Order!InsertAt(Order!DropAt(places, i), j, block) /\ block = <<i>> OBVIOUS
    <3>2. Len(queue) \in Nat BY <1>1
    <3>3. Identity(places, Len(queue)) BY <2>3, <2>4 DEF Identity
    <3> HIDE DEF places, p, block
    <3>4. Onto(p, Len(queue)) BY <2>2, <3>1, <3>2, <3>3, PermutationMoved
    <3>5. QED BY <3>4 DEF Onto
  <2> HIDE DEF p
  <2>6. QED BY <2>1, <2>5, ReorderedStep DEF OrderStep
<1>6. CASE ClearUpcoming
  <2>1. OnlyCurrent /\ counter' = counter BY <1>6 DEF ClearUpcoming, Edit
  <2>2. QED BY <2>1, OnlyCurrentStep DEF OrderStep
<1>7. CASE SetShuffle
  <2>1. (ShuffleOn \/ ShuffleOff) /\ counter' = counter BY <1>7 DEF SetShuffle, Edit
  <2>2. QED BY <2>1, ShuffleOnStep, ShuffleOffStep DEF OrderStep
<1>8. QED BY <1>2, <1>3, <1>4, <1>5, <1>6, <1>7 DEF ListenerEdits

\* What the sagas and the audio element do.
LEMMA SagasStep ==
    ASSUME QueueInv, SagasGoOn \/ PlaybackFails \/ Ended
    PROVE  QueueInv' /\ OrderStep
<1>1. ASSUME UNCHANGED queueVars, counter' \in {counter, 1 - counter}
      PROVE  QueueInv' /\ OrderStep
  BY <1>1, StayedStep DEF OrderStep
<1>2. ASSUME NEW i \in DOMAIN checks, CheckDone(i) PROVE QueueInv' /\ OrderStep
  <2> DEFINE pending == Order!DropAt(checks, i)
  <2>1. \/ Next(checks[i].skip, pending, audio.on)
        \/ Previous(pending, audio.on)
        \/ UNCHANGED queueVars /\ counter' = counter
    BY <1>2 DEF CheckDone
  <2> HIDE DEF pending
  <2>2. QED BY <1>1, <2>1, NextStep, PreviousStep
<1>3. CASE Fetched BY <1>1, <1>3, NextStep DEF Fetched
<1>4. CASE Started BY <1>1, <1>4 DEF Started
<1>5. ASSUME NEW t \in Suggested, Extend(t) PROVE QueueInv' /\ OrderStep
  <2>1. counter' = counter /\ (Added(<<t>>, Len(queue) + 1) \/ UNCHANGED queueVars)
    BY <1>5 DEF Extend
  <2>2. CASE UNCHANGED queueVars BY <1>1, <2>1, <2>2
  <2>3. CASE Added(<<t>>, Len(queue) + 1)
    <3> DEFINE at == Len(queue) + 1
               block == <<t>>
    <3>1. at \in 1..(Len(queue) + 1) BY InvFacts
    <3>2. block \in Additions \cup {<<u>> : u \in Suggested} OBVIOUS
    <3>3. Added(block, at) BY <2>3
    <3> HIDE DEF at, block
    <3>4. QED BY <2>1, <3>1, <3>2, <3>3, AddedStep DEF OrderStep
  <2>4. QED BY <2>1, <2>2, <2>3
<1>6. CASE FetchFails BY <1>1, <1>6 DEF FetchFails
<1>7. CASE AudioFails BY <1>1, <1>7 DEF AudioFails
<1>8. ASSUME NEW i, CheckFails(i) PROVE QueueInv' /\ OrderStep
  BY <1>1, <1>8 DEF CheckFails, Stopped
<1>9. CASE Ended BY <1>9, NextStep DEF Ended
<1>10. QED
  BY <1>2, <1>3, <1>4, <1>5, <1>6, <1>7, <1>8, <1>9
  DEF SagasGoOn, PlaybackFails, QueryDone, Recommend

\* Every step, and stuttering.
LEMMA PlaybackStep == QueueInv /\ [PlaybackNext]_vars => QueueInv' /\ OrderStep
<1>1. QueueInv /\ PlaybackNext => QueueInv' /\ OrderStep
  BY ListenerPlaysStep, ListenerEditsStep, SagasStep DEF PlaybackNext
<1>2. QueueInv /\ UNCHANGED vars => QueueInv' /\ OrderStep
  <2>1. UNCHANGED vars => UNCHANGED queueVars /\ counter' = counter BY DEF vars
  <2>2. QED BY <2>1, StayedStep DEF OrderStep
<1>3. QED BY <1>1, <1>2

-----------------------------------------------------------------------------
\* The queue and its shuffled copy agree, and the position is one of theirs,
\* whatever the listener, the sagas and the audio element do.
THEOREM PlaybackInvariant == PlaybackSpec => []QueueInv
  BY InitQueueInv, PlaybackStep, PTL DEF PlaybackSpec

\* setShuffle, and all that edits both lists: for any lists and lengths, the
\* queue as it plays is the queue as it was queued, along a permutation.
THEOREM ShuffleMirrors == PlaybackSpec => []Mirrored
  BY PlaybackInvariant, InvChecked, PTL

\* removeFromQueue, clearUpcoming and the rest: the current position is in the
\* queue, whatever was removed and however long the queue.
THEOREM PositionInQueue == PlaybackSpec => []InQueue
  BY PlaybackInvariant, InvChecked, PTL

\* Whatever the sagas interleave, playback implements PlayOrder: in the order the
\* tracks were queued, only a new play moves the listener to another entry.
THEOREM PlaybackKeepsOrder == PlaybackSpec => KeepsOrder
<1>1. OrderStep => [Order!Move \/ Order!Edit]_<<Ordered, Place, counter>>
  BY DEF OrderStep
<1>2. QueueInv /\ [PlaybackNext]_vars
      => [Order!Move \/ Order!Edit]_<<Ordered, Place, counter>>
  BY <1>1, PlaybackStep
<1>3. PlaybackInit => Order!Empty BY InitQueueInv
<1>4. QED
  BY <1>2, <1>3, PlaybackInvariant, PTL
  DEF PlaybackSpec, KeepsOrder, Order!OrderSpec, Ordered, Place

=============================================================================
