------------------------------ MODULE PlayOrder ------------------------------
(***************************************************************************)
(* What the playback queue promises to the listener, whatever the order in *)
(* which it is played: a list of tracks as they were queued and a position *)
(* in it.  The position moves only with a new play, which counts; whoever  *)
(* edits the list meanwhile, and whoever turns shuffle on or off, leaves   *)
(* the listener at the same entry.                                         *)
(***************************************************************************)
EXTENDS Integers, Sequences

CONSTANTS Pages,   \* the lists that a page plays
          Blocks   \* the lists that are added to the queue

VARIABLES
    order,   \* the tracks in the order they were queued
    place,   \* the entry the listener is at, 0 for none
    plays    \* new plays, modulo 2

Minimum(a, b) == IF a < b THEN a ELSE b

\* The sequence s with the sequence t before position at.
InsertAt(s, at, t) ==
    [i \in 1..(Len(s) + Len(t)) |-> IF i < at THEN s[i]
                                    ELSE IF i < at + Len(t) THEN t[i - at + 1]
                                    ELSE s[i - Len(t)]]

\* The sequence s without position at.
DropAt(s, at) == [i \in 1..(Len(s) - 1) |-> IF i < at THEN s[i] ELSE s[i + 1]]

\* The ways to order n positions.
Permutations(n) == {p \in [1..n -> 1..n] : \A i, j \in 1..n : p[i] = p[j] => i = j}

\* The entries of s at the positions p.
Along(s, p) == [i \in 1..Len(s) |-> s[p[i]]]

-----------------------------------------------------------------------------
Empty == order = << >> /\ place = 0 /\ plays = 0

\* A new play: of the entry itself, of another entry, of another list.
Move ==
    /\ plays' # plays
    /\ \/ order' = order /\ place' \in DOMAIN order \cup {place}
       \/ order' \in Pages /\ place' \in DOMAIN order'

Insert ==
    \E block \in Blocks, at \in 1..(Len(order) + 1) :
        /\ order' = InsertAt(order, at, block)
        /\ place' = IF at <= place THEN place + Len(block) ELSE place

\* An entry goes; the listener stays where it was, unless it was that entry.
Remove ==
    \E i \in DOMAIN order :
        /\ order' = DropAt(order, i)
        /\ IF i = place THEN /\ place' \in DOMAIN order' \cup {0}
                             /\ place' = 0 => order' = << >>
                        ELSE place' = IF i < place THEN place - 1 ELSE place

Rearrange ==
    \E p \in Permutations(Len(order)) :
        /\ order' = Along(order, p)
        /\ IF place = 0 THEN place' = 0 ELSE place' \in DOMAIN p /\ p[place'] = place

KeepEntry ==
    IF place = 0 THEN order' = << >> /\ place' = 0
                 ELSE order' = <<order[place]>> /\ place' = 1

Edit == (Insert \/ Remove \/ Rearrange \/ KeepEntry) /\ plays' = plays

OrderSpec == Empty /\ [][Move \/ Edit]_<<order, place, plays>>

=============================================================================
