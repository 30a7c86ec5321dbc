-------------------------- MODULE MCRewardsAttester --------------------------
(* Two rewards of one block that tie, one of the next block and one of a Solana *)
(* challenge; three of one block and one of the next; and rewards all of one    *)
(* block, or of blocks of their own.                                            *)
EXTENDS RewardsAttester

MCBlock == <<1, 1, 2, 9>>
MCThree == <<1, 1, 1, 2>>
MCOrder == <<1, 2, 3, 4>>
MCOneBlock == <<1, 1, 1, 1>>
MCApart == <<1, 2, 3>>
MCSlots == <<7, 8, 9>>
=============================================================================
