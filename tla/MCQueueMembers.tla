--------------------------- MODULE MCQueueMembers ---------------------------
EXTENDS QueueMembers
CONSTANTS stat, rt, if1, if2
MCOrder == <<if1, if2>>
MCFiles == {stat :> (if1 :> 0 @@ if2 :> 0), stat :> (if2 :> 0), <<>>}
=============================================================================
