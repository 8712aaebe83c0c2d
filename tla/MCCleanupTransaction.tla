------------------------ MODULE MCCleanupTransaction ------------------------
EXTENDS CleanupTransaction

CONSTANTS i1, i2

\* Two cleanups one after the other, the larger one last.
MCChoices == <<{"exports"}, {"training"}>>

MCAny == [x \in Transactions |-> Targets]

=============================================================================
