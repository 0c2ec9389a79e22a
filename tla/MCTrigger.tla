------------------------------ MODULE MCTrigger ------------------------------
EXTENDS TriggerSequence

\* The last CRIM gates the last channel, the master all the others.
MCCrimOf == [h \in Channels |-> IF h = NChannels THEN NCrims ELSE 1]

=============================================================================
