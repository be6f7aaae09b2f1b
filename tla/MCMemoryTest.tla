---- MODULE MCMemoryTest ----
EXTENDS MemoryTest
MCBlocksOf == [z \in Zones |-> IF z = Low THEN 2 ELSE 1]
MCDivisorOf == [z \in Zones |-> IF z = Low THEN 2 ELSE 1]
====
