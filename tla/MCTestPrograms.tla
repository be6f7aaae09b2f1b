---- MODULE MCTestPrograms ----
EXTENDS TestPrograms
MCCpuOptions ==
  { [given |-> {}, skip |-> {"L3"}, count |-> 2, htt |-> FALSE],
    [given |-> {"speed", "L2", "L3"}, skip |-> {}, count |-> 1, htt |-> TRUE] }
MCTables ==
  { <<>>, <<[kind |-> "ide", major |-> 3], [kind |-> "scsi", major |-> 8]>>,
    <<[kind |-> "floppy", major |-> 2], [kind |-> "ide", major |-> 3], [kind |-> "ide", major |-> 22]>> }
Disk(k, m, n, d) == [kind |-> k, major |-> m, minor |-> n, dev |-> d]
MCStats ==
  { <<Disk("ide", 3, 0, "hda"), Disk("ide", 3, 1, "hda"), Disk("scsi", 8, 0, "sda"), Disk("scsi", 8, 16, "sdb")>>,
    <<Disk("floppy", 2, 0, "fd"), Disk("ide", 22, 0, "hdc")>> }
MCPatterns == <<85, 127>>
====
