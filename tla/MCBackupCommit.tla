--------------------------- MODULE MCBackupCommit ---------------------------
\* Two archive names, so that a later backup may take the name of a failed one.
EXTENDS BackupCommit

CONSTANTS n1, n2

MCNames == {n1, n2}
MCPaths == MCNames \cup {State, History}
MCValues == {s \cup {} : s \in SUBSET (1..MaxBackups)}

=============================================================================
