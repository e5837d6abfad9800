--------------------------- MODULE MCResumeRecord ---------------------------
(* ResumeRecord for some settings of BACKUP_ROOT. *)
EXTENDS ResumeRecord, TLC

\* "/srv/backup", and the file system root's child "/srv".
PlainRoots == {<<"/", "srv", "/", "backup">>, <<"/", "srv">>}

\* "/srv/backup/", and "/srv/my backup".
OtherRoots == {<<"/", "srv", "/", "backup", "/">>, <<"/", "srv", "/", "my backup">>}

Symmetry == Permutations(Attempts)

=============================================================================
