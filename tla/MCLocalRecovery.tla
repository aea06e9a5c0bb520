--------------------------- MODULE MCLocalRecovery ---------------------------
(* Two services: the recorder, whose start script holds its repair off and    *)
(* which the start of the platform does not resume, and the backup.           *)
EXTENDS LocalRecovery

CONSTANTS recorder, backup

MCOrder == <<recorder, backup>>
MCGuarded == {recorder}
MCUnresumed == {recorder}
MCBackups == {backup}
=============================================================================
