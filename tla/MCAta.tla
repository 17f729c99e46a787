-------------------------------- MODULE MCAta -------------------------------
(* Registers of one bit, so that every register of the address matters,    *)
(* and every kind of drive.                                                *)
EXTENDS Ata

MCDrives == [cache : BOOLEAN, queues : BOOLEAN]
=============================================================================
