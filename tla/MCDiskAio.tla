------------------------------ MODULE MCDiskAio ------------------------------
(* DiskAio for the bounds of disk.cfg and of disk_lost.cfg.                *)
EXTENDS DiskAio
=============================================================================
