--------------------------- MODULE MCEvidenceStore ---------------------------
(* EvidenceStore with two collectors.  The first three commands are the     *)
(* same acquisition, the same one with a different clock and description,   *)
(* and a later sighting; the fourth is the same content from another source *)
(* and without a record identifier.                                         *)
EXTENDS EvidenceStore

CONSTANTS feed, desk, filing, bytes, first, later, formD, manual

Acquire(source, record, key, time, described) ==
    [source |-> source, record |-> record, content |-> bytes, key |-> key,
     time |-> time, described |-> described]

MCCommands ==
    {Acquire(feed, filing, first, 1, formD), Acquire(feed, filing, first, 2, manual),
     Acquire(feed, filing, later, 2, formD),
     Acquire(desk, None, first, 2, manual)}
=============================================================================
