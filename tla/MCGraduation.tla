---------------------------- MODULE MCGraduation ----------------------------
(* Graduation with two founders who want the same name for their ventures; *)
(* the runs differ in the number of claims that may be refused.            *)
EXTENDS Graduation

CONSTANTS alice, bob, kiosk, booth, acme

MCOwnerOf == [v \in {kiosk, booth} |-> IF v = booth THEN bob ELSE alice]
MCWanted == [v \in {kiosk, booth} |-> acme]
=============================================================================
