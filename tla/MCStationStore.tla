-------------------------- MODULE MCStationStore --------------------------
(* Two stations; login informations c1 and c2 of one account, d1 of another. *)
EXTENDS StationStore

CONSTANTS c1, c2, d1, X, Y

MCIds == {1, 2}
MCCreds == {c1, c2, d1}
MCAccountOf == [c \in MCCreds |-> IF c = d1 THEN Y ELSE X]
=============================================================================
