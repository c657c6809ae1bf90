------------------------- MODULE MCAddressDecoding -------------------------
(* Three objects: a list of the first fits a command, one of the second    *)
(* may not, and nothing is known of the third.                             *)
EXTENDS AddressDecoding

CONSTANTS d1, d2

MCOthers == {d2}
MCObjects == {1, 2, 3}
MCUnreadable == {3}
MCRoom == [o \in MCObjects |-> IF o = 1 THEN 2 ELSE 1]
=============================================================================
