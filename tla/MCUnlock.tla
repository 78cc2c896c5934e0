------------------------------ MODULE MCUnlock ------------------------------
(***************************************************************************)
(* Two tablets of one model.  One EDL tool prints the serial and a long    *)
(* PBL hash; another prints a short hash and no serial.                    *)
(***************************************************************************)
EXTENDS UnlockProps

CONSTANTS t1, t2

MCTablets == {t1, t2}

Full(serial) == [hwid |-> "hw", jtag_id |-> "jtag", serial |-> serial,
                 pbl_hash |-> <<"p", "q">>]

NoSerial == [hwid |-> "hw", jtag_id |-> Unknown, serial |-> Unknown,
             pbl_hash |-> <<"p">>]

MCReports ==
  [t \in MCTablets |-> IF t = t1 THEN {Full("1"), NoSerial} ELSE {Full("2")}]

MCPlans == {[slots |-> <<"a">>, frp |-> "none", erase |-> TRUE]}

MCCoverages == {Parts, {"abl_a"}}

MCOrders == {<<"abl_a", "devinfo">>}
=============================================================================
