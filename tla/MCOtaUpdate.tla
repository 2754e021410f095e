------------------------------ MODULE MCOtaUpdate ------------------------------
(* The delivered image, a newer one of two buffers, and a file that is no      *)
(* application.  One OTA partition, as in partitions.csv.  Two timeouts in a   *)
(* row are borne with instead of eleven.                                       *)
EXTENDS OtaUpdate
CONSTANTS v1, v2, junk
MCFiles == {v1, v2, junk}
MCGood == {v1, v2}
MCLen == [f \in MCFiles |-> IF f = v2 THEN 2 ELSE 1]
MCSlots == 1
MCMaxStalls == 3
===============================================================================
