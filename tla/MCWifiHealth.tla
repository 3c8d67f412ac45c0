---------------------------- MODULE MCWifiHealth ----------------------------
(* The model values TLC gives WifiHealth: a table of three delays, the first  *)
(* shorter than the recovery pattern, as 2 s and 3 s are in the firmware.   *)
EXTENDS WifiHealth

MCBackoff == <<1, 2, 4>>
=============================================================================
