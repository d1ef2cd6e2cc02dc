------------------------- MODULE MCDeviceController -------------------------
(* Two requests and two workers, as many as a report needs that comes in  *)
(* late for the recovery the other one ends; two attempts tell the last    *)
(* one from the rest.                                                      *)
EXTENDS DeviceController
=============================================================================
