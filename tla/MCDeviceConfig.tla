--------------------------- MODULE MCDeviceConfig ---------------------------
(* Two words with one to skip between them; one recovery while two late  *)
(* reports of failures are on their way.                                   *)
EXTENDS DeviceConfig
=============================================================================
