-------------------------------- MODULE MCSetup --------------------------------
(* Three servers: two share a slot name, the third has a suffix of its own.   *)
EXTENDS Setup

CONSTANTS s1, s2, s3, shared, suffixed

MCServer == {s1, s2, s3}
MCSlotName == [s \in MCServer |-> IF s = s3 THEN suffixed ELSE shared]
================================================================================
