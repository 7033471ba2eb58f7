------------------------------ MODULE MCLoadTest ------------------------------
(* Two subscribers.                                                          *)
EXTENDS LoadTest

CONSTANTS s1, s2

MCSubscriber == {s1, s2}
===============================================================================
