---------------------------- MODULE MCAttributes ----------------------------
(* Three attributes, one of them too large for the section together with    *)
(* another, and a name that grows.                                          *)
EXTENDS Attributes

SomeShort == <<1>>
SomeLong == <<2, 2, 1, 2, 1>>
SomeData == {<<>>, SomeShort, <<2, 1>>, <<1, 2, 1>>, SomeLong}
=============================================================================
