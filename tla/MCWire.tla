------------------------------- MODULE MCWire -------------------------------
(* Texts of at most two bytes, values of at most three.                    *)
EXTENDS Wire

MCNames  == {<<>>, <<1>>, <<2, 1>>}
MCValues == {<<>>, <<2>>, <<0, 1>>, <<1, 0, 2>>}
=============================================================================
