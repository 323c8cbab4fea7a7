----------------------------- MODULE MCReactor -----------------------------
(***************************************************************************)
(* Values of the constants of Reactor: how many requests each client       *)
(* sends, which have no answer, and which make process throw.              *)
(***************************************************************************)
EXTENDS Reactor

MCTwoAndOne == [c \in Conn |-> IF c = 0 THEN 2 ELSE 1]

MCThreeEach == [c \in Conn |-> 3]

MCNone == {}

MCFirst == {<<0, 1>>}

MCSecond == {<<0, 2>>}
=============================================================================
