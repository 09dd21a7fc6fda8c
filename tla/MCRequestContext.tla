--------------------------- MODULE MCRequestContext ---------------------------
(* Instances of RequestContext for TLC.                                    *)
EXTENDS RequestContext

Shape(p1, p2, p3, d1, d2, d3) == [parent |-> <<p1, p2, p3>>, dl |-> <<d1, d2, d3>>]

(* A chain and a fork without deadlines, a chain whose middle has an       *)
(* earlier deadline than its top, and one whose top has a deadline and     *)
(* whose bottom asks for a useless later one.                              *)
MCShapes == {Shape(0, 1, 2, 3, 3, 3), Shape(0, 1, 1, 3, 3, 3),
             Shape(0, 1, 2, 2, 1, 3), Shape(0, 1, 2, 1, 3, 2)}
===============================================================================
