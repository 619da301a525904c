--------------------------- MODULE MCRealisation ---------------------------
(* Three classes in a line, the last with a second base; a module of the    *)
(* runtime and one of a guest; the classes that run code have static        *)
(* members.                                                                 *)
EXTENDS Realisation

CONSTANTS g1, g2, Base, Left, Both, Plain, common, private

MCHostBases ==
    [c \in Classes |-> CASE c = Left -> <<Base>>
                         [] c = Both -> <<Left, Plain>>
                         [] OTHER -> <<>>]

MCStatics == [c \in Classes |-> CASE c = Left -> 2 [] c = Plain -> 1 [] OTHER -> 0]

MCDeclares == [m \in Modules |-> IF m = common THEN {Left} ELSE {Both}]

MCOwn == [g \in Guests |-> IF g = g1 THEN {} ELSE {private}]
============================================================================
