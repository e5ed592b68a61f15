--------------------------------- MODULE Lists ---------------------------------
(***************************************************************************)
(* The loops of src/native/share_link_parser.cpp that go through a list    *)
(* and keep some of its items.                                             *)
(***************************************************************************)
EXTENDS Naturals, Sequences

(* The members of "places" up to n, in their order.                        *)
InOrder(places, n) ==
    LET upTo[i \in 0..n] == IF i = 0 THEN <<>>
                            ELSE IF i \in places THEN Append(upTo[i - 1], i)
                            ELSE upTo[i - 1]
    IN  upTo[n]

(* The items of a list at those places, in their order.                    *)
Picked(items, places) ==
    LET chosen == InOrder(places, Len(items))
    IN  [i \in DOMAIN chosen |-> items[chosen[i]]]

=============================================================================
