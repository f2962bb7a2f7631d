-------------------------------- MODULE MCLegs --------------------------------
(* Two calls, what each traded five days long, and a position, over a midnight.    *)
EXTENDS Legs, LegRungs

S(h, l, c, v) == [high |-> h, low |-> l, close |-> c, volume |-> v]
Good == <<S(30, 18, 24, 500), S(28, 16, 20, 500), S(26, 20, 22, 500), S(36, 21, 33, 500), S(40, 30, 34, 500)>>
Thin == <<S(30, 18, 24, 500), S(28, 16, 20, 500), S(26, 20, 22, 500), S(26, 24, 24, 9), S(24, 24, 24, 500)>>
InUnits(seq) == [d \in Days |-> S(seq[d + 1].high * 60, seq[d + 1].low * 60, seq[d + 1].close * 60, seq[d + 1].volume)]
Ladders == [k \in Strikes |-> [d \in Days |-> Ladder(Rows(InUnits(IF k = 1010 THEN Thin ELSE Good), d), d)]]
MCLadders == Ladders

B(own, daily, room, projected) == [own |-> own, daily |-> daily, room |-> room, projected |-> projected]
MCBooks == {B(TRUE, FALSE, 0, 0), B(TRUE, TRUE, 0, 0), B(TRUE, FALSE, 10, 0), B(FALSE, FALSE, 0, 4), B(FALSE, FALSE, 0, 2)}
MCPremiums == {27 * 60}
MCShares == <<40, 30, 20, 10>>

===============================================================================
