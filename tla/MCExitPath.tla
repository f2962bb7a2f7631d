----------------------------- MODULE MCExitPath -----------------------------
(* ExitPath on two positions of one book: two lots behind a ladder of two    *)
(* rungs, and one lot without targets.                                       *)
EXTENDS ExitPath

CONSTANTS p1, p2, fudkii

MCBookOf == [p \in Positions |-> fudkii]
MCQty == [p \in Positions |-> IF p = p1 THEN 2 ELSE 1]
MCEntryCost == [p \in Positions |-> IF p = p1 THEN 3 ELSE 4]
MCNTargets == [p \in Positions |-> IF p = p1 THEN 2 ELSE 0]
MCRungLots == [p \in Positions |-> 1]
MCInvested ==
    [b \in Books |->
        SumFunctionOnSet([p \in Positions |-> MCQty[p] * MCEntryCost[p]], Positions)]
MCPnLs == {-2}
=============================================================================
