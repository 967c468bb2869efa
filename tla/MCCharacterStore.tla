-------------------------- MODULE MCCharacterStore --------------------------
(* Constants of CharacterStore for TLC.                                    *)
EXTENDS CharacterStore

O(kind, key, item, amount, yen, hp, machine, win) ==
    [kind |-> kind, key |-> key, item |-> item, amount |-> amount, yen |-> yen,
     hp |-> hp, machine |-> machine, win |-> win]

MCItems == {"winning_can", "food"}
MCMaxStack == [i \in MCItems |-> 1]
MCMaxHP == 2
MCStart == [c \in Columns |-> CASE c = "yen" -> 2 [] c \in {"alive", "food", "hp"} -> 1
                                [] OTHER -> 0]

(* Two purchases are affordable, spending after one of them is not; one    *)
(* winning can fits; the food heals one point.                             *)
AllOps == {
    O("credit", "k", "", 0, 1, 0, "", FALSE),
    O("spend", "k", "", 0, -2, 0, "", FALSE),
    O("grant", "k", "food", 1, 0, 0, "", FALSE),
    O("consume", "", "food", 1, 0, 0, "", FALSE),
    O("award", "k", "", 1, 0, 0, "", FALSE),
    O("change", "k", "", 0, 0, -1, "", FALSE),
    O("change", "", "", 0, 0, 2, "", FALSE),
    O("use", "", "food", 1, 0, 1, "", FALSE),
    O("buy", "v", "winning_can", 0, -1, 0, "m", TRUE),
    O("buy", "v", "winning_can", 0, -1, 0, "m", FALSE),
    O("buy", "v", "winning_can", 0, -1, 0, "n", FALSE),
    O("buy", "w", "winning_can", 0, -1, 0, "m", TRUE),
    O("arcade", "", "", 1, 0, 0, "", FALSE),
    O("arcade", "", "", 2, 0, 0, "", FALSE),
    O("talk", "", "", 0, 0, 0, "", FALSE),
    O("talk", "", "", 1, 0, 0, "", FALSE),
    O("delete", "", "", 0, 0, 0, "", FALSE)}

(* Any two calls, and a third that asks for a purchase again.              *)
Third == {O("buy", "v", "winning_can", 0, -1, 0, "m", FALSE)}
MCOps == [s \in Calls |-> IF s <= 2 THEN AllOps ELSE Third]
=============================================================================
