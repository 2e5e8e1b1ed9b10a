---------------------------- MODULE MCJsonViewer ----------------------------
(***************************************************************************)
(* Instances of JsonViewer for TLC: two bodies that share some paths, one  *)
(* with a node inside a node that can be folded, one with an empty         *)
(* container; one of them loose too; a terminal for every layout, the tiny *)
(* one lower than a tree and so narrow that two lines wrap, the narrow one *)
(* so that one does, the list of the widest one lower than its requests;   *)
(* two of the four tabs, in forms of two widths; traces whose              *)
(* payloads have not come yet, come one after the other, or are replaced.  *)
(***************************************************************************)
EXTENDS JsonViewer

DeepTree == [nodes |-> {<<>>, <<1>>, <<1, 1>>, <<2>>},
             containers |-> {<<>>, <<1>>}]
FlatTree == [nodes |-> {<<>>, <<1>>}, containers |-> {<<>>, <<1>>}]
TwoTrees == {DeepTree, FlatTree}

Json(t) == [kind |-> "json", nodes |-> t.nodes, containers |-> t.containers]
Loose(t) == [kind |-> "loose", nodes |-> t.nodes, containers |-> t.containers]
SomePayloads == {<<Empty, Empty>>, <<Json(DeepTree), Empty>>,
                 <<Json(DeepTree), Json(FlatTree)>>, <<Json(FlatTree), Plain>>,
                 <<Plain, Loose(DeepTree)>>, <<Json(FlatTree), Json(FlatTree)>>}

Size(width, height) == [width |-> width, height |-> height]
ThreeSizes == {Size(40, 5), Size(50, 13), Size(80, 10)}
TwoForms == <<<<30, 20>>, <<11, 12>>>>
=============================================================================
