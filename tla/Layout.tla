------------------------------- MODULE Layout -------------------------------
(***************************************************************************)
(* The layout of the dashboard (tui.go): which part of the terminal View   *)
(* gives to the list of requests and to the detail panel.  A size is the   *)
(* width and height of the terminal, coordinates begin at 0.               *)
(*                                                                         *)
(* Below a header and above a footer of one line stand, on a tiny terminal *)
(* the detail panel alone, on a narrow one the panel in a frame, on others *)
(* the list in a frame and the panel in a frame beside it.                 *)
(***************************************************************************)
EXTENDS Integers, Sequences, FiniteSetsExt, SequencesExt

CONSTANTS
  TabForms,   \* the forms of the tab row, from the longest to the shortest:
              \* the widths of the tabs, one for each panel
  WrapWidths, \* for each line more that the panel has above the tabs when its
              \* lines wrap, the width below which it has it
  FreeModels, OtherModels,  \* how many models the catalogue has
  LongestID   \* the length of the longest of their ids

ASSUME LayoutAssumption ==
  /\ TabForms \in Seq(Seq(Nat \ {0})) \ {<<>>} 
  /\ WrapWidths \subseteq Nat /\ IsFiniteSet(WrapWidths)
  /\ FreeModels \in Nat /\ OtherModels \in Nat /\ LongestID \in Nat
  /\ \A i \in DOMAIN TabForms : Len(TabForms[i]) = Len(TabForms[1])

Panels == DOMAIN TabForms[1]

Mode(size) == CASE size.width < 48 \/ size.height < 10 -> "tiny"
                [] size.width \in 48..71 /\ size.height >= 10 -> "narrow"
                [] OTHER -> "split"

HeaderLines(size, showModels) ==
  IF Mode(size) = "narrow" /\ ~showModels THEN 2 ELSE 1
FooterLines == 1

BodyHeight(size, showModels) ==
  Max({0, size.height - HeaderLines(size, showModels) - FooterLines})

\* detailDimensions
DetailHeight(size, showModels) ==
  IF Mode(size) = "tiny" THEN BodyHeight(size, showModels)
  ELSE Max({0, BodyHeight(size, showModels) - 2})

\* The outer width of the list's frame.
LeftOuter(size) == Min({38, Max({26, size.width \div 3})})

DetailWidth(size) == CASE Mode(size) = "tiny" -> size.width
                       [] Mode(size) = "narrow" -> size.width - 2
                       [] OTHER -> size.width - LeftOuter(size) - 3

-----------------------------------------------------------------------------
(***************************************************************************)
(* The model catalogue, over the whole width: a table with a line for each *)
(* model, or two lines for each.  There is no table in a narrow terminal,  *)
(* nor where all ids are shorter than its first column must be.            *)
(***************************************************************************)
CatalogueWidth(size) == IF Mode(size) = "tiny" THEN size.width ELSE size.width - 2

ModelTable(width) == LongestID >= 16 /\ width - 38 >= 16

GroupLines(models, width) ==
  1 + IF models = 0 THEN 1 ELSE IF ModelTable(width) THEN models ELSE 2 * models

ModelLines(width) ==
  IF FreeModels + OtherModels = 0 THEN 4
  ELSE 4 + (IF ModelTable(width) THEN 1 ELSE 0)
         + GroupLines(FreeModels, width) + GroupLines(OtherModels, width)

-----------------------------------------------------------------------------
\* The columns and rows that View gives to the detail panel and to the list.
DetailLeft(size) == CASE Mode(size) = "tiny" -> 0
                      [] Mode(size) = "narrow" -> 1
                      [] OTHER -> LeftOuter(size) + 2
DetailColumns(size) == DetailLeft(size)..(DetailLeft(size) + DetailWidth(size) - 1)
ListColumns(size) == IF Mode(size) = "split" THEN 1..(LeftOuter(size) - 2) ELSE {}
Top(size) ==
  HeaderLines(size, FALSE) + IF Mode(size) = "tiny" THEN 0 ELSE 1
Rows(size) == Top(size)..(Top(size) + DetailHeight(size, FALSE) - 1)

\* requestList: the requests listed from row 1 on, each in two rows, so that
\* the selected one, counted from 1, is among them.
ListRows(height) == Max({1, (height - 1) \div 2})
ListStart(height, selected, count) ==
  Max({0, Min({selected - 1 - (ListRows(height) \div 2), count - ListRows(height)})})
Listed(height, selected, count) ==
  LET start == ListStart(height, selected, count)
  IN  [k \in 1..Min({ListRows(height), count - start}) |-> start + k]

-----------------------------------------------------------------------------
(***************************************************************************)
(* The tab row.                                                            *)
(***************************************************************************)
Sum(widths) == FoldLeft(+, 0, widths)
TabRowWidth(form) == Sum(form) + Len(form) - 1

\* The widest form that fits: hidden, if there is none.
PanelLabelForm(width) ==
  LET fitting == {i \in DOMAIN TabForms : TabRowWidth(TabForms[i]) =< width}
  IN  IF fitting = {} THEN <<>> ELSE TabForms[Min(fitting)]

\* panelTabs: the panel whose tab is in each cell of the row, 0 for a gap.
TabCells(width) ==
  LET form == PanelLabelForm(width)
      Tab(i) == [k \in 1..form[i] |-> i]
  IN  FlattenSeq([i \in DOMAIN form |-> IF i = 1 THEN Tab(1) ELSE <<0>> \o Tab(i)])

\* The column at which a tab of the row begins.
TabPositions(form) ==
  LET pos[i \in DOMAIN form] == IF i = 1 THEN 0 ELSE pos[i - 1] + form[i - 1] + 1
  IN  pos

\* The panel whose tab is clicked at column x: at most one.
PanelTabAt(width, x) ==
  LET form == PanelLabelForm(width)
      pos  == TabPositions(form)
  IN  {i \in DOMAIN form : x \in pos[i]..(pos[i] + form[i] - 1)}
=============================================================================
