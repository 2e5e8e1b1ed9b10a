----------------------------- MODULE JsonViewer -----------------------------
(***************************************************************************)
(* The detail panel of the dashboard (tui.go, json_tree.go): the JSON body *)
(* of a panel of the selected trace as a tree whose nodes can be folded,   *)
(* with a cursor, a scroll position, and a cache of the lines last drawn.  *)
(*                                                                         *)
(* An action is one call of Update; a click is a press and a release of    *)
(* the button in the same cell, and takes effect with the release.  A node *)
(* is its path, the sequence of the positions of its ancestors and itself; *)
(* the program writes keys in the place of positions, so that nodes of one *)
(* key in an object would share a path: such bodies are left out.  Every   *)
(* node takes one line (long ones are wrapped by the program), the panel   *)
(* has Above lines before the tree, one of them the tab row, and more      *)
(* above the tabs if the panel is too narrow for them (the program wraps   *)
(* them by their own lengths; here all traces have lines of the same).  Of *)
(* the traces there are only their number and the payloads of the selected *)
(* one (what they hold is Dashboard's concern).  Copying, horizontal       *)
(* scrolling and drawing are left out.                                     *)
(*                                                                         *)
(* A body that begins with a JSON value and goes on behind it, as one      *)
(* value on each line or "404 page not found" does, is drawn as the tree   *)
(* of that value, but no handler takes it for JSON: it is loose.           *)
(***************************************************************************)
EXTENDS Layout, FiniteSets

CONSTANTS
  Trees,       \* JSON bodies: their nodes, and those that are containers
  Payloads,    \* what a trace may hold: a body for each panel
  Sizes,       \* sizes the terminal may have
  Columns,     \* columns the user clicks on
  Limit,       \* debugHistoryLimit: traces shown at most
  Above        \* lines of the panel in front of the tree, unless they wrap

Root == <<>>
NoJson(kind) == [kind |-> kind, nodes |-> {}, containers |-> {}]
Empty == NoJson("empty")
Plain == NoJson("plain")
Bodies ==
  {Empty, Plain} \cup
  {[kind |-> k, nodes |-> t.nodes, containers |-> t.containers] :
     k \in {"json", "loose"}, t \in Trees}

ASSUME ViewerAssumption ==
  /\ \A t \in Trees : /\ t.nodes \subseteq Seq(Nat) /\ IsFiniteSet(t.nodes)
                       /\ Root \in t.nodes /\ t.containers \subseteq t.nodes
                       /\ \A p \in t.nodes \ {Root} : Front(p) \in t.containers
  /\ Sizes \subseteq [width : Nat, height : Nat] /\ Columns \subseteq Nat
  /\ Payloads \subseteq [Panels -> Bodies]
  /\ Limit \in Nat \ {0} /\ Above \in Nat /\ Above > 4

VARIABLES
  bodies,      \* the payloads of the selected trace, one for each panel
  count,       \* the number of traces
  selected,    \* the position of the selected one, 0 if there is none
  panel,
  showModels,  \* the model catalogue is open
  cursor,      \* jsonCursor
  scroll,
  size,        \* of the terminal
  tree,        \* cache: [body, folded], the body parsed last, its folded nodes
  drawn,       \* cache: [valid, key, nodes], the nodes drawn last
  replaced     \* history variable: a body came under the cursor since the
               \* cursor was last used

vars == <<bodies, count, selected, panel, showModels, cursor, scroll, size,
          tree, drawn, replaced>>
shown == <<bodies, count, selected>>

NoPayloads == [p \in Panels |-> Empty]
PanelHeight == DetailHeight(size, showModels)

Init ==
  /\ bodies = NoPayloads /\ count = 0 /\ selected = 0
  /\ showModels = FALSE /\ replaced = FALSE
  /\ panel \in Panels
  /\ cursor = Root
  /\ scroll = 0
  /\ size \in Sizes
  /\ tree = [body |-> Empty, folded |-> {}]
  /\ drawn = [valid |-> FALSE, key |-> <<panel, Root, Empty, 0>>, nodes |-> {}]

-----------------------------------------------------------------------------
\* The order of the document.
Before(p, q) ==
  \/ IsStrictPrefix(p, q)
  \/ \E i \in DOMAIN p \cap DOMAIN q :
       p[i] < q[i] /\ SubSeq(p, 1, i - 1) = SubSeq(q, 1, i - 1)

\* visibleJSONNodes
Visible(t) ==
  {p \in t.body.nodes : \A q \in t.folded : ~IsStrictPrefix(q, p)}

\* The position of node p in the list of the nodes ps.
Index(ps, p) == Cardinality({q \in ps : Before(q, p)})
NodeAt(ps, i) == CHOOSE p \in ps : Index(ps, p) = i

Body == bodies[panel]

\* jsonTreeFor: a tree that is parsed again has no folded nodes.
Load(t, body) == IF t.body = body THEN t ELSE [body |-> body, folded |-> {}]

\* jsonTreeFor succeeds: the body is drawn as a tree.
IsTree(body) == body.kind \in {"json", "loose"}

\* currentJSONTree, at the start of a handler: nothing may follow the value.
JsonActive == ~showModels /\ Body.kind = "json"
Current == Load(tree, Body)

\* visibleJSONNodes (of the model): a cursor that is not visible is at the root.
Selected == IF cursor \in Visible(Current) THEN cursor ELSE Root

IsContainer(p) == p \in Body.containers
Children(p) == {q \in Body.nodes \ {Root} : Front(q) = p}

-----------------------------------------------------------------------------
\* traceDetailLines: the lines of a panel that is width columns wide.  The tab
\* row is the line 4 where no line above it wraps.
Wrapped(width) == Cardinality({w \in WrapWidths : width < w})
TabsLine(width) == 4 + Wrapped(width)
TreeLine(width) == Above + Wrapped(width)

LineCount(nodes, body, width, traces) ==
  IF traces = 0 THEN 4
  ELSE TreeLine(width) + IF IsTree(body) THEN Cardinality(nodes) ELSE 1

\* clampScroll
Clamp(want, lines, rows) ==
  IF lines =< rows \/ want < 0 THEN 0
  ELSE IF want > lines - rows THEN lines - rows ELSE want

\* The end of Update: clampScroll draws the panel, from the cache if its key is
\* that of the model.  t is the tree after the handler, want its scroll
\* position; fresh is FALSE after invalidateViewer.
Settle(t, fresh, want) ==
  LET body == bodies'[panel']
      width == DetailWidth(size')
      key  == <<panel', cursor', body, width>>
  IN IF showModels'
       THEN /\ tree' = t
            /\ drawn' = [drawn EXCEPT !.valid = fresh /\ @]
            /\ scroll' = Clamp(want, ModelLines(CatalogueWidth(size')),
                               DetailHeight(size', TRUE))
       ELSE /\ IF count' = 0 \/ (fresh /\ drawn.valid /\ drawn.key = key)
                 THEN tree' = t /\ UNCHANGED drawn
                 ELSE /\ tree' = IF body.kind = "empty" THEN t ELSE Load(t, body)
                      /\ drawn' = [valid |-> TRUE, key |-> key,
                                   nodes |-> IF IsTree(body)
                                               THEN Visible(tree') ELSE {}]
            /\ scroll' = Clamp(want, LineCount(drawn'.nodes, body, width, count'),
                               DetailHeight(size', FALSE))

-----------------------------------------------------------------------------
\* ensureJSONCursorVisible: the position among the nodes is compared with the
\* scroll position, which counts the lines above the tree too.
EnsureVisible(ps, i) ==
  IF PanelHeight = 0 \/ Cardinality(ps) =< PanelHeight THEN scroll
  ELSE IF i < scroll THEN i
  ELSE IF i >= scroll + PanelHeight THEN i - PanelHeight + 1 ELSE scroll

\* up and down: moveJSONCursor, or three lines where it cannot move.
Move(delta) ==
  /\ ~showModels
  /\ UNCHANGED <<shown, panel, showModels, size>>
  /\ IF ~JsonActive
       THEN /\ UNCHANGED <<cursor, replaced>>
            /\ Settle(tree, TRUE, scroll + 3 * delta)
       ELSE LET ps   == Visible(Current)
                next == Index(ps, Selected) + delta
            IN /\ replaced' = FALSE
               /\ IF next \in 0..(Cardinality(ps) - 1)
                    THEN /\ cursor' = NodeAt(ps, next)
                         /\ Settle(Current, TRUE, EnsureVisible(ps, next))
                    ELSE /\ cursor' = Selected
                         /\ Settle(Current, TRUE, scroll + 3 * delta)

\* Mutant: a fold leaves the cached lines as they are.
FoldStale(folded) ==
  /\ cursor' = Selected
  /\ Settle([Current EXCEPT !.folded = folded], TRUE, scroll)

\* toggleJSONNode and the other handlers that fold or unfold the node.
Fold(folded) ==
  /\ cursor' = Selected
  /\ Settle([Current EXCEPT !.folded = folded], FALSE, scroll)

\* The cursor goes to a node next to it, and the panel to its top.
Jump(node) ==
  /\ cursor' = node
  /\ Settle(Current, TRUE, 0)

Stay ==
  /\ cursor' = Selected
  /\ Settle(Current, TRUE, scroll)

\* enter: toggleJSONNode
Toggle ==
  /\ JsonActive
  /\ replaced' = FALSE
  /\ UNCHANGED <<shown, panel, showModels, size>>
  /\ IF IsContainer(Selected)
       THEN Fold(IF Selected \in Current.folded THEN Current.folded \ {Selected}
                 ELSE Current.folded \cup {Selected})
       ELSE Stay

\* right: expandJSONNode
Expand ==
  /\ JsonActive
  /\ replaced' = FALSE
  /\ UNCHANGED <<shown, panel, showModels, size>>
  /\ CASE Selected \in Current.folded -> Fold(Current.folded \ {Selected})
       [] Selected \notin Current.folded /\ Children(Selected) # {} ->
            Jump(CHOOSE p \in Children(Selected) :
                   \A q \in Children(Selected) : p = q \/ Before(p, q))
       [] OTHER -> Stay

\* Mutant: left folds the parent and leaves the cursor on the child.
CollapseParent ==
  /\ JsonActive
  /\ replaced' = FALSE
  /\ UNCHANGED <<shown, panel, showModels, size>>
  /\ CASE Selected # Root ->
            Fold(Current.folded \cup {Front(Selected)})
       [] OTHER -> Fold(Current.folded \cup {Root})

\* left: collapseJSONNode
Collapse ==
  /\ JsonActive
  /\ replaced' = FALSE
  /\ UNCHANGED <<shown, panel, showModels, size>>
  /\ CASE IsContainer(Selected) /\ Selected \notin Current.folded ->
            Fold(Current.folded \cup {Selected})
       [] Selected # Root /\ (~IsContainer(Selected) \/ Selected \in Current.folded) ->
            Jump(Front(Selected))
       [] OTHER -> Stay

-----------------------------------------------------------------------------
\* Keys and the wheel that only scroll, in either view.
ScrollTo(want) ==
  /\ UNCHANGED <<shown, panel, showModels, cursor, size, replaced>>
  /\ Settle(tree, TRUE, want)

\* changePanel, selectPanel, and a click on a tab.  From the model catalogue a
\* panel key returns to the traces.
SelectPanel(p) ==
  /\ replaced' = FALSE
  /\ UNCHANGED <<shown, size>>
  /\ panel' = p
  /\ showModels' = FALSE
  /\ cursor' = Root
  /\ Settle(tree, TRUE, 0)

\* m
ToggleModels ==
  /\ UNCHANGED <<shown, panel, cursor, size, replaced>>
  /\ showModels' = ~showModels
  /\ Settle(tree, TRUE, 0)

\* The model shows another trace, from its beginning.
ShowTrace(position) ==
  /\ selected' = position
  /\ cursor' = Root /\ replaced' = FALSE
  /\ Settle(tree, TRUE, 0)

\* selectRequest, from one end of the list back to its beginning.
SelectRequest(delta) ==
  /\ ~showModels /\ count > 0
  /\ UNCHANGED <<count, panel, showModels, size>>
  /\ LET next == Min({Max({1, selected + delta}), count})
     IN  /\ IF next = selected THEN UNCHANGED bodies
                                ELSE bodies' \in Payloads
         /\ ShowTrace(next)

\* traceUpdateMsg for a trace that is shown already, and may be the selected
\* one.  Whichever it is, the panel starts anew if the newest one is selected.
TraceChanged ==
  /\ count > 0
  /\ UNCHANGED <<count, panel, showModels, size>>
  /\ bodies' \in Payloads
  /\ IF selected = count
       THEN ShowTrace(count)
       ELSE /\ UNCHANGED <<selected, cursor>>
            /\ replaced' = (replaced \/ bodies'[panel] # Body)
            /\ Settle(tree, TRUE, scroll)

\* traceUpdateMsg for a new one, for which the oldest may have to go.
TraceAdded ==
  /\ UNCHANGED <<panel, showModels, size>>
  /\ count' = Min({count + 1, Limit})
  /\ IF selected = count \/ (count = Limit /\ selected = 1)
       THEN bodies' \in Payloads ELSE UNCHANGED bodies
  /\ IF selected = count
       THEN ShowTrace(count')
       ELSE /\ selected' = IF count = Limit THEN Max({1, selected - 1}) ELSE selected
            /\ UNCHANGED cursor
            /\ replaced' = (replaced \/ bodies'[panel] # Body)
            /\ Settle(tree, TRUE, scroll)

\* tea.WindowSizeMsg
Resize ==
  /\ UNCHANGED <<shown, panel, showModels, cursor, replaced>>
  /\ size' \in Sizes
  /\ Settle(tree, TRUE, scroll)

-----------------------------------------------------------------------------
(***************************************************************************)
(* The mouse.  A target is the request, the panel or the node, by its      *)
(* position among the nodes drawn, that the user means.                    *)
(***************************************************************************)
Target(kind, what) == [kind |-> kind, what |-> what]
Nothing == Target("nothing", 0)

\* What View draws in a cell.  The frame of a narrow panel counts as its lines.
DrawnAt(x, y) ==
  LET line == scroll + y - Top(size)
      node == line - TreeLine(DetailWidth(size))
      cells == TabCells(DetailWidth(size))
      cell == x - DetailLeft(size) + 1
      listed == Listed(PanelHeight, selected, count)
      entry == 1 + ((y - Top(size) - 1) \div 2)
  IN  IF showModels \/ count = 0 \/ y \notin Rows(size) THEN Nothing
      ELSE IF x \in ListColumns(size)
           THEN IF y > Top(size) /\ entry \in DOMAIN listed
                THEN Target("request", listed[entry]) ELSE Nothing
      ELSE IF Mode(size) = "split" /\ x \notin DetailColumns(size) THEN Nothing
      ELSE IF line = TabsLine(DetailWidth(size))
           THEN IF cell \in DOMAIN cells /\ cells[cell] # 0
                THEN Target("panel", cells[cell]) ELSE Nothing
      ELSE IF node \in 0..(Cardinality(drawn.nodes) - 1)
           THEN Target("node", node) ELSE Nothing

\* Mutant: the title of the list is taken for a part of the first request.
RequestAtTitle(contentRow, listHeight) ==
  LET offset == contentRow \div 2
      index == ListStart(listHeight, selected, count) + offset + 1
  IN  IF contentRow >= 1 /\ offset < ListRows(listHeight) /\ index =< count
      THEN Target("request", index) ELSE Nothing

\* handleRequestListClick
RequestAt(contentRow, listHeight) ==
  LET offset == (contentRow - 1) \div 2
      index == ListStart(listHeight, selected, count) + offset + 1
  IN  IF contentRow >= 1 /\ offset < ListRows(listHeight) /\ index =< count
      THEN Target("request", index) ELSE Nothing

\* handleDetailClick: the tab row is looked for at line 4, wrapped or not.
DetailAt(contentX, contentRow, width) ==
  LET line == scroll + contentRow
      node == line - TreeLine(drawn.key[4])
      tabs == PanelTabAt(width, contentX)
  IN  IF line = 4
      THEN IF tabs = {} THEN Nothing ELSE Target("panel", CHOOSE p \in tabs : TRUE)
      ELSE IF node \in 0..(Cardinality(drawn.nodes) - 1) THEN Target("node", node)
      ELSE Nothing

\* handleMouseClick
ClickedAt(x, y) ==
  LET bodyHeight == BodyHeight(size, showModels)
      bodyRow == y - HeaderLines(size, showModels)
      contentRow == bodyRow - 1
      leftOuter == LeftOuter(size)
      rightOuter == size.width - leftOuter - 1
  IN  IF bodyRow \notin 0..(bodyHeight - 1) \/ showModels \/ count = 0 THEN Nothing
      ELSE IF Mode(size) = "tiny" THEN DetailAt(x, bodyRow, size.width)
      ELSE IF bodyRow \in {0, bodyHeight - 1} THEN Nothing
      ELSE IF size.width < 72 THEN DetailAt(x - 1, contentRow, size.width - 2)
      ELSE IF x \in 1..(leftOuter - 2) THEN RequestAt(contentRow, bodyHeight - 2)
      ELSE IF x \in (leftOuter + 2)..(size.width - 2)
           THEN DetailAt(x - (leftOuter + 2), contentRow, rightOuter - 2)
      ELSE Nothing

ClickPanel(p) == p # panel /\ SelectPanel(p)

ClickRequest(position) ==
  /\ position # selected
  /\ UNCHANGED <<count, panel, showModels, size>>
  /\ bodies' \in Payloads
  /\ ShowTrace(position)

\* The cursor goes to the node, which is folded or unfolded: toggleJSONNode,
\* which leaves a loose body as it is.
ClickNode(clicked) ==
  /\ replaced' = FALSE
  /\ UNCHANGED <<shown, panel, showModels, size>>
  /\ cursor' = IF JsonActive /\ clicked \notin Visible(Current) THEN Root ELSE clicked
  /\ IF ~JsonActive THEN Settle(tree, TRUE, scroll)
     ELSE IF IsContainer(cursor')
       THEN Settle([Current EXCEPT !.folded =
                      IF cursor' \in @ THEN @ \ {cursor'} ELSE @ \cup {cursor'}],
                   FALSE, scroll)
       ELSE Settle(Current, TRUE, scroll)

Cells == Columns \X (0..(size.height - 1))

Click(target) ==
  \/ target.kind = "panel" /\ ClickPanel(target.what)
  \/ target.kind = "request" /\ ClickRequest(target.what)
  \/ target.kind = "node" /\ ClickNode(NodeAt(drawn.nodes, target.what))

-----------------------------------------------------------------------------
Page == IF PanelHeight > 3 THEN PanelHeight - 2 ELSE 1
Bottom == IF showModels THEN ModelLines(CatalogueWidth(size))
          ELSE LineCount(drawn.nodes, Body, DetailWidth(size), count)

Next ==
  \/ Move(-1) \/ Move(1) \/ Toggle \/ Expand \/ Collapse
  \/ \E target \in {ClickedAt(c[1], c[2]) : c \in Cells} : Click(target)
  \/ \E want \in {0, Bottom} \cup {scroll + d : d \in {-6, -1, 1, 6, Page, -Page}} :
       ScrollTo(want)
  \/ \E p \in Panels : SelectPanel(p)
  \/ ToggleModels
  \/ \E delta \in {-1, 1} : SelectRequest(delta)
  \/ TraceChanged \/ TraceAdded \/ Resize

Spec == Init /\ [][Next]_vars

-----------------------------------------------------------------------------
\* The lines in the cache are those of the tree as it is folded now, and only
\* nodes of this tree are folded: what a click finds at a line is the node that
\* is drawn there.
DrawnIsCurrent ==
  ~showModels /\ drawn.valid /\ count > 0 =>
    /\ drawn.key = <<panel, cursor, Body, DetailWidth(size)>>
    /\ drawn.nodes = IF IsTree(Body) THEN Visible(Current) ELSE {}
    /\ tree.folded \subseteq tree.body.containers

\* The cursor is on a node that is drawn, never inside a folded one, unless a
\* change of the trace has just put another body under it.
CursorIsDrawn ==
  ~showModels /\ IsTree(Body) /\ ~replaced => cursor \in Visible(Current)

\* tui.go:368: "handleMouseClick maps an absolute terminal cell to the layout
\* View() renders".  On every terminal and at every scroll position a click is
\* for the request, the panel or the node that is drawn under the pointer, and
\* for nothing where none is drawn; but the tabs are missed in a panel so narrow
\* that the lines above them wrap.
ClickHitsWhatIsDrawn ==
  \A c \in Cells :
    LET line == scroll + c[2] - Top(size)
        missed == /\ Wrapped(DetailWidth(size)) > 0
                  /\ line \in {4, TabsLine(DetailWidth(size))}
    IN  ClickedAt(c[1], c[2]) = DrawnAt(c[1], c[2]) \/ missed
=============================================================================
