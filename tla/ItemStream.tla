----------------------------- MODULE ItemStream -----------------------------
(***************************************************************************)
(* What a client of a streaming endpoint may rely on, whichever protocol   *)
(* carries it.  The stream is a sequence of items (output items of the     *)
(* Responses API, content blocks of the Messages API) that are opened one  *)
(* after another, grow by deltas while they are open, are closed for good, *)
(* and are all closed when the stream completes.  A stream that fails may  *)
(* leave items open.  Nothing follows the completion or the failure.       *)
(*                                                                         *)
(* Only items of the Resumable sources, the tool calls, may grow after     *)
(* they were closed, and only when the upstream has left its order.        *)
(***************************************************************************)
EXTENDS Naturals, Sequences

CONSTANT Resumable   \* sources

VARIABLES items,    \* sequence of [source, content, open]
          status,   \* "streaming", "completed" or "failed"
          ordered   \* the upstream has kept its order so far

vars == <<items, status, ordered>>

Init == items = <<>> /\ status = "streaming" /\ ordered = TRUE

\* An open item keeps what it has and a closed one stays as it is, unless it is
\* a tool call and the upstream returns to it.
Continues(old, new) ==
  /\ Len(old) <= Len(new)
  /\ \A i \in 1..Len(old) :
       /\ new[i].source = old[i].source
       /\ old[i].content \subseteq new[i].content
       /\ ~old[i].open => /\ ~new[i].open
                          /\ \/ new[i].content = old[i].content
                             \/ old[i].source \in Resumable /\ ~ordered'

AllClosed(s) == \A i \in 1..Len(s) : ~s[i].open

\* The upstream may leave its order, never return to it.
Proceed == /\ status = "streaming"
           /\ Continues(items, items')
           /\ ordered' => ordered

Stream == Proceed /\ status' = "streaming"

Complete == Proceed /\ status' = "completed" /\ AllClosed(items')

Fail == Proceed /\ status' = "failed"

Next == Stream \/ Complete \/ Fail

Spec == Init /\ [][Next]_vars

=============================================================================
