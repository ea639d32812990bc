---------------------------- MODULE MCScheduling ----------------------------
(* Scheduling on a small instance: two rows, two venues, one real coach; one *)
(* editor at the pages, one MCP caller.                                      *)
EXTENDS Scheduling

CONSTANTS page, mcp, r1, v1, v2, k1, k2, ann

Input(kind, fields) == [kind |-> kind, fields |-> fields]
PageInputs ==
  {Input("assign", [NoPatch EXCEPT !.c1 = Null]),
   Input("assign", [NoPatch EXCEPT !.c2 = ann]),
   Input("patch", [NoPatch EXCEPT !.count = 1]),
   Input("update", [NoPatch EXCEPT !.class = k2, !.c1 = ann]),
   Input("delete", NoPatch)}
McpInputs ==
  {Input("mcp", [NoPatch EXCEPT !.venue = v2]),
   Input("mcp", [NoPatch EXCEPT !.c2 = ann]),
   Input("create", [NoPatch EXCEPT !.venue = v1, !.class = k2, !.c2 = ann]),
   Input("import", [NoPatch EXCEPT !.venue = v2, !.class = k1, !.c1 = ann]),
   Input("merge", [NoPatch EXCEPT !.venue = v1, !.class = k1, !.c2 = ann])}
MCInputs == [e \in {page, mcp} |-> IF e = page THEN PageInputs ELSE McpInputs]
\* Ann and a place still to be filled.
MCExisting ==
  [i \in Ids |->
     IF i = r1 THEN [venue |-> v1, class |-> k1, c1 |-> ann, c2 |-> Unstaffed,
                     count |-> 2, locked |-> FALSE, version |-> 1]
     ELSE Null]
=============================================================================
