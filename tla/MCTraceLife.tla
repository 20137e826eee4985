---------------------------- MODULE MCTraceLife ----------------------------
(* TraceLife on budgets a batch runs out of, one cell per way a run is set up. *)
EXTENDS TraceLife

Cell(brain, arm, kind, tools, submits, overridden, model) ==
  [case |-> IF kind = "real" THEN "R01" ELSE "D02", kind |-> kind, arm |-> arm, brain |-> brain,
   tools |-> tools, submits |-> submits, overridden |-> overridden, model |-> model]

MCCells == {
  Cell("api", "advanced", "synthetic", 2, 2, {}, "default"),
  Cell("api", "baseline", "real", 1, 2, {"ART30_TOOL_BUDGET"}, "default"),
  Cell("api", "advanced", "synthetic", 3, 1, {"ART30_TOOL_BUDGET", "ART30_SUBMIT_BUDGET",
                                              "ART30_MODEL"}, "other"),
  Cell("codex", "advanced", "synthetic", 1, 1, {"ART30_TOOL_BUDGET", "ART30_SUBMIT_BUDGET"},
       "default"),
  Cell("codex", "baseline", "real", 2, 2, {}, "default")}   \* two named: the default declares nothing

MCBatches == {<<"grep">>, <<"submit_record">>, <<"submit_record", "submit_record">>,
              <<"grep", "submit_record">>, <<"submit_record", "grep">>}

Item(type, tool, error, says) == [type |-> type, tool |-> tool, error |-> error, says |-> says]
MCItems == {
  Item("reasoning", "none", FALSE, "empty"),
  Item("command_execution", "none", FALSE, "other"),
  Item("file_change", "none", FALSE, "empty"),
  Item("mcp_tool_call", "submit_record", FALSE, "yes"),
  Item("mcp_tool_call", "submit_record", TRUE, "empty"),
  Item("mcp_tool_call", "list_mcp_resources", TRUE, "empty")}

Usage(input, cached, written, output) ==
  [input_tokens |-> input, cached_input_tokens |-> cached, cache_write_input_tokens |-> written,
   output_tokens |-> output]
MCUsages == {Usage(2, 1, 2, 1)}   \* cached and written together exceed the input

Store(name, verdict, categories) == [name |-> name, verdict |-> verdict, categories |-> categories]
MCRecords == {
  <<Store("users", "not_erased", {"contact", "content"})>>,
  <<Store("users", "erased", {"identifier"}), Store("logs", "erased_after_timer", {"contact"})>>,
  <<Store("users", "not_erased", {"content"})>>}

MCPrices == {{}, {[input |-> 2, cached |-> 1, output |-> 3]}}
=============================================================================
