----------------------------- MODULE AgentTools -----------------------------
(***************************************************************************)
(* tools/registry.py, agents/profiles.py, agents/runtime/policy_engine.py: *)
(* which tool an agent may execute while it is at work.  The registry, the *)
(* profiles and the policy are tables fixed when the server is built, with *)
(* no provider beside the local tools.                                     *)
(***************************************************************************)

\* The registered tools, each with its one capability tag.
Tag ==
  [repo_reader          |-> "repo.read",      structure_summary  |-> "repo.structure",
   file_writer          |-> "workspace.write", patch_applier     |-> "code.patch",
   diff_summarizer      |-> "diff.read",      log_reader         |-> "log.read",
   diff_reader          |-> "diff.read",      test_report_reader |-> "test.read",
   static_analyzer      |-> "code.analyze",   rg_search          |-> "repo.search",
   ast_grep_search      |-> "code.search",    ruff_check         |-> "code.analyze",
   py_tree_sitter_parse |-> "code.parse",     semgrep_scan       |-> "security.scan",
   difftastic_diff      |-> "diff.syntax",    test_runner        |-> "test.run"]

Tool == DOMAIN Tag

\* The tools whose handle has a side_effect_level of 'write'.
SideEffect == {"file_writer", "patch_applier", "test_runner"}

\* A tool without a backend is a name in the prompt and no more.
HasBackend ==
  Tool \ {"file_writer", "diff_summarizer", "test_report_reader",
          "static_analyzer", "ruff_check"}

Profile ==
  [director |-> [tools |-> {"repo_reader", "structure_summary", "rg_search"},
                 tags  |-> {"repo.read", "repo.structure", "repo.search", "docs.search"}],
   pm       |-> [tools |-> {"repo_reader", "rg_search", "py_tree_sitter_parse"},
                 tags  |-> {"repo.read", "repo.search", "code.parse", "docs.search"}],
   planner  |-> [tools |-> {"repo_reader", "structure_summary", "ast_grep_search"},
                 tags  |-> {"repo.read", "repo.structure", "code.search"}],
   coder    |-> [tools |-> {"repo_reader", "patch_applier", "test_runner"},
                 tags  |-> {"repo.read", "code.patch", "test.run"}],
   debugger |-> [tools |-> {"log_reader", "patch_applier", "test_runner"},
                 tags  |-> {"log.read", "code.patch", "test.run"}],
   reviewer |-> [tools |-> {"diff_reader", "semgrep_scan", "difftastic_diff"},
                 tags  |-> {"diff.read", "security.scan", "diff.syntax"}]]

Agent == DOMAIN Profile

\* The policy file.  No execution context allows external access.
ExternalTags == {"docs.search", "knowledge.read"}
WriteTags    == {"code.patch", "workspace.write"}

\* Variant with a fault: the debugger asks for no leave to write.
WriteAllowedCoderOnly == {"coder"}

\* The agents that run their model with write_allowed.
WriteAllowed == {"coder", "debugger"}

\* evaluate_tool_tag; an empty list of tags allows every tag.
Permitted(agent, tag) ==
  /\ tag \notin ExternalTags
  /\ Profile[agent].tags # {} => tag \in Profile[agent].tags
  /\ tag \in WriteTags => agent \in WriteAllowed

\* ToolRegistry.bind: a name nobody registered is dropped.
Bound(agent) == Profile[agent].tools \cap Tool

\* The tools the model of an agent is given as functions.
Offered(agent) == Bound(agent) \cap HasBackend

\* _enforce_policy, with the tags of the tool.
Blocked(agent, tool) == ~Permitted(agent, Tag[tool])

\* BoundAgentTools.execute and ToolRegistry.execute: any other call is answered
\* with an error and does nothing.
Executes(agent, tool) == tool \in Offered(agent) /\ ~Blocked(agent, tool)
=============================================================================
