----------------------------- MODULE MCToolResults -----------------------------
(* ToolResults is finite as it stands: every answer is tried with every tool. *)
EXTENDS ToolResults
===============================================================================
