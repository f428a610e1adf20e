----------------------------- MODULE MCWorkflows -----------------------------
(* Four tools: a gated one, a gated one that asks, a sub-agent that asks   *)
(* twice, and a plain one with side effects. Two queries on each thread.   *)
EXTENDS Workflows

MCTools == {"pay", "hire", "agent", "write"}
MCGated == {"pay", "hire"}
MCQuestions ==
  [t \in MCTools |-> CASE t = "hire" -> 1 [] t = "agent" -> 2 [] OTHER -> 0]

MCPatterns == DOMAIN First

(* A prompt with a gate, a tool that needs approval, one that asks as      *)
(* well, with a gate on its output, and a last prompt.                     *)
MCStep(name, tool, gate) == [name |-> name, tool |-> tool, gate |-> gate]
MCSteps == <<MCStep("outline", "llm", TRUE), MCStep("pay", "pay", FALSE),
             MCStep("hire", "hire", TRUE), MCStep("report", "llm", FALSE)>>

(* Sections with names of their own.                                       *)
MCSection(name, tool) == [name |-> name, tool |-> tool]
MCSections == <<MCSection("one", "pay"), MCSection("two", "agent"), MCSection("three", "hire")>>
=============================================================================
