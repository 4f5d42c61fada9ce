---------------------------- MODULE MCPluginHost ----------------------------
(***************************************************************************)
(* PluginHost for TLC: two plugins that both offer m1, one of which is in  *)
(* the directory twice; a rule that m1 finds and m2 fixes.                 *)
(***************************************************************************)
EXTENDS PluginHost

CONSTANTS p, q, m1, m2

Directory == <<p, q, p>>
Methods   == <<{m1}, {m1, m2}, {m2}>>
RuleFile  == <<[detect |-> m1, fix |-> {m2}], [detect |-> m2, fix |-> {}]>>
=============================================================================
