--------------------------- MODULE MCScopedConfig ---------------------------
(* The smallest instance in which one writer also saves at the workspace.  *)
EXTENDS ScopedConfig

\* Two harnesses, one of which offers both providers.
OffersOf == [claude |-> <<"anthropic">>, pi |-> <<"openai", "anthropic">>]
Ship     == [harness |-> "claude", provider |-> "anthropic"]
=============================================================================
