----------------------------- MODULE MCHotReload -----------------------------
(* Two modules, one of which records runs; one edit of the disk: a module,  *)
(* a refused manifest or the source of the hooks.                           *)
EXTENDS HotReload

NoHarness   == <<0, 0>>
ChannelUsed == [t1 |-> 1]
OneEdit     == {[edit |-> 1, db |-> 0, stop |-> 0]}
=============================================================================
