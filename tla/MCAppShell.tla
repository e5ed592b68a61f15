---------------------------- MODULE MCAppShell ----------------------------
(* AppShell on a small instance: one link to add, and catalogs in which a  *)
(* profile moves and one that comes and goes; the library on the inputs of *)
(* MCNativeLibrary.                                                        *)
EXTENDS AppShell, MCNativeLibrary

MCCatalogs == {<<"p">>, <<"p", "q">>, <<"q", "p">>}
=============================================================================
