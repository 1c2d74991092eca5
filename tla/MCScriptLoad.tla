------------------------------ MODULE MCScriptLoad -----------------------------
(* Instances of ScriptLoad for TLC.                                        *)
EXTENDS ScriptLoad
================================================================================
