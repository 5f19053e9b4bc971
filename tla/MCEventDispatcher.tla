-------------------------- MODULE MCEventDispatcher --------------------------
(* EventDispatcher with two listeners, and no dispatch within another.     *)
EXTENDS EventDispatcher
=============================================================================
