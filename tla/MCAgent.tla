------------------------------- MODULE MCAgent -------------------------------
(* Definitions for TLC: the command lines of the instances. *)
EXTENDS Agent

Shipper == [files |-> Files, enforceOnly |-> FALSE, once |-> FALSE, fromStart |-> TRUE,
            winEvents |-> FALSE, inventory |-> FALSE]
WinShipper == [Shipper EXCEPT !.files = {}, !.winEvents = TRUE, !.inventory = TRUE]
Enforcer == [Shipper EXCEPT !.files = {}, !.enforceOnly = TRUE]
MC_Options ==
  {Shipper, [Shipper EXCEPT !.fromStart = FALSE], [Shipper EXCEPT !.once = TRUE], WinShipper, Enforcer}
=============================================================================
