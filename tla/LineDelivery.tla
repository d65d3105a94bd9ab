----------------------------- MODULE LineDelivery -----------------------------
(***************************************************************************)
(* What a log shipper owes the host: a line it has read stays in its       *)
(* custody until the console has it or its loss is on record, and the      *)
(* console gets nothing that was not in custody.  A line may be delivered  *)
(* more than once.                                                         *)
(***************************************************************************)
VARIABLES
  custody,    \* lines read and not yet settled
  delivered,  \* lines the console has
  forfeited   \* lines given up, on record

lineVars == <<custody, delivered, forfeited>>

Init == custody = {} /\ delivered = {} /\ forfeited = {}

\* Lines are read; a shipper with no room, or about to end, may give up some of them, or older ones.
Read ==
  /\ custody \subseteq custody' \cup delivered \cup forfeited'
  /\ forfeited \subseteq forfeited'
  /\ UNCHANGED delivered

\* Lines in custody reach the console or are given up; only such lines leave custody.
Settle ==
  /\ delivered \subseteq delivered' /\ delivered' \subseteq delivered \cup custody
  /\ forfeited \subseteq forfeited' /\ forfeited' \subseteq forfeited \cup custody
  /\ custody' \subseteq custody
  /\ custody \subseteq custody' \cup delivered' \cup forfeited'

Next == Read \/ Settle

Spec == Init /\ [][Next]_lineVars
=============================================================================
