--------------------------- MODULE MCConfigStore ---------------------------
(* The web server and the console, with edits of one and of two fields. *)
EXTENDS ConfigStore

CONSTANTS web, cli

Edit(fs) == [f \in fs |-> "a"]

\* The location a lies between two floats, of which b is the nearer.
Nearest == [v \in Values |-> IF v = "a" THEN "b" ELSE v]

KeyedEdits == {Edit({"uas", "op"}), Edit({"keys", "loc"})}
PlainEdits == {Edit({"lock"}), Edit({"proto"})}
=============================================================================
