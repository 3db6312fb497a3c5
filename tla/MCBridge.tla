---- MODULE MCBridge ----
(* Bridge with two clients of which one, a, is spoken to.                  *)
EXTENDS Bridge
CONSTANTS a, b
Both == {a, b}
Flows == {<<a, Hub>>, <<Hub, a>>, <<a, Neighbour>>, <<a, a>>}
====
