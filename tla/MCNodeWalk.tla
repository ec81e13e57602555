----------------------------- MODULE MCNodeWalk -----------------------------
(***************************************************************************)
(* NodeWalk for TLC: three levels, two names, and a third one that is too  *)
(* long.                                                                   *)
(***************************************************************************)
EXTENDS NodeWalk

CONSTANTS a, b, toolong

MCNames == {a, b, toolong}
MCPaths == {<<x>> : x \in MCNames}
    \cup {<<a, x>> : x \in MCNames} \cup {<<b, x>> : x \in {a, b}}
    \cup {<<a, x, y>> : x \in {a, b}, y \in {b, toolong}}
    \cup {<<a, toolong, b>>, <<b, a, a>>}
=============================================================================
