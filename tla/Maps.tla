--------------------------------- MODULE Maps ---------------------------------
(***************************************************************************)
(* Go's maps as functions on the keys they have, and what assignments to    *)
(* their entries make of them.                                              *)
(***************************************************************************)

\* The entries of one map laid over those of another.
Over(new, old) ==
    [x \in (DOMAIN new) \cup (DOMAIN old) |-> IF x \in DOMAIN new THEN new[x] ELSE old[x]]

Put(map, x, value) == [y \in (DOMAIN map) \cup {x} |-> IF y = x THEN value ELSE map[y]]
===============================================================================
