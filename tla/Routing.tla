-------------------------------- MODULE Routing --------------------------------
(***************************************************************************)
(* How a model reference finds its provider (internal/provider/registry.go *)
(* and factory.go). References and model ids are written with slashes:     *)
(* they are the sequences of what stands between them. A provider's name   *)
(* has no slash.                                                           *)
(***************************************************************************)
EXTENDS Naturals, Sequences

\* A registry: for each provider the model ids it lists. The empty text is
\* <<"">>, as a reference and as an id.
Listed(reg) == UNION {{<<p>> \o id : id \in reg[p]} : p \in DOMAIN reg}

\* The reference is a provider's name, a slash, and something.
NamesProvider(reg, ref) == Len(ref) > 1 /\ Head(ref) \in DOMAIN reg /\ Tail(ref) # <<"">>

\* Mutant: a listed id is looked for before the provider the reference names.
MutantRoutes(reg, ref) ==
    LET bare == {<<p, ref>> : p \in {q \in DOMAIN reg : ref \in reg[q]}}
    IN  IF bare # {} THEN bare
        ELSE IF NamesProvider(reg, ref) THEN {<<Head(ref), Tail(ref)>>}
        ELSE {}

\* What GetByModel may return: pairs of a provider and a model id, none if it
\* is an error. First a listed "provider/id", then any id of the provider that
\* stands first, then any provider that lists the reference as an id of its
\* own, found by walking a map.
Routes(reg, ref) ==
    IF ref \in Listed(reg) \/ NamesProvider(reg, ref)
    THEN {<<Head(ref), Tail(ref)>>}
    ELSE {<<p, ref>> : p \in {q \in DOMAIN reg : ref \in reg[q]}}
===============================================================================
