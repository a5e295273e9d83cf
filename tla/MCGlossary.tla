----------------------------- MODULE MCGlossary -----------------------------
(* Small instances of Glossary for TLC.                                    *)
EXTENDS Glossary

CONSTANTS camera, av, med   \* a term and two domains; nothing is ever written to med

Entry(domain, target, confidence, source) ==
    [term |-> camera, domain |-> domain, target |-> target,
     confidence |-> confidence, source |-> source]

\* A person types into the domain's row, unsure, and claims a source.
TypedEntries == {Entry(av, "typed", 1, "distill")}

\* A good pack, and one whose second row has no target.
SeedPacks == {<<Entry(av, "packed", 3, "seed")>>,
              <<Entry(av, "packed", 3, "seed"), Entry(av, NoRow, 3, "seed")>>}

\* Extractions for the domain and for all, the first pair below the bar.
MinedTasks == {<<Entry(av, "noise", 1, "distill"), Entry(av, "mined", 2, "distill")>>,
               <<Entry(Generic, "mined", 2, "distill")>>}

\* Callers differ in nothing but their name.
AnyOrder == Permutations(Callers)
=============================================================================
