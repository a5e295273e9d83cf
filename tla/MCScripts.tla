----------------------------- MODULE MCScripts -----------------------------
(* A small instance of Scripts for TLC.                                    *)
EXTENDS Scripts, TLC

\* Both arms twice with scores, both once without, and the base arm alone.
CommandLines ==
    {[repeats |-> 2, arms |-> {"base", "scope"}, comet |-> TRUE],
     [repeats |-> 1, arms |-> {"base", "scope"}, comet |-> FALSE],
     [repeats |-> 1, arms |-> {"base"}, comet |-> TRUE]}

\* Samples of two sentences and of one.
SampleDraws == {{1, 2}, {2}}

\* Generations differ in nothing but their name, and so do builds and splits.
AnyGeneration == Permutations(Gens) \cup Permutations(Builds) \cup Permutations(Splits)
=============================================================================
