---------------------------- MODULE MCPreparation ----------------------------
EXTENDS Preparation
MCBoundaries == {<<3, 4>>, <<1, 3>>, <<0, 1>>}
MCAttested == {<<0, 2, 2>>, <<2, 2, 3>>}
MCSplit == <<4, 5>>
MCMaxAttempts == [s \in {1} |-> 1]
MCUnregistered == [p \in Processes |-> {}]
Sym == Permutations(Cars)
===============================================================================
