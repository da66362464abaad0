-------------------------- MODULE MCPlaygroundChat --------------------------
(* Small instances of PlaygroundChat for TLC.                              *)
EXTENDS PlaygroundChat

Delta(type, letter) == [type |-> type, text |-> <<letter>>]

\* Two deltas that may be merged in the buffer.
MCShort == <<Delta("content", "a"), Delta("content", "b")>>

\* Deltas of both kinds, none the beginning of another.
MCMixed == <<Delta("reasoning", "a"), Delta("content", "b"), Delta("content", "c")>>

\* The same letter twice, as in a number or a repeated word.
MCRepeating == <<Delta("content", "a"), Delta("content", "a")>>

\* The first two meet the hypothesis under which the texts are proved whole.
ASSUME NoEchoHolds == Script \in {MCShort, MCMixed} => NoEcho
=============================================================================
