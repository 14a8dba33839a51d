--------------------------- MODULE MCRelayTerminal ---------------------------
(* Finite instances of RelayTerminal for TLC. *)
EXTENDS RelayTerminal, TLC

(* Frames of one and of two bytes: shorter than, as long as and longer     *)
(* than a ring of one or two bytes.                                        *)
ShortFrames == {<<0>>, <<0, 1>>}
SingleBytes == {<<0>>}

(* The tasks that load and the sessions that publish are interchangeable. *)
Tasks == Permutations(Loaders) \cup Permutations(Sessions)
=============================================================================
