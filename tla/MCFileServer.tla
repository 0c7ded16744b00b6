---------------------------- MODULE MCFileServer ----------------------------
(* FileServer with two players, two segments and a short check term.       *)
EXTENDS FileServer

(* An ordinary id, one so short that only its segments can be asked for,   *)
(* and one that turns every request into one for the status.               *)
AllOutputs ==
  { [len |-> 6, ext |-> FALSE, muselive |-> FALSE],
    [len |-> 4, ext |-> FALSE, muselive |-> FALSE],
    [len |-> 8, ext |-> TRUE, muselive |-> TRUE] }

Short == { [len |-> 4, ext |-> TRUE, muselive |-> FALSE] }
=============================================================================
