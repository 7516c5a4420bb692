---------------------------- MODULE MCStreamAppend ----------------------------
EXTENDS StreamAppend, TLC

MCPlans ==
  [kind : {"exact"}, ids : {"given"}, size : {1}, number : {0}]
  \cup [kind : {"exact", "any"}, ids : {"generated"}, size : {2}, number : {0}]
  \cup [kind : {"version", "no-stream", "exists"}, ids : {"generated"},
         size : {1}, number : {0}]
  \cup [kind : {"number"}, ids : {"generated"}, size : {1}, number : {0, -5}]

WriterSymmetry == Permutations(Writers)
=============================================================================
