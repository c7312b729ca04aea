---------------------------- MODULE MCForkServer ----------------------------
EXTENDS ForkServer, TLC

CONSTANTS a, b, parent, none

Of(what, range) == [what |-> what, range |-> range]
Range(kind, m, n) == [kind |-> kind, first |-> m, last |-> n]
Whole == Range("none", 0, 0)

MCAsks ==
  (a :> {Of("file", Range("closed", 1, 7)), Of("file", Range("closed", 0, 2)),
         Of("file", Range("suffix", 0, 1)), Of("file", Range("closed", 3, 1)),
         Of("untyped", Whole), Of("root", Whole)}) @@
  (b :> {Of("file", Whole), Of("file", Range("from", 1, 0)), Of("file", Range("from", 4, 0)),
         Of("missing", Whole), Of("silent", Whole)})
=============================================================================
