--------------------------- MODULE MCTermPostings ---------------------------
EXTENDS TermPostings

\* Details of a posting, with locations and without; documents of two segments.
SomeKinds ==
  {[freq |-> 1, norm |-> 1, locs |-> FALSE], [freq |-> 2, norm |-> 2, locs |-> TRUE],
   [freq |-> 1, norm |-> 2, locs |-> TRUE]}
TwoSegments == <<2, 2>>
=============================================================================
