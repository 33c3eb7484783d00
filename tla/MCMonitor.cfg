\* Three children: batches of one, two and three, in every order, with one of them gone
\* while the others still have to speak.
SPECIFICATION FairSpec
CONSTANT NChildren = 3
INVARIANTS SignalledSafely EndsInformed
PROPERTY EndsUnlessOverslept
