--------------------------- MODULE MCTrajectory ---------------------------
EXTENDS Serving
CONSTANTS a, b, c, p, u, me, you, g, e
MCBatches == {<<a>>, <<b>>, <<c>>, <<b, a>>, <<c, b>>, <<a, p>>, <<c, u>>}
\* A conversation is rendered as its calls, then the two tokens of the
\* generation prompt.
MCRendered(h) == <<p>> \o FlattenSeq(h) \o <<g, e>>
MCFits(prompt) == Len(prompt) <= 5
MCElsewhere == [who : {me, you}, prompt : {<<p, g, e>>, <<p, a, g, e>>}]
=============================================================================
