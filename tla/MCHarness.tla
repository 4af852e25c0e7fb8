---------------------------- MODULE MCHarness ----------------------------
EXTENDS Harness

CONSTANTS a, b, o, p, u, f, g

\* a and b run the same tool: b may be the retry of a; o runs another; p was used before,
\* u is refused.
MCTool == [c \in {a, b, o, p, u} |-> IF c = o THEN "other" ELSE "tool"]
MCBatches == {<<a>>, <<b, a>>, <<o>>, <<p>>, <<a, u>>}
Step(s) == <<"tool", s>>
MCTruths == {[known |-> FALSE, strategies |-> {}, answers |-> {}, required |-> 0],
             [known |-> TRUE, answers |-> {f}, required |-> 1,
              strategies |-> {<<Step("completed")>>, <<Step("error"), Step("completed")>>}]}
=============================================================================
