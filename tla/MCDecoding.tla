----------------------------- MODULE MCDecoding -----------------------------
EXTENDS Decoding

CONSTANTS a1, s1, s2, p1, p2, p3, p4, bad, t1, t2

Line(key, data, p) == [key |-> key, data |-> data, template |-> p]

\* Lines of an old client and of a new one, one that cannot be decrypted, one
\* with an improper template, payloads.
Mixed == {Line(a1, <<"text", "text">>, p1), Line(s1, <<"text", "text">>, bad),
          Line(a1, <<"mark", "torn">>, None), Line(s2, <<"text">>, None),
          Line(s2, <<"foreign">>, None)}

\* Messages with more templates than the cache takes.
Crowd == {Line(s1, <<>>, p) : p \in Templates \ Improper}

Days == {Mixed, Crowd}
=============================================================================
