---------------------------- MODULE MCInnerLevel ----------------------------
EXTENDS InnerLevel

\* Two bytes out of three, the middle one being the byte of a null pointer; not
\* the key that consists of that byte alone.
MCFixedKeys == (1 .. 3) \X (1 .. 3) \ {<<2, 2>>}

\* Strings of one to three bytes, none of them zero, many with a common prefix.
MCStringKeys == {<<1>>, <<1, 1>>, <<1, 1, 1>>, <<1, 1, 2>>, <<1, 2>>, <<1, 2, 1>>, <<2>>, <<2, 1>>, <<2, 2>>}
MCJunk == {[b \in 1 .. kEmbedPrSize |-> 1]}
=============================================================================
