---------------------------- MODULE MCBigNumCodec -----------------------------
EXTENDS BigNumCodec

\* One-word strings: upper and lower case of one number, all-F, and eight
\* distinct digits.
WA == <<"0","0","0","0","0","0","0","A">>
Wa == <<"0","0","0","0","0","0","0","a">>
WF == <<"F","F","F","F","F","F","F","E">>
WB == <<"1","2","3","4","5","6","7","8">>

\* Whole words of one, two and three words, and the lengths outside the
\* contract: 4, 6 and 12 digits.
MCInputs ==
    {WA, Wa, WF, WB, WB \o WF, WA \o WB, WF \o Wa, WB \o WF \o WA,
     <<"0","0","A","1">>, <<"1","2","3","4","5","6">>, WB \o <<"9","A","B","C">>}

=============================================================================
