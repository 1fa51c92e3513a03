------------------------- MODULE MCRequestHandling -------------------------
(* Small requests for RequestHandling. *)
EXTENDS RequestHandling

Sym == {"au", "th", "x", "ac", "be", "to", "l", "z", "d", "/", "m", "c", "{", "}", "1"}

MCAuthorization == <<"au", "th">>
MCAccept        == <<"ac">>
MCToken         == <<"be", "to">>
MCLz4           == <<"l", "z">>
MCDeflate       == <<"d">>
MCMetrics       == <<"/", "m">>
MCConfig        == <<"/", "c">>

Sp(kind, text) == [kind |-> kind, text |-> text]
H(name, value) == <<Sp("field", name), Sp("value", value)>>
AuthGood  == H(MCAuthorization, MCToken)
AuthBad   == H(MCAuthorization, <<"to">>)
AuthEmpty == H(MCAuthorization, <<>>)
AuthLong  == H(MCAuthorization, <<"be", "to", "x">>)
Other     == H(<<"x", "au", "th">>, MCToken)
WantsBoth == H(MCAccept, <<"d", "l", "z">>)
WantsD    == H(MCAccept, <<"x", "d">>)
MCObjects == {<<"{", "}">>}
MCValues  == {<<"1">>, <<"1", "1">>}
Body      == <<Sp("body", <<"{", "}">>)>>
Number    == <<Sp("body", <<"1", "1">>)>>
NoJson    == <<Sp("body", <<"1", "}">>)>>

Url(text) == <<Sp("url", text)>>

MCRequests ==
    {Url(u) \o h \o b : u \in {<<"/", "x">>, MCMetrics},
                        h \in {<<>>, AuthGood, AuthBad, AuthGood \o AuthBad,
                               AuthBad \o WantsD \o AuthGood,
                               AuthGood \o AuthEmpty, AuthLong, Other,
                               AuthGood \o WantsBoth},
                        b \in {<<>>, Body}}
    \cup {Url(MCConfig) \o Body \o AuthGood,
          Url(<<"/", "x">>) \o AuthGood \o Number, Url(<<"/", "x">>) \o AuthGood \o NoJson}

\* Enough to show what a cut header does.
MCOne == {Url(MCMetrics) \o AuthGood \o Body}
=============================================================================
