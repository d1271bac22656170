--------------------------- MODULE MCCredentials ---------------------------
(* An instance of Credentials for TLC.                                     *)
EXTENDS CredentialsProperties

CONSTANTS europe, london

P(kind, value) == [kind |-> kind, value |-> value]
Character == <<P("text", None), P("rest of a character", None)>>

\* An id, good or bad; seeds that follow and replace each other; anchors whose
\* values are missing, their own or another's; a character on the window's edge, and
\* one on the edge of what base64 is given, behind an anchor that decodes with seed 2.
SomeBundles ==
  { <<P("appId", 1)>>,
    <<P("appId", None), P("appId", 2)>>,
    <<P("seed", 1), P("seed", 2), P("timezone", europe), P("timezone", london)>>,
    <<P("seed", 2), P("timezone", europe), P("seed", 1), P("timezone", london)>>,
    <<P("seed", Empty), P("timezone", europe), P("seed", 2), P("timezone", Empty)>>,
    <<P("anchor", europe), P("info", 1), P("extras", 1), P("anchor", london), P("info", 2),
      P("extras", 2)>>,
    <<P("anchor", london), P("anchor", europe), P("info", 1), P("extras", 1), P("appId", 2)>>,
    <<P("anchor", europe), P("info", None), P("extras", 2)>>,
    <<P("seed", 1), P("timezone", london), P("anchor", london), P("info", 1)>> \o Character,
    <<P("seed", 1), P("timezone", europe), P("seed", 1), P("timezone", london),
      P("anchor", europe), P("info", 1), P("extras", 1), P("anchor", europe),
      P("info", 1)>> \o Character,
    <<P("anchor", europe), P("info", 2), P("extras", 2), P("anchor", europe), P("info", 3),
      P("extras", 1)>> }

\* Not every combination is base64.
SomeDecodable == {<<1, 1, 1>>, <<2, 1, 1>>, <<2, 2, 2>>}
SomeSplit == {<<1, 3, 1>>, <<2, 3, 1>>}

URLOf(scheme, form, host, path, js) ==
  [scheme |-> scheme, form |-> form, host |-> host, path |-> path, js |-> js]
URL(form, host, path, js) == URLOf("https", form, host, path, js)
Tag(tag, url) == [tag |-> tag, url |-> url]

\* Scripts written in three ways, twice, out of order, of a foreign host, of both
\* schemes, of a foreign host but with the player's name in the path, and tags that
\* are no scripts.
SomePages ==
  { << >>,
    <<Tag("script", URL("rooted", 0, 3, TRUE)), Tag("script", URL("absolute", 2, 1, TRUE)),
      Tag("script", URL("relative", 0, 2, TRUE)), Tag("preload", URL("absolute", 1, 3, TRUE))>>,
    <<Tag("script", URL("rooted", 0, 1, TRUE)), Tag("script", URL("absolute", 0, 8, TRUE)),
      Tag("preload", URLOf("http", "absolute", 1, 1, TRUE)),
      Tag("preload", URLOf("http", "absolute", 2, 1, TRUE))>>,
    <<Tag("script", None), Tag("script", URL("absolute", 1, 2, TRUE)),
      Tag("preload", URL("rooted", 0, 1, TRUE)), Tag("preload", URL("rooted", 0, 4, FALSE)),
      Tag("other", URL("rooted", 0, 5, TRUE)), Tag("script", URL("absolute", 0, 9, TRUE)),
      Tag("preload", URL("absolute", 1, 3, TRUE)), Tag("script", URL("relative", 0, 3, TRUE))>> }
=============================================================================
