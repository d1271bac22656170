----------------------- MODULE CredentialsProperties -----------------------
(* What fetch_app_credentials finds, said without its loops: by what is in *)
(* the bundles that came.                                                  *)
EXTENDS Credentials

Greatest(S) == CHOOSE n \in S : \A k \in S : k <= n
Least(S) == CHOOSE n \in S : \A k \in S : n <= k

\* A pair of a bundle: a seed, the first since the last time zone, and the first
\* time zone after it.
IsA(kind, b, i) == b[i].kind = kind
Between(kind, b, i, j) == \E k \in i + 1 .. j - 1 : IsA(kind, b, k)
IsPair(b, i, j) ==
  /\ i < j /\ IsA("seed", b, i) /\ IsA("timezone", b, j) /\ ~Between("timezone", b, i, j)
  /\ \A h \in 1 .. i - 1 : IsA("seed", b, h) => Between("timezone", b, h, i)

\* The places of a zone's seeds in a bundle, and the zone's seed after the first n of
\* the bundles r.
SeedsOf(tz, b) ==
  {i \in DOMAIN b : b[i].value # Empty
     /\ \E j \in DOMAIN b : IsPair(b, i, j) /\ b[j].value = tz /\ tz # Empty}
SeedAfter(r, tz, n) ==
  LET having == {m \in 1 .. n : SeedsOf(tz, r[m]) # {}} IN
  IF having = {} THEN None
  ELSE LET b == r[Greatest(having)] IN b[Greatest(SeedsOf(tz, b))].value

\* The anchors of a zone that decode in the n-th bundle with what is known by then,
\* and the zone's secret after all: the first of the last bundle with any.
Decoding(r, tz, n) ==
  {i \in DOMAIN r[n] :
     IsA("anchor", r[n], i) /\ r[n][i].value = tz
       /\ Triple(r[n], i, SeedAfter(r, tz, n)) \in Decodable}
SecretAfter(r, tz) ==
  LET having == {m \in 1 .. Len(r) : Decoding(r, tz, m) # {}} IN
  IF having = {} THEN None
  ELSE LET m == Greatest(having) IN
       Triple(r[m], Least(Decoding(r, tz, m)), SeedAfter(r, tz, m))

TimeZones == UNION {{b[i].value : i \in DOMAIN b} : b \in Bundles}
SecretsAfter(r) == {SecretAfter(r, tz) : tz \in TimeZones} \ {None}

\* The id of the first bundle whose first id is one.
IdAfter(r) ==
  LET firsts == {m \in 1 .. Len(r) : scan_app_id(r[m]) # None} IN
  IF firsts = {} THEN None ELSE scan_app_id(r[Least(firsts)])

\* The n-th bundle has, for a zone with a seed, an anchor that no decoding one
\* precedes, and there a slice ends inside a character: the window behind the anchor
\* or what is left of the seed, the info and the extras.
Breaks(r, n) ==
  \E tz \in TimeZones : \E i \in DOMAIN r[n] :
    /\ SeedAfter(r, tz, n) # None /\ IsA("anchor", r[n], i) /\ r[n][i].value = tz
    /\ \A j \in Decoding(r, tz, n) : i <= j
    /\ Cuts(r[n], i) \/ Triple(r[n], i, SeedAfter(r, tz, n)) \in Split

\* The result is what the bundles hold, pairs and anchors taken in their order,
\* over the whole download and whatever failed: a secret is made with the seed its
\* zone had when its bundle came, "no app secret found" or "no app id found" is the
\* truth about the bundles that came, and the search panics exactly when one of them
\* breaks it.
ResultIsWhatTheyHold ==
  pc = "done" /\ result # Err("request failed") =>
    result \in IF \E n \in DOMAIN read : Breaks(read, n) THEN {Err("panic")}
               ELSE IF SecretsAfter(read) = {} THEN {Err("no app secret found")}
               ELSE IF IdAfter(read) = None THEN {Err("no app id found")}
               ELSE {Ok(IdAfter(read), s) : s \in SecretsAfter(read)}

\* The player's scripts on the page, however they are written and how often.
Wanted ==
  {u \in {absolutize(page[i].url) : i \in {j \in DOMAIN page : IsScript(page[j])}} :
     IsPlayer(u)}
Asked == {asked[i] : i \in DOMAIN asked}

\* Each bundle is asked for at most once, in the order of the URLs and not of the
\* page, only while an id or a secret is missing; and no failure keeps the others
\* from being asked for before the search is given up.
AsksForWhatIsMissing ==
  [][/\ asked' # asked =>
          LET u == asked'[Len(asked')] IN
          /\ u \in Wanted \ Asked /\ \A v \in Wanted \ Asked : v = u \/ Before(u, v)
          /\ IdAfter(read) = None \/ SecretsAfter(read) = {}
     /\ result' # result /\ result' \in {Err("no app secret found"), Err("no app id found")}
          => Asked = Wanted]_vars
=============================================================================
