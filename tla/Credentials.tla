---------------------------- MODULE Credentials ----------------------------
(***************************************************************************)
(* fetch_app_credentials of src/credentials.rs: the login page names the   *)
(* web player's bundles; they are fetched one after the other and scanned  *)
(* for the app id, for seeds, and for what makes a seed a secret.          *)
(*                                                                         *)
(* A bundle is the sequence of the patterns the scans look for; each       *)
(* stands for a stretch of the text, and Window counts them, not bytes.    *)
(* What is made of a seed, an info and an extras is the sets Decodable and *)
(* Split.                                                                  *)
(*                                                                         *)
(* A definition whose name has a suffix, Complete_Either for instance, is  *)
(* the definition below it with a plausible bug.                           *)
(***************************************************************************)
EXTENDS Naturals, Sequences, FiniteSets

CONSTANTS
  Pages,       \* the login page: its tags, in order
  Bundles,     \* what may be found under a URL
  PlayQobuz,   \* the host play.qobuz.com; hosts and paths are in string order
  PlayerHosts, \* the hosts and the paths that contain its name
  PlayerPaths,
  Window,      \* how far behind an anchor its values are looked for
  Decodable,   \* the triples of a seed, an info and an extras that decode
  Split,       \* those whose last 44 bytes begin inside a character
  Empty, None

IsSequence(s) == s \in Seq({s[i] : i \in DOMAIN s})

\* What is missing is no seed and decodes with nothing.
ASSUME CredentialsAssumption ==
  /\ PlayQobuz \in Nat /\ PlayQobuz \in PlayerHosts /\ Window \in Nat \ {0}
  /\ \A page \in Pages : IsSequence(page) /\ \A i \in DOMAIN page :
       /\ page[i].tag \in {"script", "preload", "other"}
       /\ page[i].url # None =>
            /\ page[i].url.scheme \in {"http", "https"}
            /\ page[i].url.host \in Nat /\ page[i].url.path \in Nat
  /\ \A b \in Bundles : IsSequence(b) /\ \A i \in DOMAIN b :
       b[i].kind = "seed" => b[i].value # None
  /\ None \notin Decodable /\ Decodable \cap Split = {}
  /\ \A t \in Decodable \cup Split : None \notin {t[1], t[2], t[3]}

VARIABLES
  pc,        \* "page", "bundles", "scanned" (the loop is left) or "done"
  page,
  urls,      \* those the loop has left
  app_id,    \* or None
  seeds,     \* of the time zones seen so far
  secrets,   \* likewise
  result,
  asked,     \* history: the URLs requested
  read       \* history: the bundles that came

vars == <<pc, page, urls, app_id, seeds, secrets, result, asked, read>>

Nothing == [z \in {} |-> None]
Err(why) == [err |-> why]
Ok(id, secret) == [app_id |-> id, app_secret |-> secret]

-----------------------------------------------------------------------------
\* Relative addresses are the player's, whatever they are relative to.
absolutize(url) ==
  IF url.form = "absolute" THEN [scheme |-> url.scheme, host |-> url.host, path |-> url.path]
  ELSE [scheme |-> "https", host |-> PlayQobuz, path |-> url.path]

Before(u, v) ==
  \/ u.scheme = "http" /\ v.scheme = "https"
  \/ u.scheme = v.scheme /\ (u.host < v.host \/ (u.host = v.host /\ u.path < v.path))

\* The name is looked for in the whole URL.
IsPlayer(u) == u.host \in PlayerHosts \/ u.path \in PlayerPaths

\* The scripts and preloaded scripts of the page, sorted, each once.  A tag without
\* a quoted address has url None.
IsScript(t) == t.tag \in {"script", "preload"} /\ t.url # None /\ t.url.js
extract_script_urls_AsFound(html) ==
  LET found == SelectSeq(html, IsScript) IN [i \in DOMAIN found |-> absolutize(found[i].url)]
extract_script_urls(html) ==
  LET found == {absolutize(html[i].url) : i \in {j \in DOMAIN html : IsScript(html[j])}}
  IN  CHOOSE s \in [1 .. Cardinality(found) -> found] :
        \A i, j \in DOMAIN s : i < j => Before(s[i], s[j])

\* The first pattern of a kind from one place of a bundle to another, 0 if none.
FirstOf(kind, b, from, to) ==
  LET found == {i \in DOMAIN b \cap from .. to : b[i].kind = kind} IN
  IF found = {} THEN 0 ELSE CHOOSE i \in found : \A j \in found : i <= j

\* Only the first pattern counts; None if it has no nine digits.
scan_app_id(b) ==
  LET i == FirstOf("appId", b, 1, Len(b)) IN IF i = 0 THEN None ELSE b[i].value

\* A seed belongs to the first time zone after it.  Further seeds on the way there
\* are skipped; later pairs replace earlier ones.
Pass(s, p) ==
  IF p.kind = "seed" /\ s.seed = None THEN [s EXCEPT !.seed = p.value]
  ELSE IF p.kind = "timezone" /\ s.seed # None
  THEN [seed |-> None,
        all |-> IF Empty \in {s.seed, p.value} THEN s.all
                ELSE [tz \in DOMAIN s.all \cup {p.value} |->
                        IF tz = p.value THEN s.seed ELSE s.all[tz]]]
  ELSE s

scan_seeds(b, known) ==
  LET after[n \in 0 .. Len(b)] ==
        IF n = 0 THEN [seed |-> None, all |-> known] ELSE Pass(after[n - 1], b[n])
  IN  after[Len(b)].all

\* The first info and the first extras in the window behind an anchor, whoever
\* they belong to; None: missing, cut off or not quoted.
extract_quoted_value(b, anchor, key) ==
  LET i == FirstOf(key, b, anchor, anchor + Window - 1) IN IF i = 0 THEN None ELSE b[i].value

Triple(b, anchor, seed) ==
  <<seed, extract_quoted_value(b, anchor, "info"), extract_quoted_value(b, anchor, "extras")>>

Anchors(b, tz) == {i \in DOMAIN b : b[i].kind = "anchor" /\ b[i].value = tz}

\* The anchors that are looked at: up to the first that gives a secret.
Visited(b, tz, seed) ==
  {i \in Anchors(b, tz) : \A j \in Anchors(b, tz) : j < i => Triple(b, j, seed) \notin Decodable}

\* The window is a slice of a str: it panics where it ends inside a character.
Cuts(b, anchor) == anchor + Window \in DOMAIN b /\ b[anchor + Window].kind = "rest of a character"

\* The visited anchor that decodes, if any, ends the search of its zone.
Derived(b, tz, seed) == {Triple(b, i, seed) : i \in Visited(b, tz, seed)} \cap Decodable

scan_and_derive_secrets(b, known, old) ==
  LET new == {tz \in DOMAIN known : Derived(b, tz, known[tz]) # {}} IN
  [tz \in DOMAIN old \cup new |->
     IF tz \in new THEN CHOOSE t \in Derived(b, tz, known[tz]) : TRUE ELSE old[tz]]

-----------------------------------------------------------------------------
Init ==
  /\ pc = "page" /\ page \in Pages /\ urls = <<>>
  /\ app_id = None /\ seeds = Nothing /\ secrets = Nothing
  /\ result = None /\ asked = <<>> /\ read = <<>>

GetPage ==
  /\ pc = "page" /\ pc' = "bundles"
  /\ urls' = extract_script_urls(page)
  /\ UNCHANGED <<page, app_id, seeds, secrets, result, asked, read>>

PageFails ==
  /\ pc = "page" /\ pc' = "done" /\ result' = Err("request failed")
  /\ UNCHANGED <<page, urls, app_id, seeds, secrets, asked, read>>

SkipForeign ==
  /\ pc = "bundles" /\ urls # <<>> /\ ~IsPlayer(Head(urls))
  /\ urls' = Tail(urls)
  /\ UNCHANGED <<pc, page, app_id, seeds, secrets, result, asked, read>>

Requests ==
  /\ pc = "bundles" /\ urls # <<>> /\ IsPlayer(Head(urls))
  /\ urls' = Tail(urls) /\ asked' = Append(asked, Head(urls))
  /\ UNCHANGED page

\* The request or the reading of its body fails: on to the next bundle.
BundleFails ==
  /\ Requests
  /\ UNCHANGED <<pc, app_id, seeds, secrets, result, read>>

Complete_Either == app_id' # None \/ DOMAIN secrets' # {}
Complete == app_id' # None /\ DOMAIN secrets' # {}

\* Id, seeds, secrets, in this order; the loop is left as soon as there is one of
\* each.
Scan_SecretsFirst(b) ==
  /\ app_id' = IF app_id = None THEN scan_app_id(b) ELSE app_id
  /\ seeds' = scan_seeds(b, seeds)
  /\ secrets' = scan_and_derive_secrets(b, seeds, secrets)
  /\ pc' = IF Complete THEN "scanned" ELSE "bundles"
  /\ UNCHANGED result
Scan(b) ==
  /\ app_id' = IF app_id = None THEN scan_app_id(b) ELSE app_id
  /\ seeds' = scan_seeds(b, seeds)
  /\ secrets' = scan_and_derive_secrets(b, seeds', secrets)
  /\ pc' = IF Complete THEN "scanned" ELSE "bundles"
  /\ UNCHANGED result

\* So does the cutting off of the last 44 bytes of what base64 is given.
Panics(b) ==
  LET all == scan_seeds(b, seeds) IN
  \E tz \in DOMAIN all : \E i \in Visited(b, tz, all[tz]) :
    Cuts(b, i) \/ Triple(b, i, all[tz]) \in Split

BundleComes(b) ==
  /\ Requests /\ read' = Append(read, b)
  /\ ~Panics(b) /\ Scan(b)

BundlePanics(b) ==
  /\ Requests /\ read' = Append(read, b)
  /\ Panics(b) /\ pc' = "done" /\ result' = Err("panic")
  /\ UNCHANGED <<app_id, seeds, secrets>>

\* Any of the secrets will do.
Finish ==
  /\ pc = "scanned" \/ (pc = "bundles" /\ urls = <<>>)
  /\ pc' = "done"
  /\ result' \in IF DOMAIN secrets = {} THEN {Err("no app secret found")}
                 ELSE IF app_id = None THEN {Err("no app id found")}
                 ELSE {Ok(app_id, secrets[tz]) : tz \in DOMAIN secrets}
  /\ UNCHANGED <<page, urls, app_id, seeds, secrets, asked, read>>

Next ==
  \/ GetPage
  \/ PageFails
  \/ SkipForeign
  \/ BundleFails
  \/ \E b \in Bundles : BundleComes(b)
  \/ \E b \in Bundles : BundlePanics(b)
  \/ Finish

Spec == Init /\ [][Next]_vars
=============================================================================
