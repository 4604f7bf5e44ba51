------------------------- MODULE MCIdentityMigration -------------------------
(* A deep path with an escaped spelling that the historical normalization   *)
(* made one, under a page; a path that was also written with a dot; and a   *)
(* query without evidence.                                                 *)
EXTENDS IdentityMigration

U == INSTANCE UrlNormalization

A == <<U!Lit("a")>>
Plain == <<A>>
Deep == <<A, A>>
Escaped == <<<<U!Lit("a"), U!Esc("/"), U!Lit("a")>>>>
Dotted == <<A, <<U!Lit(".")>>>>
Slash == <<A, <<>>>>

Url(path, query) ==
  [scheme |-> "https", host |-> [kind |-> "name", text |-> "h", parents |-> {}], port |-> 0,
   credentials |-> FALSE, path |-> path, query |-> query]

Spelling ==
  ("deep" :> Url(Deep, <<>>)) @@ ("escaped" :> Url(Escaped, <<>>)) @@ ("plain" :> Url(Plain, <<>>))
  @@ ("dotted" :> Url(Dotted, <<>>)) @@ ("slash" :> Url(Slash, <<>>))
  @@ ("query" :> Url(Plain, <<U!Parameter(A, TRUE, A)>>))

MCUrls == DOMAIN Spelling

NameOf(url) ==
  IF \E u \in MCUrls : Spelling[u] = url THEN CHOOSE u \in MCUrls : Spelling[u] = url ELSE NoUrl

MCV1 == ("deep" :> "deep") @@ ("escaped" :> "deep") @@ ("plain" :> "plain") @@ ("dotted" :> "plain")
        @@ ("slash" :> "slash") @@ ("query" :> "query")
MCV2 == ("deep" :> "deep") @@ ("escaped" :> "escaped") @@ ("plain" :> "plain") @@ ("dotted" :> "slash")
        @@ ("slash" :> "slash") @@ ("query" :> "query")

\* These are what the normalizations make of the spellings.
ASSUME NamesNormalized ==
  /\ MCV1 = [u \in MCUrls |-> NameOf(U!NormalizeV1(Spelling[u], {}))]
  /\ MCV2 = [u \in MCUrls |-> NameOf(U!NormalizeV2(Spelling[u]))]

Historic(url) == [version |-> "V1", url |-> url]

Evident(kind, raw, resource, seed) ==
  [kind |-> kind, raw |-> raw, url |-> IF kind \in {"seed", "listed"} THEN MCV1[raw] ELSE NoUrl,
   resource |-> resource, seed |-> seed]

\* Words that a segment and a parameter may consist of.
Words == {<<>>, <<U!Lit(".")>>, <<U!Lit("."), U!Lit(".")>>, <<U!Lit("a")>>, <<U!esc("/")>>, <<U!Esc(".")>>,
          <<U!esc("."), U!Lit(".")>>, <<U!Esc("a")>>, <<U!Lit("%")>>, <<U!Lit(" "), U!esc("?")>>}
FormWords == {<<>>, <<U!Lit("a")>>, <<U!Esc("a")>>, <<U!Lit("+")>>, <<U!Esc(" ")>>, <<U!esc("*")>>, <<U!Lit("%")>>}

Paths == UNION {[1 .. n -> Words] : n \in 1 .. 3}
Parameters == {U!Parameter(k, TRUE, v) : k, v \in FormWords} \cup {U!Parameter(k, FALSE, <<>>) : k \in FormWords}
Queries == UNION {[1 .. n -> Parameters] : n \in 0 .. 2}

\* Normalizing again changes nothing, and what the historical normalization made is kept by
\* the current one.
ASSUME Idempotent ==
  /\ \A p \in Paths :
       /\ U!V1Path(U!V1Path(p)) = U!V1Path(p) /\ U!V2Path(U!V2Path(p)) = U!V2Path(p)
       /\ U!V2Path(U!V1Path(p)) = U!V1Path(p)
  /\ \A q \in Queries :
       /\ U!V1Query(U!V1Query(q, {}), {}) = U!V1Query(q, {})
       /\ U!V2Query(U!V2Query(q, {}), {}) = U!V2Query(q, {})
       /\ U!V2Query(U!V1Query(q, {}), {}) = U!V1Query(q, {})

\* The current one distinguishes more of a query than the historical one did; of a path it
\* does not, so that a resource may be renamed to what another one is called.
ASSUME Distinguished ==
  /\ \A q \in Queries : U!V1Query(U!V2Query(q, {}), {}) = U!V1Query(q, {})
  /\ \E p \in Paths : U!V1Path(U!V2Path(p)) # U!V1Path(p)

\* A decision is about the URL, however it is written.
Scope(version) ==
  [version |-> version, drop |-> {}, allowed |-> {[text |-> "h", wild |-> FALSE]}, subdomains |-> FALSE,
   excluded |-> {}, included |-> {<<A>>}, excludedPaths |-> {<<<<U!Lit("a"), U!Esc("/")>>>>}]

ASSUME DecidedByIdentity ==
  \A p \in Paths, v \in {"V1", "V2"} :
    LET url == U!Normalized(Url(p, <<>>), Scope(v))
    IN U!Decision(Url(p, <<>>), Scope(v), {}) = U!Decision(url, Scope(v), {})

MCIds == 1 .. 7
MCRows == 1 .. 8
MCPages == 1 .. 2

MCResource ==
  [r \in MCIds |-> CASE r = 1 -> Historic("deep") [] r = 2 -> Historic("plain")
                     [] r = 3 -> Historic("query") [] OTHER -> NoResource]
MCRow ==
  [r \in MCRows |-> CASE r = 1 -> Evident("plain", "deep", 1, 0)
                      [] r = 2 -> Evident("seed", "deep", 1, 0)
                      [] r = 3 -> Evident("origin", "escaped", 0, 2)
                      [] r = 4 -> Evident("plain", "dotted", 2, 0)
                      [] OTHER -> NoRow]
MCPage ==
  [p \in MCPages |-> IF p = 1
                     THEN [resource |-> 1, owner |-> 1, assigned |-> TRUE, manual |-> TRUE, rule |-> TRUE,
                           excluded |-> FALSE, note |-> TRUE]
                     ELSE NoPage]

Decided(primary, both) ==
  [primary |-> primary,
   field |-> [f \in Fields |-> CASE f = "category" -> Verdict("DUPLICATE", both)
                                 [] f = "exclusion" -> Verdict("RESET", {})
                                 [] OTHER -> Verdict("ASSIGN", {primary})]]

MCDecisions == {Decided("escaped", {"deep", "escaped"})}
=============================================================================
