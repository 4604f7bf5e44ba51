-------------------------- MODULE UrlNormalization --------------------------
(***************************************************************************)
(* The two normalizations of a URL: the historical one, which decodes a     *)
(* path before it looks at its structure and sorts the parameters, and the  *)
(* current one, which keeps whatever a server might tell apart; and the     *)
(* crawl's decision about a URL.                                            *)
(*                                                                         *)
(* A character is written literally or as a percent escape.  A path is the  *)
(* sequence of its segments, a query the sequence of its parameters.  How   *)
(* a reference is resolved against its base, how a host is encoded, and     *)
(* text beyond ASCII are left out.                                          *)
(***************************************************************************)
EXTENDS Sequences, SequencesExt, Naturals, TLC

\* A character as it is written: literally, or escaped with either case of its digits.
Lit(c) == [char |-> c, as |-> "literal"]
Esc(c) == [char |-> c, as |-> "ABC"]
esc(c) == [char |-> c, as |-> "abc"]

\* Characters by what the normalizations do with them: letters and the tilde need no
\* escape anywhere, a space and a percent sign need one everywhere.
Letters == {"a", "b", "~"}
Delimiters == {"/", "?", ":", "=", "+", "*"}
Characters == Letters \cup Delimiters \cup {".", " ", "%"}

Unreserved == Letters \cup {"."}

\* Left as they are in a path and in a query; the current normalization first escapes every
\* percent sign that begins no escape.
PathSafe == Characters \ {"?", " ", "%"}
QuerySafe == Characters \ {" ", "%"}

Plain(word) == [i \in DOMAIN word |-> word[i].char]

Written(chars, safe) == [i \in DOMAIN chars |-> IF chars[i] \in safe THEN Lit(chars[i]) ELSE Esc(chars[i])]

\* _normalize_percent_encoding followed by quote.
Escapes(word, kept, safe) ==
  [i \in DOMAIN word |->
     CASE word[i].as # "literal" /\ word[i].char \in Unreserved \ kept -> Lit(word[i].char)
       [] word[i].as # "literal"                                      -> Esc(word[i].char)
       [] OTHER -> IF word[i].char \in safe THEN word[i] ELSE Esc(word[i].char)]

-----------------------------------------------------------------------------
(* Paths: a path begins with a slash, and <<"a", "">> is /a/.              *)

\* What lies between the slashes.
Segments(chars) ==
  FoldLeft(LAMBDA segments, c :
             IF c = "/" THEN Append(segments, <<>>) ELSE Append(Front(segments), Append(Last(segments), c)),
           <<<<>>>>, chars)

Joined(segments, slash) ==
  FoldLeft(LAMBDA word, segment : word \o segment, <<>>,
           [i \in DOMAIN segments |-> IF i = 1 THEN segments[i] ELSE <<slash>> \o segments[i]])

Dot == <<".">>
DotDot == <<".", ".">>

Dropped(segments) == IF segments = <<>> THEN <<>> ELSE Front(segments)

\* normpath: empty segments and dots go, a dot-dot takes the segment before it along.  Two
\* slashes at the beginning stay, three do not.
NormPath(segments) ==
  LET kept == FoldLeft(LAMBDA out, s : IF s \in {<<>>, Dot} THEN out
                                       ELSE IF s = DotDot THEN Dropped(out) ELSE Append(out, s),
                       <<>>, segments)
      two == Len(segments) > 1 /\ segments[1] = <<>> /\ ~(Len(segments) > 2 /\ segments[2] = <<>>)
  IN (IF two THEN <<<<>>>> ELSE <<>>) \o (IF kept = <<>> THEN <<<<>>>> ELSE kept)

\* _normalize_v1_path: everything is decoded first, an escaped slash included.
V1Path(path) ==
  LET decoded == Segments(Joined([i \in DOMAIN path |-> Plain(path[i])], "/"))
      normal == NormPath(decoded)
      slash == Last(path) = <<>> /\ Last(normal) # <<>>
  IN [i \in 1 .. Len(normal) + (IF slash THEN 1 ELSE 0) |->
        IF i > Len(normal) THEN <<>> ELSE Written(normal[i], PathSafe)]

\* _remove_literal_dot_segments: an empty segment is one like any other.
WithoutDots(path) ==
  FoldLeftDomain(LAMBDA out, i :
      LET up == IF path[i] = [j \in 1 .. 2 |-> Lit(".")] THEN Dropped(out) ELSE out
      IN IF path[i] \in {<<Lit(".")>>, <<Lit("."), Lit(".")>>}
         THEN IF i = Len(path) THEN Append(up, <<>>) ELSE up
         ELSE Append(out, path[i]),
    <<>>, path)

V2Path(path) == WithoutDots([i \in DOMAIN path |-> Escapes(path[i], {"."}, PathSafe)])

-----------------------------------------------------------------------------
(* Queries: a parameter has a name, and a value if it has an equals sign.   *)

Parameter(key, equals, value) == [key |-> key, equals |-> equals, value |-> value]

\* unquote_plus
FormText(word) ==
  [i \in DOMAIN word |-> IF word[i] = Lit("+") THEN " " ELSE word[i].char]

FormWritten(chars) ==
  [i \in DOMAIN chars |-> IF chars[i] = " " THEN Lit("+")
                          ELSE IF chars[i] \in Unreserved THEN Lit(chars[i]) ELSE Esc(chars[i])]

\* _should_drop_query_param: a name, or the beginning of one.
Drops(patterns, key) ==
  \E p \in patterns : key = p.text \/ (p.prefix /\ IsPrefix(p.text, key))

\* The characters in the order of their codes.
Codes == <<" ", "%", "*", "+", ".", "/", ":", "=", "?", "a", "b", "~">>

Code(c) == SelectInSeq(Codes, LAMBDA d : d = c)

Earlier(s, t) ==
  \/ IsStrictPrefix(s, t)
  \/ \E i \in DOMAIN s \cap DOMAIN t : SubSeq(s, 1, i - 1) = SubSeq(t, 1, i - 1) /\ Code(s[i]) < Code(t[i])

\* _normalize_v1_query: form semantics, sorted.
V1Query(query, patterns) ==
  LET pairs == [i \in DOMAIN query |-> <<FormText(query[i].key), FormText(query[i].value), query[i].equals>>]
      kept == SelectSeq(pairs, LAMBDA p : (p[1] # <<>> \/ p[3]) /\ ~Drops(patterns, p[1]))
      sorted == SortSeq(kept, LAMBDA p, q : Earlier(p[1], q[1]) \/ (p[1] = q[1] /\ Earlier(p[2], q[2])))
  IN [i \in DOMAIN sorted |-> Parameter(FormWritten(sorted[i][1]), TRUE, FormWritten(sorted[i][2]))]

\* _normalize_v2_query: what is kept keeps its place and its form.
V2Query(query, patterns) ==
  LET kept == SelectSeq(query, LAMBDA p : ~Drops(patterns, FormText(p.key)))
  IN [i \in DOMAIN kept |->
        Parameter(Escapes(kept[i].key, {}, QuerySafe), kept[i].equals, Escapes(kept[i].value, {}, QuerySafe))]

-----------------------------------------------------------------------------
(* URLs.                                                                   *)

Invalid == [error |-> "invalid"]

DefaultPort(scheme) == IF scheme = "http" THEN 80 ELSE 443

PortOf(url) == IF url.port = DefaultPort(url.scheme) THEN 0 ELSE url.port

\* The historical one takes names and dotted numbers alone, and leaves out credentials.
NormalizeV1(url, patterns) ==
  IF url.scheme \notin {"http", "https"} \/ url.host.kind # "name" THEN Invalid
  ELSE [url EXCEPT !.port = PortOf(url), !.credentials = FALSE, !.path = V1Path(url.path),
                   !.query = V1Query(url.query, patterns)]

NormalizeV2(url) ==
  IF url.scheme \notin {"http", "https"} \/ url.credentials THEN Invalid
  ELSE [url EXCEPT !.port = PortOf(url), !.path = V2Path(url.path), !.query = V2Query(url.query, {})]

\* site_url_policy_key: a site's own view of a URL, which is no identity.
PolicyKey(url, patterns) ==
  IF patterns = {} THEN url ELSE [url EXCEPT !.query = V2Query(url.query, patterns)]

-----------------------------------------------------------------------------
(* ScopeEngine.evaluate                                                    *)

\* A pattern is a host, or stands for what is below one; a site may take in what is below
\* any of its hosts.
HostMatches(host, patterns, below) ==
  \E p \in patterns : \/ p.text = host.text /\ ~p.wild
                      \/ (p.wild \/ below) /\ p.text \in host.parents

\* A prefix may end within a segment.
Begins(path, prefixes) ==
  \E prefix \in prefixes : IsPrefix(Joined(prefix, Lit("/")), Joined(path, Lit("/")))

Normalized(url, scope) ==
  IF scope.version = "V1" THEN NormalizeV1(url, scope.drop) ELSE NormalizeV2(url)

KeyOf(url, scope) == IF scope.version = "V1" THEN url ELSE PolicyKey(url, scope.drop)

\* Only the historical normalization says of a scheme that it is not supported.
Decision(url, scope, seen) ==
  LET normal == Normalized(url, scope)
      foreign == scope.version = "V1" /\ url.scheme \notin {"http", "https"}
  IN CASE foreign                                                             -> "unsupported_scheme"
       [] normal = Invalid                                                    -> "invalid_url"
       [] ~HostMatches(normal.host, scope.allowed, scope.subdomains)          -> "external"
       [] HostMatches(normal.host, scope.excluded, TRUE)                      -> "excluded_host"
       [] scope.included # {} /\ ~Begins(normal.path, scope.included)         -> "excluded_path"
       [] Begins(normal.path, scope.excludedPaths)                            -> "excluded_path"
       [] KeyOf(normal, scope) \in seen                                       -> "already_seen"
       [] OTHER                                                               -> "crawlable"

-----------------------------------------------------------------------------
(* classify_link_role: what a link is for, by where it stands.  The first   *)
(* reason that holds decides.                                               *)

Roles == <<<<"mailto", "email">>, <<"tel", "telephone">>, <<"download_attribute", "download">>,
           <<"download_extension", "download">>, <<"in_breadcrumb", "breadcrumb">>,
           <<"in_footer", "footer">>, <<"in_aside", "sidebar">>, <<"in_main", "main_content">>,
           <<"in_nav", "navigation">>, <<"in_header", "header_utility">>,
           <<"image_without_text", "image">>>>

LinkRole(facts) ==
  LET i == SelectInSeq(Roles, LAMBDA r : r[1] \in facts)
  IN IF i = 0 THEN "unknown" ELSE Roles[i][2]
=============================================================================
