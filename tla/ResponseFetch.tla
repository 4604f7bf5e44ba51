---------------------------- MODULE ResponseFetch ----------------------------
(***************************************************************************)
(* One fetch of SafeHttpFetcher: the redirects it follows, each of them    *)
(* judged before it is requested, and how much of the last response it     *)
(* reads.  StaticCrawl's Answer is what a fetch ends with.                 *)
(*                                                                         *)
(* A web is a function from urls to what a request for the url meets:      *)
(*   failure      "none" or the error of the connection                    *)
(*   status       redirecting or not                                       *)
(*   location     the url the redirect names, NoUrl where it names none    *)
(*   mime, given, filename, signature, ext   what ClassifyResponse goes by *)
(*   declared     the length in the header, Null without one               *)
(*   body         the length of the body                                   *)
(* A judge is a function from urls to what the crawl's scope says of them: *)
(* ok, the error, and the url in its normal form.                          *)
(***************************************************************************)
EXTENDS ResourceInventory

NoUrl == "no url"

\* A body comes in pieces of this length, the last one shorter; the first one is inspected.
PrefixLength == 2

TooLong(length, f) == length # Null /\ length > f.maxBytes

------------------------------------------------------------------------------
\* How much is read: nothing where the headers say that it is no page, a first piece where only
\* that says so, all of a page.
HeaderClass(r) == ClassifyResponse(r.mime, r.given, r.filename, Null, r.ext)
BodyClass(r) == ClassifyResponse(r.mime, r.given, r.filename, IF r.body > 0 THEN r.signature ELSE Null, r.ext)
IsHtml(class) == class.kind = KindNamed("html_page")
Authoritative(class) == class.rule \in {Rule("mime"), Rule("content_disposition_filename")}

Read(state, kept, transferred) ==
  [state |-> state, kept |-> kept, transferred |-> transferred, prefix |-> Min({kept, PrefixLength})]
ResponseTooLarge == [state |-> "response_too_large", kept |-> 0, transferred |-> 0, prefix |-> 0]

ReadLimitedResponse(r, f) ==
  IF TooLong(r.declared, f) \/ TooLong(r.body, f) THEN ResponseTooLarge ELSE Read("full_html", r.body, r.body)

ReadClassifiedResponse(r, f) ==
  LET class == HeaderClass(r)
      first == Min({r.body, PrefixLength})
  IN CASE ~f.metadataOnly -> ReadLimitedResponse(r, f)
       [] f.metadataOnly /\ Authoritative(class) /\ ~IsHtml(class) ->
            Read(IF r.declared = 0 THEN "empty" ELSE "metadata_only", 0, 0)
       [] f.metadataOnly /\ IsHtml(class) /\ TooLong(r.declared, f) -> ResponseTooLarge
       [] f.metadataOnly /\ ~Authoritative(class) /\ ~(IsHtml(class) /\ TooLong(r.declared, f))
            /\ r.body > 0 /\ ~IsHtml(BodyClass(r)) -> Read("prefix_inspected", first, first)
       [] OTHER ->
            CASE TooLong(r.body, f) -> ResponseTooLarge
              [] r.body = 0 -> Read("empty", 0, 0)
              [] OTHER -> Read("full_html", r.body, r.body)

\* What the crawler then records of it, from the bytes it was given.
Recorded(r, read) ==
  ClassifyResponse(r.mime, r.given, r.filename, IF read.kept > 0 THEN r.signature ELSE Null, r.ext)

------------------------------------------------------------------------------
\* Redirects.  Each request is preceded by the check of its destination, and each redirect is
\* recorded before it is judged.
NoEnd == [outcome |-> "none", url |-> NoUrl]

Begin(start) == [at |-> start, seen |-> {start}, chain |-> <<>>, requested |-> <<>>, end |-> NoEnd]

Ending(state, outcome, url) == [state EXCEPT !.end = [outcome |-> outcome, url |-> url]]

\* ValidateDestination is f.destinations: the urls whose destination may be connected to.
Redirected(web, state, f) ==
  LET here == state.at
      location == web[here].location
      verdict == f.judge[location]
      recorded == [state EXCEPT !.chain = Append(@, [from |-> here, to |-> location])]
  IN CASE location = NoUrl -> Ending(recorded, "invalid_url", here)
       [] location # NoUrl /\ ~verdict.ok -> Ending(recorded, verdict.error, here)
       [] location # NoUrl /\ verdict.ok /\ verdict.to \in state.seen -> Ending(recorded, "redirect_loop", here)
       [] OTHER ->
            IF verdict.to \notin f.destinations THEN Ending(recorded, "unsafe_destination", NoUrl)
            ELSE [recorded EXCEPT !.at = verdict.to, !.seen = @ \cup {verdict.to}]

\* One round; the deadline is the number of requests there is time for, and what it ends keeps
\* no chain.
Round(web, state, f) ==
  LET r == web[state.at]
      asked == [state EXCEPT !.requested = Append(@, state.at)]
  IN CASE state.at \notin f.destinations -> Ending(state, "unsafe_destination", NoUrl)
       [] state.at \in f.destinations /\ Len(state.requested) >= f.deadline ->
            Ending([state EXCEPT !.chain = <<>>], "request_timeout", NoUrl)
       [] OTHER ->
            CASE r.failure # "none" -> Ending(asked, r.failure, NoUrl)
              [] r.failure = "none" /\ ~r.redirect -> Ending(asked, ReadClassifiedResponse(r, f).state, state.at)
              [] OTHER -> Redirected(web, asked, f)

Get(web, start, f) ==
  LET round[n \in 0..(f.maxRedirects + 1)] ==
        IF n = 0 THEN Begin(start)
        ELSE IF round[n - 1].end # NoEnd THEN round[n - 1] ELSE Round(web, round[n - 1], f)
      last == round[f.maxRedirects + 1]
  IN IF last.end = NoEnd THEN Ending(last, "too_many_redirects", last.at) ELSE last
==============================================================================
