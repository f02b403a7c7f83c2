---------------------------- MODULE HttpResponse ----------------------------
(***************************************************************************)
(* What CheerioCrawler sends and what it makes of the answer: the options  *)
(* of got, the content type and encoding, the body, and the links of the   *)
(* document.  In CheerioCrawler this is one Outcome of an answer.          *)
(*                                                                         *)
(* What throws yields Undef.  A Content-Type header is Undef,              *)
(* [type |-> Undef, ...] when it does not parse, or [type, charset].       *)
(***************************************************************************)
EXTENDS Naturals, Sequences

CONSTANT Undef

HtmlAndXmlMimeTypes ==
    {"text/html", "text/xml", "application/xhtml+xml", "application/xml"}
ApplicationJson == "application/json"

(* Encodings of Node (Buffer.isEncoding), and those that iconv adds.       *)
NodeEncodings == {"utf8", "latin1"}
IconvEncodings == NodeEncodings \cup {"windows-1250"}

-----------------------------------------------------------------------------
(* The request.                                                            *)

(* A hook's gotOptions replace all but the isStream and, in https, the     *)
(* rejectUnauthorized of the crawler.                                      *)
GetRequestOptions(crawler, request, session, proxyUrl, got) ==
    LET Own(field, own) == IF field \in DOMAIN got THEN got[field] ELSE own
    IN  [ url |-> Own("url", request.url),
          method |-> Own("method", request.method),
          proxyUrl |-> Own("proxyUrl", proxyUrl),
          timeout |-> Own("timeout", crawler.requestTimeout),
          sessionToken |-> Own("sessionToken", session),
          headers |-> [h \in DOMAIN request.headers \cup DOMAIN got.headers |->
                          IF h \in DOMAIN got.headers THEN got.headers[h]
                          ELSE request.headers[h]],
          rejectUnauthorized |-> ~crawler.ignoreSslErrors /\ ~crawler.isManInTheMiddle,
          body |-> IF request.method \in {"PATCH", "POST", "PUT"} THEN request.payload
                   ELSE Own("body", Undef) ]

-----------------------------------------------------------------------------
(* The content type.                                                       *)

(* parseContentTypeFromResponse: the header, else the type of the          *)
(* extension, else octets.                                                 *)
ParseContentType(response) ==
    IF response.contentType # Undef /\ response.contentType.type # Undef
    THEN response.contentType
    ELSE IF response.extension # Undef THEN response.extension
    ELSE [type |-> "application/octet-stream", charset |-> "utf8"]

(* _extendSupportedMimeTypes: one that does not parse throws.              *)
SupportedTypes(additional) ==
    IF Undef \in additional THEN Undef
    ELSE HtmlAndXmlMimeTypes \cup {ApplicationJson} \cup additional

(* _encodeResponse.  stream is the encoding that the text then has.        *)
EncodeResponse(crawler, charset) ==
    LET encoding == CASE crawler.force # Undef -> crawler.force
                      [] crawler.force = Undef /\ charset # Undef -> charset
                      [] OTHER -> crawler.suggest
    IN  CASE encoding = Undef -> [encoding |-> "utf8", reencoded |-> Undef]
          [] encoding \in NodeEncodings -> [encoding |-> encoding, reencoded |-> Undef]
          [] encoding \in IconvEncodings \ NodeEncodings ->
                [encoding |-> "utf8", reencoded |-> encoding]
          [] OTHER -> Undef

-----------------------------------------------------------------------------
(* The answer.                                                             *)

(* _abortDownloadOfBody, the first of the postNavigationHooks.             *)
AbortsDownload(crawler, response) ==
    \/ response.statusCode = 406
    \/ /\ ParseContentType(response).type \notin SupportedTypes(crawler.additional)
       /\ response.statusCode < 500

(* _parseResponse: an encoding that is not supported and the statuses from *)
(* 500 throw; of an HTML or XML document the DOM is kept, of anything else *)
(* the body.                                                               *)
ParseResponse(crawler, response) ==
    LET type == ParseContentType(response)
        encoded == EncodeResponse(crawler, type.charset)
        kept == [dom |-> FALSE, isXml |-> FALSE, body |-> FALSE, contentType |-> type.type]
    IN  CASE encoded = Undef \/ response.statusCode >= 500 -> Undef
          [] encoded # Undef /\ response.statusCode < 500 ->
                IF type.type \in HtmlAndXmlMimeTypes
                THEN [kept EXCEPT !.dom = TRUE, !.isXml = type.type # "text/html"]
                ELSE [kept EXCEPT !.body = TRUE]

(* _throwOnBlockedRequest, by which the session is retired.                *)
IsBlocked(response) == response.statusCode \in {401, 403, 429}

(* From the answer to the requestHandler.                                  *)
OutcomeOf(crawler, response) ==
    CASE AbortsDownload(crawler, response) -> "noRetry"
      [] ~AbortsDownload(crawler, response) /\ ParseResponse(crawler, response) = Undef -> "retry"
      [] OTHER ->
            IF crawler.useSessionPool /\ IsBlocked(response) THEN "retire" ELSE "handle"

(* What the handler gets: $, json and body of its context.  valid tells    *)
(* whether the body is JSON: reading json throws when it is not.           *)
ContextOf(crawler, response, valid) ==
    LET parsed == ParseResponse(crawler, response)
    IN  [ dollar |-> parsed.dom,
          json |-> IF parsed.contentType # ApplicationJson THEN "null"
                   ELSE IF valid THEN "value" ELSE "throws",
          body |-> IF parsed.dom THEN (IF parsed.isXml THEN "xml" ELSE "html") ELSE "buffer" ]

-----------------------------------------------------------------------------
(* Links.  An href is [absolute, path]; what is resolved has no other      *)
(* base than the one that is given.                                        *)

(* extractUrlsFromCheerio: empty ones are dropped; a relative one without  *)
(* a base throws.                                                          *)
ExtractUrls(hrefs, baseUrl) ==
    LET named == SelectSeq(hrefs, LAMBDA h : h # Undef)
    IN  IF baseUrl = Undef /\ \E i \in DOMAIN named : ~named[i].absolute THEN Undef
        ELSE [i \in DOMAIN named |-> IF named[i].absolute THEN named[i].path
                                     ELSE <<baseUrl, named[i].path>>]

(* cheerioCrawlerEnqueueLinks, up to enqueueLinks: a document without a    *)
(* DOM has no links to enqueue.                                            *)
LinksOf(context, hrefs, baseUrl) ==
    IF context.dollar THEN ExtractUrls(hrefs, baseUrl) ELSE Undef
=============================================================================
