--------------------------- MODULE RequestSources ---------------------------
(***************************************************************************)
(* Requests as they are made from a user's options, and how the sources of *)
(* a RequestList become its requests.  A URL is a page and a fragment,     *)
(* already normalized; a payload is known by its hash.                     *)
(***************************************************************************)
EXTENDS Integers, Sequences, SequencesExt

CONSTANT NoKey          \* no uniqueKey among the options

(* Request._computeUniqueKey: which requests are taken to be the same.     *)
NormalizedUrl(options) ==
    IF options.keepUrlFragment THEN options.url ELSE [options.url EXCEPT !.fragment = ""]

ComputeUniqueKey(options) ==
    IF options.useExtendedUniqueKey
    THEN <<options.method, options.payload, NormalizedUrl(options)>>
    ELSE <<NormalizedUrl(options)>>

(* A request with GET cannot have a payload.                               *)
Valid(options) == options.method = "GET" => options.payload = ""

-----------------------------------------------------------------------------
(* A source of a list has a uniqueKey of its own or the one computed from  *)
(* its URL; with keepDuplicateUrls the computed one gets the place that    *)
(* the request would have in the list.  A request whose key is there       *)
(* already is left out, whatever the option says.                          *)
KeyOf(requests, source, keepDuplicateUrls) ==
    CASE source.uniqueKey # NoKey -> source.uniqueKey
      [] keepDuplicateUrls        -> <<source.url, Len(requests)>>
      [] OTHER                    -> <<source.url>>

HasKey(requests, key) == \E i \in DOMAIN requests : requests[i].uniqueKey = key

AddRequest(requests, source, keepDuplicateUrls) ==
    LET key == KeyOf(requests, source, keepDuplicateUrls)
    IN IF HasKey(requests, key) THEN requests
       ELSE Append(requests, [url |-> source.url, uniqueKey |-> key])

AddAll(requests, sources, keepDuplicateUrls) ==
    FoldLeft(LAMBDA list, source : AddRequest(list, source, keepDuplicateUrls), requests, sources)

(* The sources in their order, those with requestsFromUrl replaced by what *)
(* was downloaded, then what sourcesFunction returned.                     *)
AddRequestsFromSources(sources, fromFunction, keepDuplicateUrls) ==
    AddAll(AddAll(<<>>, FlattenSeq(sources), keepDuplicateUrls), fromFunction, keepDuplicateUrls)

(* What was persisted under persistRequestsKey replaces all sources.       *)
AddPersistedRequests(persisted, keepDuplicateUrls) == AddAll(<<>>, persisted, keepDuplicateUrls)
=============================================================================
