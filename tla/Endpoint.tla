------------------------------ MODULE Endpoint ------------------------------
(***************************************************************************)
(* Base URLs of AI endpoints (ai_compat.py): what smart_normalize_base     *)
(* makes of a URL as an operator types it, and where ai_client.py sends a  *)
(* request of each protocol.  No state: AiSettings stores the result.      *)
(*                                                                         *)
(* A URL is its host and the segments of its path; Blank is a segment, so  *)
(* that <<"v1", Blank>> is /v1/.  The scheme (https:// if none was typed), *)
(* port and user are kept by the code and left out; a query is dropped.    *)
(***************************************************************************)
EXTENDS Naturals, Sequences, SequencesExt

CONSTANTS
    Host, Segment,  \* the names that URLs are made of
    OpenAiHost, AnthropicHost,  \* KNOWN_OPENAI_HOSTS, KNOWN_ANTHROPIC_HOSTS
    Words,          \* which of "anthropic", "claude", "openai" a name contains
    StartsWithV1,   \* segments of which /v1 is a substring: v1, v1beta
    Prefix          \* the path below which each host has its API

Blank == ""     \* the empty segment

ASSUME NamesAreKnown ==
    /\ OpenAiHost \subseteq Host /\ AnthropicHost \subseteq Host /\ Blank \notin Host
    /\ Words \in [Host \cup Segment -> SUBSET {"anthropic", "claude", "openai"}]
    /\ StartsWithV1 \subseteq Segment /\ "v1" \in StartsWithV1
    /\ "api.openai.com" \in OpenAiHost \ AnthropicHost
    /\ Words["api.openai.com"] = {"openai"}

ApiNames == {"chat", "completions", "messages", "responses", "models"}

\* A prefix is not itself taken for a version or for an API path.
ASSUME PrefixesArePlain ==
    /\ Prefix \in [Host -> Seq(Segment)] /\ Prefix["api.openai.com"] = <<>>
    /\ \A host \in Host : \A i \in DOMAIN Prefix[host] :
          /\ Prefix[host][i] \notin StartsWithV1
          /\ i = Len(Prefix[host]) => Prefix[host][i] \notin ApiNames \cup {Blank}

Url == [host : Host, path : Seq(Segment)]
NoUrl == [host |-> Blank, path |-> <<>>]   \* the field was cleared

\* str.rstrip("/")
WithoutSlashes(path) ==
    SubSeq(path, 1, Max({0} \cup {i \in DOMAIN path : path[i] # Blank}))

\* Mutant of ApiPaths: the shorter suffix first.
BugShorterFirst == << <<"completions">>, <<"chat", "completions">>, <<"messages">>,
                      <<"responses">>, <<"models">> >>

ApiPaths == << <<"chat", "completions">>, <<"completions">>, <<"messages">>,
               <<"responses">>, <<"models">> >>

StripSuffix(path, api) ==
    IF IsSuffix(api, path) THEN SubSeq(path, 1, Len(path) - Len(api)) ELSE path

\* _strip_known_suffixes: each API path at most once, in the order of the list.
WithoutApiPath(path) ==
    LET stripped[n \in 0 .. Len(ApiPaths)] ==
            IF n = 0 THEN WithoutSlashes(path)
                     ELSE StripSuffix(stripped[n - 1], ApiPaths[n])
    IN WithoutSlashes(stripped[Len(ApiPaths)])

\* The URLs of a host's API, as operators type them: with its /v1 or without,
\* with one of the API paths or none, and with any slashes at the end.
NamesApi(url) ==
    \E version \in {<<>>, <<"v1">>}, api \in {<<>>} \cup Range(ApiPaths) :
        WithoutSlashes(url.path) = Prefix[url.host] \o version \o api

Mentions(url, word) ==
    \/ word \in Words[url.host]
    \/ \E i \in DOMAIN url.path : word \in Words[url.path[i]]

\* guess_provider_from_url
GuessFromUrl(url) ==
    IF \/ "anthropic" \in Words[url.host]
       \/ Mentions(url, "claude") /\ Mentions(url, "anthropic")
      THEN "anthropic"
    ELSE IF url.host \in OpenAiHost \/ "openai" \in Words[url.host]
      THEN "openai" ELSE "auto"

Effective(url, provider) ==
    LET wanted == IF provider = "auto" THEN GuessFromUrl(url) ELSE provider
    IN IF wanted = "auto" THEN "openai" ELSE wanted

\* These bases are stored without /v1, which the client adds.
AnthropicStyle(url, provider) ==
    \/ url.host \in AnthropicHost
    \/ Effective(url, provider) = "anthropic" /\ "anthropic" \in Words[url.host]

WithVersion(path) ==
    IF \E i \in DOMAIN path : path[i] \in StartsWithV1 THEN path
                                                      ELSE Append(path, "v1")

DefaultUrl == [host |-> "api.openai.com", path |-> <<"v1">>]

\* smart_normalize_base
Normalize(url, provider) ==
    IF url = NoUrl THEN DefaultUrl
    ELSE LET path == WithoutApiPath(url.path) IN
         [url EXCEPT !.path =
             IF ~AnthropicStyle(url, provider) THEN WithVersion(path)
             ELSE IF path = <<"v1">> THEN <<>> ELSE path]

\* The provider_guess that goes with it.
ProviderGuess(url, provider) ==
    CASE url = NoUrl                   -> "openai"
      [] url.host \in OpenAiHost       -> "openai"
      [] AnthropicStyle(url, provider) -> "anthropic"
      [] OTHER -> IF Effective(url, provider) = "anthropic" THEN "anthropic" ELSE "openai"

\* anthropic_api_root
ApiRoot(path) == StripSuffix(path, <<"v1">>)

\* _chat_openai, _chat_responses, _chat_anthropic: where the question goes.
ChatUrl(base, protocol) ==
    [base EXCEPT !.path =
        CASE protocol = "openai"           -> @ \o <<"chat", "completions">>
          [] protocol = "openai_responses" -> @ \o <<"responses">>
          [] protocol = "anthropic"        -> ApiRoot(@) \o <<"v1", "messages">>]
=============================================================================
