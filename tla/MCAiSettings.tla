---------------------------- MODULE MCAiSettings ----------------------------
(***************************************************************************)
(* Instances of AiSettings for TLC, with the URLs and the normalisation of *)
(* Endpoint.  Three hosts, each with its API below a prefix of its own: a  *)
(* gateway, a host named like Anthropic's, whose normal form depends on    *)
(* the protocol, and a proxy whose path names Claude.  A URL is typed with *)
(* its /v1 or without, with a whole API path or none, and with a slash at  *)
(* its end or none.                                                        *)
(***************************************************************************)
EXTENDS AiSettings

Hosts == {"api.openai.com", "api.anthropic.com", "gateway", "my-anthropic", "proxy"}
Segments == {"", "api", "claude", "anthropic", "v1", "v1beta", "chat", "completions",
             "messages", "responses", "models"}

NameWords == [n \in Hosts \cup Segments |->
    CASE n = "api.openai.com" -> {"openai"}
      [] n \in {"api.anthropic.com", "my-anthropic", "anthropic"} -> {"anthropic"}
      [] n = "claude" -> {"claude"}
      [] OTHER -> {}]

PrefixOf == [host \in Hosts |->
    CASE host = "gateway" -> <<"api">>
      [] host = "proxy"   -> <<"claude", "anthropic">>
      [] OTHER            -> <<>>]

U(host, path) == [host |-> host, path |-> path]

Typed ==
    {NoUrl} \cup
    { U(host, PrefixOf[host] \o version \o api \o slash) :
        host \in {"gateway", "my-anthropic", "proxy"},
        version \in {<<>>, <<"v1">>},
        api \in {<<>>, <<"chat", "completions">>, <<"messages">>, <<"models">>},
        slash \in {<<>>, <<"">>} }

Form(enabled, base, key, model, provider) ==
    [enabled |-> enabled, base |-> base, key |-> key, model |-> model, provider |-> provider]

SomeForms ==
    { Form(TRUE, u, "k1", "m1", "auto") : u \in Typed } \cup
    { Form(TRUE, U("my-anthropic", <<>>), "k2", "m2", "openai"),
      [enabled |-> FALSE], [provider |-> "openai_responses"], [model |-> "m2"],
      [detected |-> "anthropic"] }

SomeOverrides ==
    { [base |-> U("proxy", <<"claude", "anthropic", "v1", "messages">>), key |-> "k1",
       provider |-> "auto"],
      [base |-> U("my-anthropic", <<>>), key |-> "k2", provider |-> "openai"],
      [provider |-> "openai_responses"], [key |-> ""] }
=============================================================================
