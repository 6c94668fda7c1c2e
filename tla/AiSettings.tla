----------------------------- MODULE AiSettings -----------------------------
(***************************************************************************)
(* The AI settings of the web UI: the file DATA_DIR/ai_settings.json       *)
(* (ai_settings.py) and the four handlers that read and write it           *)
(* (web/app.py): saving the form, listing models, chat and analysis.       *)
(*                                                                         *)
(* The handlers run on one event loop.  Saving is one step; the others     *)
(* load the settings, await an answer of the AI provider (ai_client.py)    *)
(* for up to minutes, and then write the file, whatever has been saved     *)
(* meanwhile.  The file is replaced atomically (tmp.replace), so a crash   *)
(* only loses the requests that wait.                                      *)
(*                                                                         *)
(* temperature, system_prompt and extra_headers are like `model` and left  *)
(* out; the content of questions and answers is too.                       *)
(***************************************************************************)
EXTENDS Endpoint

CONSTANTS
    Req,            \* names of requests that wait for a provider
    Key, Model,     \* API keys, model names
    Forms,          \* request bodies of /api/ai/settings: some fields of the settings
    Overrides,      \* request bodies of /api/ai/models: some of base, key, provider
    MaxRequests     \* bound: requests in a behaviour

Protocols == {"openai", "anthropic", "openai_responses"}
Providers == Protocols \cup {"auto"}
None == ""          \* a key, model or detected provider that is not set

Base == Url \cup {NoUrl}

Settings ==
    [enabled : BOOLEAN, base : Base, key : Key \cup {None}, model : Model \cup {None},
     provider : Providers, detected : Protocols \cup {None}]

\* A request body has some of the fields, each with a value of its type.
IsBody(body, fields) ==
    /\ DOMAIN body \subseteq fields
    /\ \A f \in DOMAIN body :
          CASE f = "enabled"  -> body[f] \in BOOLEAN
            [] f = "base"     -> body[f] \in Base
            [] f = "key"      -> body[f] \in Key \cup {None}
            [] f = "model"    -> body[f] \in Model \cup {None}
            [] f = "provider" -> body[f] \in Providers
            [] f = "detected" -> body[f] \in Protocols \cup {None}

ASSUME BodiesAreFields ==
    /\ \A body \in Forms :
          IsBody(body, {"enabled", "base", "key", "model", "provider", "detected"})
    /\ \A body \in Overrides : IsBody(body, {"base", "key", "provider"})
\* What operators type is the URL of an API, below a prefix that is not itself
\* taken for one: of ".../messages/models" the code strips only the last path,
\* and the next normalisation the other.  An override without a URL has no base.
ASSUME BasesNameApis ==
    \A body \in Forms \cup Overrides : "base" \in DOMAIN body =>
        \/ body.base = NoUrl /\ body \notin Overrides
        \/ body.base \in Url /\ NamesApi(body.base)
ASSUME BoundIsNatural == MaxRequests \in Nat

VARIABLES
    disk,       \* what AiSettingsStore.load() returns
    waiting,    \* requests that wait: what each asks for and the settings it loaded
    requests    \* requests so far

vars == <<disk, waiting, requests>>

TypeOK ==
    /\ disk \in Settings
    /\ DOMAIN waiting \subseteq Req
    /\ \A r \in DOMAIN waiting : waiting[r] \in [kind : {"models", "chat"}, cfg : Settings]
    /\ requests \in 0 .. MaxRequests

Unsaved ==
    [enabled |-> FALSE, base |-> DefaultUrl, key |-> None, model |-> None,
     provider |-> "auto", detected |-> None]

Init == disk = Unsaved /\ waiting = <<>> /\ requests = 0

(***************************************************************************)
(* AiSettingsStore                                                         *)
(***************************************************************************)

Normalized(cfg) == [cfg EXCEPT !.base = Normalize(cfg.base, cfg.provider)]

\* Mutant of Save: the base URL is stored as it was typed.
BugSaveRaw(cfg) == disk' = cfg

\* save() stores the base URL in its normal form.
Save(cfg) == disk' = Normalized(cfg)

\* A body changes the fields it has; a blank or masked key changes nothing.
Overridden(cfg, body) ==
    [f \in DOMAIN cfg |->
        IF f \in DOMAIN body /\ ~(f = "key" /\ body[f] = None) THEN body[f] ELSE cfg[f]]

IsReady(cfg) == cfg.enabled /\ cfg.key # None /\ cfg.model # None

(***************************************************************************)
(* ai_client                                                               *)
(***************************************************************************)

\* prepare_settings: normal base, and a guess if nothing was detected yet.
Prepared(cfg) ==
    LET ready == Normalized(cfg) IN
    IF cfg.provider = "auto" /\ cfg.detected = None
      THEN [ready EXCEPT !.detected = ProviderGuess(cfg.base, cfg.provider)]
      ELSE ready

\* The protocols fetch_models tries; a list of responses models is OpenAI's.
ModelProtocols(cfg) ==
    IF cfg.provider = "auto" THEN {"openai", "anthropic"}
    ELSE IF cfg.provider = "anthropic" THEN {"anthropic"} ELSE {"openai"}

Primary(cfg) == IF cfg.provider = "auto" THEN cfg.detected ELSE cfg.provider

\* The protocols chat_completion tries in turn.
Chain(cfg) ==
    IF Primary(cfg) = "openai_responses" THEN {"openai_responses", "openai"} ELSE Protocols

(***************************************************************************)
(* The handlers                                                            *)
(***************************************************************************)

Asked == requests < MaxRequests /\ requests' = requests + 1

SaveForm ==
    /\ Asked
    /\ \E body \in Forms : Save(Overridden(disk, body))
    /\ UNCHANGED waiting

Wait(r, kind, cfg) ==
    /\ r \notin DOMAIN waiting
    /\ waiting' = [q \in DOMAIN waiting \cup {r} |->
                      IF q = r THEN [kind |-> kind, cfg |-> cfg] ELSE waiting[q]]

Done(r) == waiting' = [q \in DOMAIN waiting \ {r} |-> waiting[q]]

Awaits(r, kind) == r \in DOMAIN waiting /\ waiting[r].kind = kind

\* Without a key nothing is asked; the answer is an error.
AskModels(r) ==
    /\ Asked
    /\ \E body \in Overrides :
          LET cfg == Prepared(Overridden(disk, body)) IN
          /\ cfg.key # None
          /\ Wait(r, "models", cfg)
    /\ UNCHANGED disk

\* Mutants of ModelsListed: the chosen protocol is stored as the detected one,
\* the settings that were loaded before are saved.
BugStoresChoice(r) ==
    /\ Awaits(r, "models")
    /\ LET cfg == waiting[r].cfg IN
       Save([disk EXCEPT !.base = cfg.base, !.detected = cfg.provider])
    /\ Done(r)
    /\ UNCHANGED requests

BugSaveStale(r) ==
    /\ Awaits(r, "models")
    /\ \E p \in ModelProtocols(waiting[r].cfg) : Save([waiting[r].cfg EXCEPT !.detected = p])
    /\ Done(r)
    /\ UNCHANGED requests

\* The file is loaded again: the answer's base URL and protocol go into it, and
\* the key if it has none.
ModelsListed(r) ==
    /\ Awaits(r, "models")
    /\ LET cfg == waiting[r].cfg IN
       \E p \in ModelProtocols(cfg) :
          Save([disk EXCEPT !.base = cfg.base, !.detected = p,
                            !.key = IF @ = None THEN cfg.key ELSE @])
    /\ Done(r)
    /\ UNCHANGED requests

\* Settings that are not ready are answered with an error.
AskChat(r) ==
    /\ Asked
    /\ IsReady(disk)
    /\ Wait(r, "chat", Prepared(disk))
    /\ UNCHANGED disk

\* Chat and analysis save the settings they loaded, with the protocol that
\* answered.
Chatted(r) ==
    /\ Awaits(r, "chat")
    /\ \E p \in Chain(waiting[r].cfg) : Save([waiting[r].cfg EXCEPT !.detected = p])
    /\ Done(r)
    /\ UNCHANGED requests

\* Every protocol failed or timed out: an error, and the file as it is.
ProviderFails(r) ==
    /\ r \in DOMAIN waiting
    /\ Done(r)
    /\ UNCHANGED <<disk, requests>>

Crash ==
    /\ waiting' = <<>>
    /\ UNCHANGED <<disk, requests>>

Next ==
    \/ SaveForm \/ Crash
    \/ \E r \in Req :
          \/ AskModels(r) \/ ModelsListed(r)
          \/ AskChat(r) \/ Chatted(r)
          \/ ProviderFails(r)

Spec == Init /\ [][Next]_vars

(***************************************************************************)
(* Properties                                                              *)
(***************************************************************************)

Chosen == {"enabled", "model", "provider"}

\* Of what was saved while a model list was awaited, the operator's switch,
\* model and protocol stay when it arrives, and a stored key is never replaced.
\* The base URL is not among these: it becomes the one the request had loaded
\* or was given (web/app.py, persisted.base_url), whatever was saved meanwhile.
LateListKeepsChoices ==
    [][\A r \in Req : Awaits(r, "models") /\ ~(r \in DOMAIN waiting') =>
          /\ \A f \in Chosen : disk'[f] = disk[f]
          /\ disk.key # None => disk'.key = disk.key]_vars

\* Whatever is typed, overridden or changed meanwhile, the stored base URL is
\* in normal form for the stored protocol, so every load is ready for use.
StoredBaseIsNormal ==
    Normalize(disk.base, disk.provider) = disk.base

Below == [openai |-> <<"v1", "chat", "completions">>,
          openai_responses |-> <<"v1", "responses">>,
          anthropic |-> <<"v1", "messages">>]

\* However the URL was typed, and whichever protocol it was normalised for
\* before a form, an override or a late list changed it: a question goes to the
\* host's prefix followed by one /v1 and the API path of its protocol.  An
\* OpenAI protocol at a base that is stored Anthropic's way is the exception:
\* its request lacks the /v1.
ApiIsReached ==
    \A r \in DOMAIN waiting, protocol \in Protocols :
        LET cfg == waiting[r].cfg IN
        protocol = "anthropic" \/ ~AnthropicStyle(cfg.base, cfg.provider) =>
            ChatUrl(cfg.base, protocol) =
                [host |-> cfg.base.host, path |-> Prefix[cfg.base.host] \o Below[protocol]]

\* README.md, "saved as DATA_DIR/ai_settings.json": what the AI page saved is
\* kept until it saves again; an answer to a chat changes none of it.
SavedIsKept ==
    [][\A r \in Req : Awaits(r, "chat") /\ r \notin DOMAIN waiting' =>
          \A f \in Chosen \cup {"base", "key"} : disk'[f] = disk[f]]_vars
=============================================================================
