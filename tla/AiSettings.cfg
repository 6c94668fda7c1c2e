\* Five requests: forms, model lists and chats, two of them waiting at a time.
CONSTANTS
    Req = {r1, r2}
    Host <- Hosts
    Segment <- Segments
    OpenAiHost = {"api.openai.com"}
    AnthropicHost = {"api.anthropic.com"}
    Words <- NameWords
    StartsWithV1 = {"v1", "v1beta"}
    Prefix <- PrefixOf
    Key = {"k1", "k2"}
    Model = {"m1", "m2"}
    Forms <- SomeForms
    Overrides <- SomeOverrides
    MaxRequests = 5
SPECIFICATION Spec
INVARIANTS
    TypeOK
    StoredBaseIsNormal
    ApiIsReached
PROPERTIES
    LateListKeepsChoices
