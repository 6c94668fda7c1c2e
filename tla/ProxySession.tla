---------------------------- MODULE ProxySession ----------------------------
(***************************************************************************)
(* One admitted connection, from its first byte to its last event: the     *)
(* body of _on_connection (server.py), detect_protocol (detect.py) and the *)
(* two handlers, handle_socks5 and handle_http_proxy (proto/).             *)
(*                                                                         *)
(* The client's bytes arrive in chunks of any size, and at any read it may *)
(* stall (the read times out), half-close (the read finds end of file) or  *)
(* reset.  A reply is written and drained; drain raises when the peer has  *)
(* reset.  What the session does is the sequence of the events it emits    *)
(* and the replies it sends, in that order.                                *)
(*                                                                         *)
(* A stream is a sequence of naturals.  SOCKS5 streams are the bytes       *)
(* themselves.  An HTTP request is a sequence of tokens above 255: the two *)
(* halves of its method, the rest of its request line, header lines, the   *)
(* two halves of a Basic credential and the blank line.                    *)
(***************************************************************************)
EXTENDS Naturals, Sequences, SequencesExt

CONSTANTS
    Streams,     \* what clients may send
    MaxHeader    \* bound on an unfinished HTTP header (65536 in the code)

\* HTTP tokens
Method1 == 300      \* the first half of a method name
Method2 == 301      \* its second half
Target == 302       \* a space, the target and the version
Header == 303       \* a header line of no interest
Basic1 == 304       \* "Proxy-Authorization: Basic" and half of a credential
Basic2 == 305       \* the other half
OtherAuth == 306    \* a Proxy-Authorization line of another scheme
NoAuth == 307       \* a Proxy-Authorization line without a value
Blank == 308        \* the blank line that ends the header

ASSUME StreamsAreTokens == \A s \in Streams : s \in Seq(Nat)
\* The two halves of a credential stand for one line of the header.
ASSUME CredentialsAreWhole ==
    \A s \in Streams : \A i \in 1 .. Len(s) - 1 : s[i] = Basic1 => s[i + 1] = Basic2
ASSUME HeaderBound == MaxHeader \in Nat

Protocols == {"socks5", "http_proxy"}

VARIABLES
    config,     \* the port's protocols, the auth mode, prefer_userpass
    stream,     \* what this client would send
    rest,       \* what it has not sent yet
    buf,        \* received and not consumed
    pc,         \* the stage of the session
    need,       \* length of the field to come, announced by an earlier one
    creds,      \* the credentials of the auth event
    log,        \* history: events and replies
    cut         \* history: a read or a drain failed

vars == <<config, stream, rest, buf, pc, need, creds, log, cut>>

Configs ==
    [accepts : (SUBSET Protocols) \ {{}},
     mode : {"always_fail", "accept_then_fail"},
     prefer : BOOLEAN]

NoCreds == [kind |-> "none", user |-> <<>>, password |-> <<>>]
SocksCreds(u, p) == [kind |-> "userpass", user |-> u, password |-> p]
HttpCreds(kind) == [kind |-> kind, user |-> <<>>, password |-> <<>>]

Entries ==
    {"connect", "timeout", "probe", "reject", "negotiate", "auth", "error",
     "-> userpass", "-> no method", "-> auth failed", "-> auth ok", "-> refused",
     "-> 407", "-> 502/403"}

Stages == {"first", "greeting", "methods", "authHead", "username", "plen",
           "password", "request", "domain", "address", "header", "done"}

TypeOK ==
    /\ config \in Configs
    /\ stream \in Streams
    /\ rest \in Seq(Nat) /\ buf \in Seq(Nat)
    /\ pc \in Stages
    /\ need \in Nat
    /\ creds \in [kind : {"none"}, user : Seq(Nat), password : {<<>>}]
            \cup [kind : {"userpass"}, user : Seq(Nat), password : Seq(Nat)]
            \cup [kind : {"basic", "truncated", "other"}, user : {<<>>}, password : {<<>>}]
    /\ log \in Seq(Entries)
    /\ cut \in BOOLEAN

Init ==
    /\ config \in Configs
    /\ stream \in Streams
    /\ rest = stream /\ buf = <<>>
    /\ pc = "first" /\ need = 0
    /\ creds = NoCreds
    /\ log = <<"connect">>
    /\ cut = FALSE

(***************************************************************************)
(* detect_protocol                                                         *)
(***************************************************************************)

\* A method counts only if the first chunk has all of it and then nothing or
\* a space.
Detected(first) ==
    IF first[1] = 5 THEN "socks5"
    ELSE IF IsPrefix(<<Method1, Method2>>, first)
              /\ (Len(first) > 2 => first[3] = Target)
      THEN "http_proxy" ELSE "unknown"

(***************************************************************************)
(* Reading and writing                                                     *)
(***************************************************************************)

\* How much a stage must find in the buffer before it goes on (read_exact).
Wanted ==
    CASE pc = "greeting" -> 2
      [] pc = "methods"  -> 2 + buf[2]
      [] pc = "authHead" -> 2
      [] pc = "plen"     -> 1
      [] pc = "request"  -> 4
      [] pc = "domain"   -> 1
      [] pc \in {"username", "password", "address"} -> need
      [] OTHER -> 0

\* Mutant of HeaderComplete: what the first read brought is taken for all of it.
BugOneRead == TRUE

HeaderComplete == Contains(buf, Blank) \/ Len(buf) > MaxHeader

MustRead ==
    \/ pc = "first"
    \/ pc = "header" /\ ~HeaderComplete
    \/ pc \notin {"first", "header", "done"} /\ Len(buf) < Wanted

\* A later read returns some of what the client sends next.
ReadMore ==
    /\ MustRead /\ pc # "first"
    /\ \E n \in 1 .. Len(rest) :
          /\ buf' = buf \o SubSeq(rest, 1, n)
          /\ rest' = SubSeq(rest, n + 1, Len(rest))
    /\ UNCHANGED <<config, stream, pc, need, creds, log, cut>>

Finish(entries) == log' = log \o entries /\ pc' = "done"

\* Mutant of ReadTimesOut: only the first read has a timeout.
BugFirstTimeoutOnly ==
    /\ pc = "first"
    /\ Finish(<<"timeout">>) /\ cut' = TRUE
    /\ UNCHANGED <<config, stream, rest, buf, need, creds>>

\* wait_for raises TimeoutError: in each of the three functions the handler
\* emits a timeout event and returns.
ReadTimesOut ==
    /\ MustRead
    /\ Finish(<<"timeout">>) /\ cut' = TRUE
    /\ UNCHANGED <<config, stream, rest, buf, need, creds>>

\* A reset ends the session without an event, and so does end of file, except
\* in the HTTP header (HttpTruncated).
ReadEnds ==
    /\ MustRead
    /\ Finish(<<>>) /\ cut' = TRUE
    /\ UNCHANGED <<config, stream, rest, buf, need, creds>>

\* Consume n bytes of the buffer and go to a stage.
Consume(n, stage) ==
    /\ buf' = SubSeq(buf, n + 1, Len(buf))
    /\ pc' = stage

\* Events, then a reply; if its drain raises, nothing more happens.  A reply
\* sent while more was wanted answers a stream that ended early.
EmitAndReply(events, reply, after, stage) ==
    \/ /\ log' = log \o events \o <<reply>> \o after
       /\ pc' = stage
       /\ cut' = MustRead
    \/ /\ log' = log \o events \o <<reply>>
       /\ pc' = "done"
       /\ cut' = TRUE

(***************************************************************************)
(* The first read of _on_connection                                        *)
(***************************************************************************)

FirstChunk ==
    /\ pc = "first"
    /\ \E n \in 1 .. Len(rest) :
          LET first == SubSeq(rest, 1, n)
              protocol == Detected(first)
          IN  /\ buf' = first
              /\ rest' = SubSeq(rest, n + 1, Len(rest))
              /\ \/ /\ protocol = "unknown"
                    /\ Finish(<<"probe">>)
                 \/ /\ protocol \in Protocols \ config.accepts
                    /\ Finish(<<"reject">>)
                 \/ /\ protocol \in config.accepts
                    /\ pc' = IF protocol = "socks5" THEN "greeting" ELSE "header"
                    /\ UNCHANGED log
    /\ UNCHANGED <<config, stream, need, creds, cut>>

(***************************************************************************)
(* handle_socks5.  Its bad_version probe needs a first byte other than 5,  *)
(* which never gets this far.                                              *)
(***************************************************************************)

\* A stage that has all the bytes it wants.
AtStage(stage) == pc = stage /\ Len(buf) >= Wanted

Greeting ==
    /\ AtStage("greeting")
    /\ pc' = "methods"
    /\ UNCHANGED <<config, stream, rest, buf, need, creds, log, cut>>

OffersUserpass(methods) == Contains(methods, 2)

\* Without prefer_userpass, a client that also offers "no authentication" is
\* turned away.
Methods ==
    /\ AtStage("methods")
    /\ LET methods == SubSeq(buf, 3, Wanted) IN
          IF OffersUserpass(methods) /\ (config.prefer \/ ~Contains(methods, 0))
            THEN EmitAndReply(<<"negotiate">>, "-> userpass", <<>>, "authHead")
            ELSE EmitAndReply(<<"negotiate">>, "-> no method", <<"reject">>, "done")
    /\ buf' = SubSeq(buf, Wanted + 1, Len(buf))
    /\ UNCHANGED <<config, stream, rest, need, creds>>

\* Mutant of BadAuthVersion: no return after the error event.
BugGoesOn ==
    /\ AtStage("authHead") /\ buf[1] # 1
    /\ log' = Append(log, "error")
    /\ need' = buf[2] /\ Consume(2, "username")
    /\ UNCHANGED <<config, stream, rest, creds, cut>>

BadAuthVersion ==
    /\ AtStage("authHead") /\ buf[1] # 1
    /\ Finish(<<"error">>)
    /\ buf' = SubSeq(buf, 3, Len(buf))
    /\ UNCHANGED <<config, stream, rest, need, creds, cut>>

AuthHead ==
    /\ AtStage("authHead") /\ buf[1] = 1
    /\ need' = buf[2]
    /\ Consume(2, "username")
    /\ UNCHANGED <<config, stream, rest, creds, log, cut>>

\* The name waits in creds for the event that will carry it.
Username ==
    /\ AtStage("username")
    /\ creds' = [creds EXCEPT !.user = SubSeq(buf, 1, need)]
    /\ Consume(need, "plen")
    /\ UNCHANGED <<config, stream, rest, need, log, cut>>

PasswordLength ==
    /\ AtStage("plen")
    /\ need' = buf[1]
    /\ Consume(1, "password")
    /\ UNCHANGED <<config, stream, rest, creds, log, cut>>

\* Mutant of AuthReply: the mode is not looked at.
BugAlwaysOk == EmitAndReply(<<"auth">>, "-> auth ok", <<>>, "request")

\* Mutant of AuthReply: reply first, record afterwards.
BugReplyFirst ==
    IF config.mode = "always_fail"
      THEN EmitAndReply(<<>>, "-> auth failed", <<"auth">>, "done")
      ELSE EmitAndReply(<<>>, "-> auth ok", <<"auth">>, "request")

\* The auth event, then failure (L1) or success (L2).
AuthReply ==
    IF config.mode = "always_fail"
      THEN EmitAndReply(<<"auth">>, "-> auth failed", <<>>, "done")
      ELSE EmitAndReply(<<"auth">>, "-> auth ok", <<>>, "request")

\* Mutant of Password: the auth dict gets its password and not its kind.
BugHalfAuth ==
    /\ AtStage("password")
    /\ creds' = [creds EXCEPT !.password = SubSeq(buf, 1, need)]
    /\ AuthReply
    /\ buf' = SubSeq(buf, need + 1, Len(buf))
    /\ UNCHANGED <<config, stream, rest, need>>

Password ==
    /\ AtStage("password")
    /\ creds' = SocksCreds(creds.user, SubSeq(buf, 1, need))
    /\ AuthReply
    /\ buf' = SubSeq(buf, need + 1, Len(buf))
    /\ UNCHANGED <<config, stream, rest, need>>

\* L2: the address type of the CONNECT request; an unknown one ends it.
Request ==
    /\ AtStage("request")
    /\ need' = CASE buf[4] = 1 -> 4 + 2 [] buf[4] = 4 -> 16 + 2 [] OTHER -> 0
    /\ Consume(4, CASE buf[4] \in {1, 4} -> "address"
                    [] buf[4] = 3 -> "domain" [] OTHER -> "done")
    /\ UNCHANGED <<config, stream, rest, creds, log, cut>>

DomainLength ==
    /\ AtStage("domain")
    /\ need' = buf[1] + 2
    /\ Consume(1, "address")
    /\ UNCHANGED <<config, stream, rest, creds, log, cut>>

\* One of three failure codes, never success; nothing is dialled.
Address ==
    /\ AtStage("address")
    /\ EmitAndReply(<<>>, "-> refused", <<>>, "done")
    /\ buf' = SubSeq(buf, need + 1, Len(buf))
    /\ UNCHANGED <<config, stream, rest, need, creds>>

(***************************************************************************)
(* handle_http_proxy.  Its empty_request probe needs an empty first line,  *)
(* which is not detected as HTTP.                                          *)
(***************************************************************************)

\* The header block: what precedes the blank line, or all there is.
HeaderBlock(data) ==
    IF Contains(data, Blank)
      THEN SubSeq(data, 1, SelectInSeq(data, LAMBDA t : t = Blank) - 1)
      ELSE data

AuthLines == {Basic1, OtherAuth, NoAuth}

\* headers[...] keeps the last line of a name; a line without a value counts
\* as none, and half a credential is decoded like a whole one.
ProxyAuth(block) ==
    LET last == SelectLastInSeq(block, LAMBDA t : t \in AuthLines) IN
    IF last = 0 \/ block[last] = NoAuth THEN NoCreds
    ELSE IF block[last] = OtherAuth THEN HttpCreds("other")
    ELSE IF last < Len(block) /\ block[last + 1] = Basic2 THEN HttpCreds("basic")
    ELSE HttpCreds("truncated")

Answer(data) ==
    LET auth == ProxyAuth(HeaderBlock(data)) IN
    /\ creds' = auth
    /\ EmitAndReply(
          <<"negotiate">> \o (IF auth = NoCreds THEN <<>> ELSE <<"auth">>),
          IF config.mode = "always_fail" \/ auth = NoCreds THEN "-> 407"
                                                          ELSE "-> 502/403",
          <<>>, "done")
    /\ UNCHANGED <<config, stream, rest, buf, need>>

HttpRequest == pc = "header" /\ HeaderComplete /\ Answer(buf)

\* End of file before the blank line: what has arrived is parsed all the same.
HttpTruncated ==
    /\ pc = "header" /\ ~HeaderComplete
    /\ Answer(buf)

Socks5 ==
    \/ Greeting \/ Methods
    \/ BadAuthVersion \/ AuthHead \/ Username \/ PasswordLength \/ Password
    \/ Request \/ DomainLength \/ Address

Next ==
    \/ FirstChunk \/ ReadMore
    \/ ReadTimesOut \/ ReadEnds
    \/ Socks5
    \/ HttpRequest \/ HttpTruncated

Spec == Init /\ [][Next]_vars

\* The handler runs when it can, and a read that brings nothing times out.
\* Nothing makes the client send.
FairSpec ==
    /\ Spec
    /\ WF_vars(Socks5 \/ HttpRequest)
    /\ WF_vars(ReadTimesOut)

(***************************************************************************)
(* What a whole stream means, read at once and not in chunks               *)
(***************************************************************************)

SocksLog(s) ==
    LET n    == s[2]                  \* the methods are s[3 .. 2 + n]
        offered == {s[i] : i \in 3 .. 2 + n}
        user == s[n + 4]              \* length of the name
        pass == s[n + 5 + user]       \* length of the password
        atyp == s[n + 5 + user + pass + 4]
    IN  IF 2 \notin offered \/ (0 \in offered /\ ~config.prefer)
          THEN <<"connect", "negotiate", "-> no method", "reject">>
        ELSE IF s[n + 3] # 1
          THEN <<"connect", "negotiate", "-> userpass", "error">>
        ELSE <<"connect", "negotiate", "-> userpass", "auth">> \o
             (IF config.mode = "always_fail" THEN <<"-> auth failed">>
              ELSE IF atyp \in {1, 3, 4} THEN <<"-> auth ok", "-> refused">>
              ELSE <<"-> auth ok">>)

UserOf(s) == SubSeq(s, s[2] + 5, s[2] + 4 + s[s[2] + 4])
PasswordOf(s) ==
    LET at == s[2] + 5 + s[s[2] + 4] IN SubSeq(s, at + 1, at + s[at])

\* The positions of the authorization lines of an HTTP request's header.
AuthLinesOf(s) ==
    {i \in DOMAIN s : s[i] \in AuthLines /\ \A j \in 1 .. i : s[j] # Blank}

\* "none", "basic" or "other", by the last authorization line.
SchemeOf(s) ==
    LET LastIs(kinds) == \E i \in AuthLinesOf(s) :
            s[i] \in kinds /\ \A j \in AuthLinesOf(s) : j <= i
    IN  CASE LastIs({Basic1}) -> "basic" [] LastIs({OtherAuth}) -> "other"
          [] OTHER -> "none"

HttpLog(s) ==
    IF SchemeOf(s) = "none" THEN <<"connect", "negotiate", "-> 407">>
    ELSE <<"connect", "negotiate", "auth",
           IF config.mode = "always_fail" THEN "-> 407" ELSE "-> 502/403">>

(***************************************************************************)
(* Properties                                                              *)
(***************************************************************************)

InLog(entry) == Contains(log, entry)

\* How the network cuts the stream does not matter once the protocol has been
\* recognised: a session that no failure cut short emits and replies what the
\* whole stream says, and records exactly its credentials.
SegmentationIrrelevant ==
    pc = "done" /\ ~cut /\ InLog("negotiate")
      /\ (stream[1] # 5 => Len(stream) <= MaxHeader) =>
        IF stream[1] = 5
          THEN /\ log = SocksLog(stream)
               /\ InLog("auth") => creds = SocksCreds(UserOf(stream), PasswordOf(stream))
          ELSE log = HttpLog(stream) /\ creds = HttpCreds(SchemeOf(stream))

\* Credentials are recorded before the client is told anything about them: a
\* client that hangs up on the verdict, or whose connection breaks as it is
\* sent, has been recorded. The 407 is a verdict when credentials were sent
\* (always_fail answers them with it) and a request for them when none were.
RecordedBeforeVerdict ==
    \A i \in DOMAIN log :
        \/ log[i] \in {"-> auth failed", "-> auth ok", "-> 502/403"}
        \/ log[i] = "-> 407" /\ creds # NoCreds
        => \E j \in 1 .. i - 1 : log[j] = "auth"

\* Never an open proxy (docs/architecture.md): success is only ever said of the
\* authentication, only in accept-then-fail mode, and is followed by a refusal,
\* a timeout or nothing.
NeverOpen ==
    \A i \in DOMAIN log : log[i] = "-> auth ok" =>
        /\ config.mode = "accept_then_fail"
        /\ i = Len(log) \/ (i + 1 = Len(log) /\ log[i + 1] \in {"-> refused", "timeout"})

\* A session is told as one story: at most one auth event, and an event that
\* ends a session is the last thing it does.
OneEnding ==
    \A i, j \in DOMAIN log : i < j =>
        /\ log[i] \notin {"timeout", "probe", "reject", "error"}
        /\ ~(log[i] = "auth" /\ log[j] = "auth")

\* A session ends whatever the client does or leaves undone, so that it gives
\* its slot back.
EverySessionEnds == <>(pc = "done")
=============================================================================
