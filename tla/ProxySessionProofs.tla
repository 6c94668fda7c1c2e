------------------------- MODULE ProxySessionProofs -------------------------
(***************************************************************************)
(* Theorems about ProxySession, for every set of streams and every bound   *)
(* on the header: its types, what a session may say in which order, and    *)
(* that the cutting of a stream into chunks does not change what the       *)
(* session records of it.                                                  *)
(***************************************************************************)
EXTENDS ProxySession, SequenceTheorems, WellFoundedInduction, TLAPS

(***************************************************************************)
(* Words joined to a log                                                   *)
(***************************************************************************)

\* A word joined to a log of one.
LEMMA JoinOneToOne ==
    ASSUME NEW a, NEW b
    PROVE  /\ <<a>> \o <<b>> = <<a, b>>
<1> DEFINE S == {a, b}
<1>1. <<a>> \o <<b>> = <<a, b>>
  <2> DEFINE l == <<a>> \o <<b>>  r == <<a, b>>
  <2>1. /\ l \in Seq(S) /\ r \in Seq(S) /\ Len(l) = 2 /\ Len(r) = 2
        /\ \A i \in 1 .. 2 : l[i] = r[i]
    OBVIOUS
  <2> HIDE DEF l, r
  <2>2. l = r
    BY <2>1, SeqEqual
  <2> QED BY <2>2 DEF l, r
<1> QED BY <1>1

\* An event, or none, and a reply joined to a log of one.
LEMMA JoinTwoToOne ==
    ASSUME NEW a, NEW b, NEW c
    PROVE  /\ <<a>> \o <<b>> \o <<c>> = <<a, b, c>>
           /\ <<a>> \o <<b>> \o <<c>> \o <<>> = <<a, b, c>>
           /\ <<a>> \o (<<b>> \o <<>>) \o <<c>> = <<a, b, c>>
           /\ <<a>> \o (<<b>> \o <<>>) \o <<c>> \o <<>> = <<a, b, c>>
<1> DEFINE S == {a, b, c}
<1>1. <<a>> \o <<b>> \o <<c>> = <<a, b, c>>
  <2> DEFINE l == <<a>> \o <<b>> \o <<c>>  r == <<a, b, c>>
  <2>1. /\ l \in Seq(S) /\ r \in Seq(S) /\ Len(l) = 3 /\ Len(r) = 3
        /\ \A i \in 1 .. 3 : l[i] = r[i]
    OBVIOUS
  <2> HIDE DEF l, r
  <2>2. l = r
    BY <2>1, SeqEqual
  <2> QED BY <2>2 DEF l, r
<1>2. <<a>> \o <<b>> \o <<c>> \o <<>> = <<a, b, c>>
  <2> DEFINE l == <<a>> \o <<b>> \o <<c>> \o <<>>  r == <<a, b, c>>
  <2>1. /\ l \in Seq(S) /\ r \in Seq(S) /\ Len(l) = 3 /\ Len(r) = 3
        /\ \A i \in 1 .. 3 : l[i] = r[i]
    OBVIOUS
  <2> HIDE DEF l, r
  <2>2. l = r
    BY <2>1, SeqEqual
  <2> QED BY <2>2 DEF l, r
<1>3. <<a>> \o (<<b>> \o <<>>) \o <<c>> = <<a, b, c>>
  <2> DEFINE l == <<a>> \o (<<b>> \o <<>>) \o <<c>>  r == <<a, b, c>>
  <2>1. /\ l \in Seq(S) /\ r \in Seq(S) /\ Len(l) = 3 /\ Len(r) = 3
        /\ \A i \in 1 .. 3 : l[i] = r[i]
    OBVIOUS
  <2> HIDE DEF l, r
  <2>2. l = r
    BY <2>1, SeqEqual
  <2> QED BY <2>2 DEF l, r
<1>4. <<a>> \o (<<b>> \o <<>>) \o <<c>> \o <<>> = <<a, b, c>>
  <2> DEFINE l == <<a>> \o (<<b>> \o <<>>) \o <<c>> \o <<>>  r == <<a, b, c>>
  <2>1. /\ l \in Seq(S) /\ r \in Seq(S) /\ Len(l) = 3 /\ Len(r) = 3
        /\ \A i \in 1 .. 3 : l[i] = r[i]
    OBVIOUS
  <2> HIDE DEF l, r
  <2>2. l = r
    BY <2>1, SeqEqual
  <2> QED BY <2>2 DEF l, r
<1> QED BY <1>1, <1>2, <1>3, <1>4

\* Two events and a reply, or one around it, joined to a log of one.
LEMMA JoinThreeToOne ==
    ASSUME NEW a, NEW b, NEW c, NEW d
    PROVE  /\ <<a>> \o <<b>> \o <<c>> \o <<d>> = <<a, b, c, d>>
           /\ <<a>> \o (<<b>> \o <<c>>) \o <<d>> = <<a, b, c, d>>
           /\ <<a>> \o (<<b>> \o <<c>>) \o <<d>> \o <<>> = <<a, b, c, d>>
<1> DEFINE S == {a, b, c, d}
<1>1. <<a>> \o <<b>> \o <<c>> \o <<d>> = <<a, b, c, d>>
  <2> DEFINE l == <<a>> \o <<b>> \o <<c>> \o <<d>>  r == <<a, b, c, d>>
  <2>1. /\ l \in Seq(S) /\ r \in Seq(S) /\ Len(l) = 4 /\ Len(r) = 4
        /\ \A i \in 1 .. 4 : l[i] = r[i]
    OBVIOUS
  <2> HIDE DEF l, r
  <2>2. l = r
    BY <2>1, SeqEqual
  <2> QED BY <2>2 DEF l, r
<1>2. <<a>> \o (<<b>> \o <<c>>) \o <<d>> = <<a, b, c, d>>
  <2> DEFINE l == <<a>> \o (<<b>> \o <<c>>) \o <<d>>  r == <<a, b, c, d>>
  <2>1. /\ l \in Seq(S) /\ r \in Seq(S) /\ Len(l) = 4 /\ Len(r) = 4
        /\ \A i \in 1 .. 4 : l[i] = r[i]
    OBVIOUS
  <2> HIDE DEF l, r
  <2>2. l = r
    BY <2>1, SeqEqual
  <2> QED BY <2>2 DEF l, r
<1>3. <<a>> \o (<<b>> \o <<c>>) \o <<d>> \o <<>> = <<a, b, c, d>>
  <2> DEFINE l == <<a>> \o (<<b>> \o <<c>>) \o <<d>> \o <<>>  r == <<a, b, c, d>>
  <2>1. /\ l \in Seq(S) /\ r \in Seq(S) /\ Len(l) = 4 /\ Len(r) = 4
        /\ \A i \in 1 .. 4 : l[i] = r[i]
    OBVIOUS
  <2> HIDE DEF l, r
  <2>2. l = r
    BY <2>1, SeqEqual
  <2> QED BY <2>2 DEF l, r
<1> QED BY <1>1, <1>2, <1>3

\* A word joined to a log of three.
LEMMA JoinOneToThree ==
    ASSUME NEW a, NEW b, NEW c, NEW d
    PROVE  /\ <<a, b, c>> \o <<d>> = <<a, b, c, d>>
<1> DEFINE S == {a, b, c, d}
<1>1. <<a, b, c>> \o <<d>> = <<a, b, c, d>>
  <2> DEFINE l == <<a, b, c>> \o <<d>>  r == <<a, b, c, d>>
  <2>1. /\ l \in Seq(S) /\ r \in Seq(S) /\ Len(l) = 4 /\ Len(r) = 4
        /\ \A i \in 1 .. 4 : l[i] = r[i]
    OBVIOUS
  <2> HIDE DEF l, r
  <2>2. l = r
    BY <2>1, SeqEqual
  <2> QED BY <2>2 DEF l, r
<1> QED BY <1>1

\* An event and a reply joined to a log of three.
LEMMA JoinTwoToThree ==
    ASSUME NEW a, NEW b, NEW c, NEW d, NEW e
    PROVE  /\ <<a, b, c>> \o <<d>> \o <<e>> = <<a, b, c, d, e>>
           /\ <<a, b, c>> \o <<d>> \o <<e>> \o <<>> = <<a, b, c, d, e>>
<1> DEFINE S == {a, b, c, d, e}
<1>1. <<a, b, c>> \o <<d>> \o <<e>> = <<a, b, c, d, e>>
  <2> DEFINE l == <<a, b, c>> \o <<d>> \o <<e>>  r == <<a, b, c, d, e>>
  <2>1. /\ l \in Seq(S) /\ r \in Seq(S) /\ Len(l) = 5 /\ Len(r) = 5
        /\ \A i \in 1 .. 5 : l[i] = r[i]
    OBVIOUS
  <2> HIDE DEF l, r
  <2>2. l = r
    BY <2>1, SeqEqual
  <2> QED BY <2>2 DEF l, r
<1>2. <<a, b, c>> \o <<d>> \o <<e>> \o <<>> = <<a, b, c, d, e>>
  <2> DEFINE l == <<a, b, c>> \o <<d>> \o <<e>> \o <<>>  r == <<a, b, c, d, e>>
  <2>1. /\ l \in Seq(S) /\ r \in Seq(S) /\ Len(l) = 5 /\ Len(r) = 5
        /\ \A i \in 1 .. 5 : l[i] = r[i]
    OBVIOUS
  <2> HIDE DEF l, r
  <2>2. l = r
    BY <2>1, SeqEqual
  <2> QED BY <2>2 DEF l, r
<1> QED BY <1>1, <1>2

\* A word joined to a log of five.
LEMMA JoinToFive ==
    ASSUME NEW a, NEW b, NEW c, NEW d, NEW e, NEW f
    PROVE  /\ <<a, b, c, d, e>> \o <<f>> = <<a, b, c, d, e, f>>
           /\ <<a, b, c, d, e>> \o <<>> \o <<f>> = <<a, b, c, d, e, f>>
           /\ <<a, b, c, d, e>> \o <<>> \o <<f>> \o <<>> = <<a, b, c, d, e, f>>
<1> DEFINE S == {a, b, c, d, e, f}
<1>1. <<a, b, c, d, e>> \o <<f>> = <<a, b, c, d, e, f>>
  <2> DEFINE l == <<a, b, c, d, e>> \o <<f>>  r == <<a, b, c, d, e, f>>
  <2>1. /\ l \in Seq(S) /\ r \in Seq(S) /\ Len(l) = 6 /\ Len(r) = 6
        /\ \A i \in 1 .. 6 : l[i] = r[i]
    OBVIOUS
  <2> HIDE DEF l, r
  <2>2. l = r
    BY <2>1, SeqEqual
  <2> QED BY <2>2 DEF l, r
<1>2. <<a, b, c, d, e>> \o <<>> \o <<f>> = <<a, b, c, d, e, f>>
  <2> DEFINE l == <<a, b, c, d, e>> \o <<>> \o <<f>>  r == <<a, b, c, d, e, f>>
  <2>1. /\ l \in Seq(S) /\ r \in Seq(S) /\ Len(l) = 6 /\ Len(r) = 6
        /\ \A i \in 1 .. 6 : l[i] = r[i]
    OBVIOUS
  <2> HIDE DEF l, r
  <2>2. l = r
    BY <2>1, SeqEqual
  <2> QED BY <2>2 DEF l, r
<1>3. <<a, b, c, d, e>> \o <<>> \o <<f>> \o <<>> = <<a, b, c, d, e, f>>
  <2> DEFINE l == <<a, b, c, d, e>> \o <<>> \o <<f>> \o <<>>  r == <<a, b, c, d, e, f>>
  <2>1. /\ l \in Seq(S) /\ r \in Seq(S) /\ Len(l) = 6 /\ Len(r) = 6
        /\ \A i \in 1 .. 6 : l[i] = r[i]
    OBVIOUS
  <2> HIDE DEF l, r
  <2>2. l = r
    BY <2>1, SeqEqual
  <2> QED BY <2>2 DEF l, r
<1> QED BY <1>1, <1>2, <1>3

(***************************************************************************)
(* What has been said by the time a stage is reached                       *)
(***************************************************************************)

Opened == <<"connect">>
Negotiated == <<"connect", "negotiate", "-> userpass">>
Verdict == <<"connect", "negotiate", "-> userpass", "auth", "-> auth ok">>

\* The endings before the name and password have been asked for, while they
\* are awaited, and of an HTTP request, without credentials or with them.
EarlyEndings ==
    { Opened, <<"connect", "timeout">>, <<"connect", "probe">>, <<"connect", "reject">>,
      <<"connect", "negotiate", "-> no method", "reject">>,
      <<"connect", "negotiate", "-> no method">> }
LoginEndings ==
    { Negotiated, <<"connect", "negotiate", "-> userpass", "timeout">>,
      <<"connect", "negotiate", "-> userpass", "error">>,
      <<"connect", "negotiate", "-> userpass", "auth", "-> auth failed">> }
TrustedEndings ==
    { Verdict, <<"connect", "negotiate", "-> userpass", "auth", "-> auth ok", "timeout">>,
      <<"connect", "negotiate", "-> userpass", "auth", "-> auth ok", "-> refused">> }
Challenge == <<"connect", "negotiate", "-> 407">>
HttpVerdicts ==
    { <<"connect", "negotiate", "auth", "-> 407">>,
      <<"connect", "negotiate", "auth", "-> 502/403">> }
HttpEndings == {Challenge} \cup HttpVerdicts

Told ==
    /\ pc \in {"first", "greeting", "methods", "header"} => log = Opened
    /\ pc \in {"authHead", "username", "plen", "password"} => log = Negotiated
    /\ pc \in {"request", "domain", "address"} =>
          log = Verdict /\ config.mode = "accept_then_fail"
    /\ pc = "done" =>
          \/ log \in EarlyEndings \cup LoginEndings \cup HttpVerdicts
          \/ log = Challenge /\ creds = NoCreds
          \/ log \in TrustedEndings /\ config.mode = "accept_then_fail"

\* Nothing is known of a client before its name; the number of its methods has
\* arrived when they are read.
Unnamed ==
    /\ pc \in {"first", "greeting", "methods", "authHead", "username"} => creds = NoCreds
    /\ pc = "methods" => Len(buf) >= 2

\* What may be joined to the first event.
LEMMA OpenedGrows ==
    /\ Opened \o <<"timeout">> = <<"connect", "timeout">>
    /\ Opened \o <<"probe">> = <<"connect", "probe">>
    /\ Opened \o <<"reject">> = <<"connect", "reject">>
    /\ Opened \o <<"negotiate">> \o <<"-> userpass">> = Negotiated
    /\ Opened \o <<"negotiate">> \o <<"-> userpass">> \o <<>> = Negotiated
    /\ Opened \o <<"negotiate">> \o <<"-> no method">>
          = <<"connect", "negotiate", "-> no method">>
    /\ Opened \o <<"negotiate">> \o <<"-> no method">> \o <<"reject">>
          = <<"connect", "negotiate", "-> no method", "reject">>
<1>1. Opened \o <<"timeout">> = <<"connect", "timeout">>
  BY JoinOneToOne, Zenon DEF Opened
<1>2. Opened \o <<"probe">> = <<"connect", "probe">>
  BY JoinOneToOne, Zenon DEF Opened
<1>3. Opened \o <<"reject">> = <<"connect", "reject">>
  BY JoinOneToOne, Zenon DEF Opened
<1>4. Opened \o <<"negotiate">> \o <<"-> userpass">> = Negotiated
  BY JoinTwoToOne, Zenon DEF Opened, Negotiated
<1>5. Opened \o <<"negotiate">> \o <<"-> userpass">> \o <<>> = Negotiated
  BY JoinTwoToOne, Zenon DEF Opened, Negotiated
<1>6. Opened \o <<"negotiate">> \o <<"-> no method">>
          = <<"connect", "negotiate", "-> no method">>
  BY JoinTwoToOne, Zenon DEF Opened
<1>7. Opened \o <<"negotiate">> \o <<"-> no method">> \o <<"reject">>
          = <<"connect", "negotiate", "-> no method", "reject">>
  BY JoinThreeToOne, Zenon DEF Opened
<1> QED BY <1>1, <1>2, <1>3, <1>4, <1>5, <1>6, <1>7

\* What may be joined while a login is awaited.
LEMMA NegotiatedGrows ==
    /\ Negotiated \o <<"timeout">> = <<"connect", "negotiate", "-> userpass", "timeout">>
    /\ Negotiated \o <<"error">> = <<"connect", "negotiate", "-> userpass", "error">>
    /\ Negotiated \o <<"auth">> \o <<"-> auth failed">>
          = <<"connect", "negotiate", "-> userpass", "auth", "-> auth failed">>
    /\ Negotiated \o <<"auth">> \o <<"-> auth failed">> \o <<>>
          = <<"connect", "negotiate", "-> userpass", "auth", "-> auth failed">>
    /\ Negotiated \o <<"auth">> \o <<"-> auth ok">> = Verdict
    /\ Negotiated \o <<"auth">> \o <<"-> auth ok">> \o <<>> = Verdict
<1>1. Negotiated \o <<"timeout">> = <<"connect", "negotiate", "-> userpass", "timeout">>
  BY JoinOneToThree, Zenon DEF Negotiated
<1>2. Negotiated \o <<"error">> = <<"connect", "negotiate", "-> userpass", "error">>
  BY JoinOneToThree, Zenon DEF Negotiated
<1>3. Negotiated \o <<"auth">> \o <<"-> auth failed">>
          = <<"connect", "negotiate", "-> userpass", "auth", "-> auth failed">>
  BY JoinTwoToThree, Zenon DEF Negotiated
<1>4. Negotiated \o <<"auth">> \o <<"-> auth failed">> \o <<>>
          = <<"connect", "negotiate", "-> userpass", "auth", "-> auth failed">>
  BY JoinTwoToThree, Zenon DEF Negotiated
<1>5. Negotiated \o <<"auth">> \o <<"-> auth ok">> = Verdict
  BY JoinTwoToThree, Zenon DEF Negotiated, Verdict
<1>6. Negotiated \o <<"auth">> \o <<"-> auth ok">> \o <<>> = Verdict
  BY JoinTwoToThree, Zenon DEF Negotiated, Verdict
<1> QED BY <1>1, <1>2, <1>3, <1>4, <1>5, <1>6

\* What may be joined to a verdict.
LEMMA VerdictGrows ==
    /\ Verdict \o <<"timeout">>
          = <<"connect", "negotiate", "-> userpass", "auth", "-> auth ok", "timeout">>
    /\ Verdict \o <<>> \o <<"-> refused">>
          = <<"connect", "negotiate", "-> userpass", "auth", "-> auth ok", "-> refused">>
    /\ Verdict \o <<>> \o <<"-> refused">> \o <<>>
          = <<"connect", "negotiate", "-> userpass", "auth", "-> auth ok", "-> refused">>
<1>1. Verdict \o <<"timeout">>
          = <<"connect", "negotiate", "-> userpass", "auth", "-> auth ok", "timeout">>
  BY JoinToFive, Zenon DEF Verdict
<1>2. Verdict \o <<>> \o <<"-> refused">>
          = <<"connect", "negotiate", "-> userpass", "auth", "-> auth ok", "-> refused">>
  BY JoinToFive, Zenon DEF Verdict
<1>3. Verdict \o <<>> \o <<"-> refused">> \o <<>>
          = <<"connect", "negotiate", "-> userpass", "auth", "-> auth ok", "-> refused">>
  BY JoinToFive, Zenon DEF Verdict
<1> QED BY <1>1, <1>2, <1>3

\* Each step says what its stage may say, after what was said before.
LEMMA NextTold == TypeOK /\ Told /\ [Next]_vars => Told'
<1> SUFFICES ASSUME TypeOK, Told, [Next]_vars PROVE Told'
  OBVIOUS
<1>0. pc \in Stages /\ config.mode \in {"always_fail", "accept_then_fail"}
  BY DEF TypeOK, Configs
<1>1. CASE FirstChunk
  <2>1. log = Opened
    BY <1>1 DEF FirstChunk, Told
  <2>2. \/ pc' \in {"greeting", "header"} /\ log' = log
        \/ pc' = "done" /\ log' = log \o <<"probe">>
        \/ pc' = "done" /\ log' = log \o <<"reject">>
    <3>1. PICK n \in 1 .. Len(rest) :
              LET protocol == Detected(SubSeq(rest, 1, n)) IN
              \/ Finish(<<"probe">>)
              \/ Finish(<<"reject">>)
              \/ pc' = (IF protocol = "socks5" THEN "greeting" ELSE "header") /\ UNCHANGED log
      BY <1>1 DEF FirstChunk
    <3> QED BY <3>1 DEF Finish
  <2> QED BY <2>1, <2>2, OpenedGrows DEF Told, EarlyEndings
<1>2. CASE ReadMore
  BY <1>2 DEF ReadMore, Told
<1>3. CASE ReadTimesOut
  <2>1. pc' = "done" /\ log' = log \o <<"timeout">> /\ config' = config /\ pc # "done"
    BY <1>3 DEF ReadTimesOut, Finish, MustRead
  <2>2. CASE log = Opened
    BY <2>1, <2>2, OpenedGrows DEF Told, EarlyEndings
  <2>3. CASE log = Negotiated
    BY <2>1, <2>3, NegotiatedGrows DEF Told, LoginEndings
  <2>4. CASE log = Verdict /\ config.mode = "accept_then_fail"
    BY <2>1, <2>4, VerdictGrows DEF Told, TrustedEndings
  <2> QED BY <1>0, <2>1, <2>2, <2>3, <2>4 DEF Told, Stages
<1>4. CASE ReadEnds
  <2>1. pc' = "done" /\ log' = log /\ config' = config /\ pc # "done"
    BY <1>4 DEF ReadEnds, Finish, MustRead, TypeOK
  <2> QED BY <1>0, <2>1 DEF Told, Stages, EarlyEndings, LoginEndings, TrustedEndings
<1>5. CASE Greeting
  BY <1>5 DEF Greeting, AtStage, Told
<1>6. CASE Methods
  <2>1. /\ log = Opened /\ config' = config
        /\ \/ EmitAndReply(<<"negotiate">>, "-> userpass", <<>>, "authHead")
           \/ EmitAndReply(<<"negotiate">>, "-> no method", <<"reject">>, "done")
    BY <1>6 DEF Methods, AtStage, Told
  <2>2. CASE EmitAndReply(<<"negotiate">>, "-> userpass", <<>>, "authHead")
    <3>1. log' = Negotiated /\ pc' \in {"authHead", "done"}
      BY <2>1, <2>2, OpenedGrows DEF EmitAndReply
    <3> QED BY <3>1 DEF Told, LoginEndings
  <2>3. CASE EmitAndReply(<<"negotiate">>, "-> no method", <<"reject">>, "done")
    <3>1. /\ pc' = "done"
          /\ \/ log' = <<"connect", "negotiate", "-> no method", "reject">>
             \/ log' = <<"connect", "negotiate", "-> no method">>
      BY <2>1, <2>3, OpenedGrows DEF EmitAndReply
    <3> QED BY <3>1 DEF Told, EarlyEndings
  <2> QED BY <2>1, <2>2, <2>3
<1>7. CASE BadAuthVersion
  <2>1. log = Negotiated /\ pc' = "done" /\ log' = log \o <<"error">>
    BY <1>7 DEF BadAuthVersion, AtStage, Finish, Told
  <2> QED BY <2>1, NegotiatedGrows DEF Told, LoginEndings
<1>8. CASE AuthHead
  BY <1>8 DEF AuthHead, AtStage, Consume, Told
<1>9. CASE Username
  BY <1>9 DEF Username, AtStage, Consume, Told
<1>10. CASE PasswordLength
  BY <1>10 DEF PasswordLength, AtStage, Consume, Told
<1>11. CASE Password
  <2>1. log = Negotiated /\ config' = config /\ AuthReply
    BY <1>11 DEF Password, AtStage, Told
  <2>2. CASE config.mode = "always_fail"
    <3>1. /\ pc' = "done"
          /\ log' = <<"connect", "negotiate", "-> userpass", "auth", "-> auth failed">>
      BY <2>1, <2>2, NegotiatedGrows DEF AuthReply, EmitAndReply
    <3> QED BY <3>1 DEF Told, LoginEndings
  <2>3. CASE config.mode = "accept_then_fail"
    <3>1. /\ pc' \in {"request", "done"} /\ config'.mode = "accept_then_fail"
          /\ log' = Verdict
      BY <2>1, <2>3, NegotiatedGrows DEF AuthReply, EmitAndReply
    <3> QED BY <3>1 DEF Told, TrustedEndings
  <2> QED BY <1>0, <2>2, <2>3
<1>12. CASE Request
  <2>1. log' = log /\ config' = config /\ pc' \in {"address", "domain", "done"}
    BY <1>12 DEF Request, Consume
  <2> QED BY <1>12, <2>1 DEF Request, AtStage, Told, TrustedEndings
<1>13. CASE DomainLength
  BY <1>13 DEF DomainLength, AtStage, Consume, Told
<1>14. CASE Address
  <2>1. /\ log = Verdict
        /\ config' = config /\ config.mode = "accept_then_fail"
        /\ EmitAndReply(<<>>, "-> refused", <<>>, "done")
    BY <1>14 DEF Address, AtStage, Told
  <2>2. /\ pc' = "done"
        /\ log' = <<"connect", "negotiate", "-> userpass", "auth", "-> auth ok", "-> refused">>
    BY <2>1, VerdictGrows DEF EmitAndReply
  <2> QED BY <2>1, <2>2 DEF Told, TrustedEndings
<1>15. CASE HttpRequest \/ HttpTruncated
  <2>1. log = Opened /\ Answer(buf)
    BY <1>15 DEF HttpRequest, HttpTruncated, Told
  <2> DEFINE auth == ProxyAuth(HeaderBlock(buf))
             reply == IF config.mode = "always_fail" \/ auth = NoCreds
                        THEN "-> 407" ELSE "-> 502/403"
  <2>2. CASE auth = NoCreds
    <3>1. EmitAndReply(<<"negotiate">> \o <<>>, "-> 407", <<>>, "done")
      BY <2>1, <2>2 DEF Answer
    <3>2. pc' = "done" /\ log' = Challenge
      BY <2>1, <3>1, JoinTwoToOne DEF EmitAndReply, Opened, Challenge
    <3>3. creds' = NoCreds
      BY <2>1, <2>2 DEF Answer
    <3> QED BY <3>2, <3>3 DEF Told
  <2>3. CASE auth # NoCreds
    <3>1. EmitAndReply(<<"negotiate">> \o <<"auth">>, reply, <<>>, "done")
      BY <2>1, <2>3 DEF Answer
    <3>2. reply \in {"-> 407", "-> 502/403"}
      OBVIOUS
    <3> HIDE DEF auth, reply
    <3>3. pc' = "done" /\ log' = <<"connect", "negotiate", "auth", reply>>
      BY <2>1, <3>1, JoinThreeToOne DEF EmitAndReply, Opened
    <3> QED BY <3>2, <3>3 DEF Told, HttpVerdicts
  <2> QED BY <2>2, <2>3
<1>16. CASE UNCHANGED vars
  BY <1>16 DEF vars, Told
<1> QED BY <1>1, <1>2, <1>3, <1>4, <1>5, <1>6, <1>7, <1>8, <1>9, <1>10, <1>11, <1>12,
           <1>13, <1>14, <1>15, <1>16 DEF Next, Socks5

(***************************************************************************)
(* Type correctness                                                        *)
(***************************************************************************)

\* The credentials in any stage, and those of an HTTP request.
Credentials ==
         [kind : {"none"}, user : Seq(Nat), password : {<<>>}]
    \cup [kind : {"userpass"}, user : Seq(Nat), password : Seq(Nat)]
    \cup [kind : {"basic", "truncated", "other"}, user : {<<>>}, password : {<<>>}]

\* A piece cut from a sequence of tokens is one.
LEMMA CutTyped ==
    ASSUME NEW s \in Seq(Nat), NEW m \in Nat \ {0}, NEW n \in Nat, n <= Len(s)
    PROVE  SubSeq(s, m, n) \in Seq(Nat)
BY SubSeqProperties

\* The logs of all stages are made of the words a session may say.
LEMMA LogsAreTyped ==
    /\ Opened \in Seq(Entries) /\ Negotiated \in Seq(Entries) /\ Verdict \in Seq(Entries)
    /\ EarlyEndings \cup LoginEndings \cup TrustedEndings \cup HttpEndings \subseteq Seq(Entries)
<1>1. Opened \in Seq(Entries) /\ Negotiated \in Seq(Entries) /\ Verdict \in Seq(Entries)
  BY DEF Opened, Negotiated, Verdict, Entries
<1>2. EarlyEndings \subseteq Seq(Entries)
  <2>1. <<"connect", "timeout">> \in Seq(Entries)
    BY DEF Entries
  <2>2. <<"connect", "probe">> \in Seq(Entries)
    BY DEF Entries
  <2>3. <<"connect", "reject">> \in Seq(Entries)
    BY DEF Entries
  <2>4. <<"connect", "negotiate", "-> no method", "reject">> \in Seq(Entries)
    BY DEF Entries
  <2>5. <<"connect", "negotiate", "-> no method">> \in Seq(Entries)
    BY DEF Entries
  <2> QED BY <1>1, <2>1, <2>2, <2>3, <2>4, <2>5, Zenon DEF EarlyEndings
<1>3. LoginEndings \subseteq Seq(Entries)
  <2>1. <<"connect", "negotiate", "-> userpass", "timeout">> \in Seq(Entries)
    BY DEF Entries
  <2>2. <<"connect", "negotiate", "-> userpass", "error">> \in Seq(Entries)
    BY DEF Entries
  <2>3. <<"connect", "negotiate", "-> userpass", "auth", "-> auth failed">> \in Seq(Entries)
    BY DEF Entries
  <2> QED BY <1>1, <2>1, <2>2, <2>3, Zenon DEF LoginEndings
<1>4. TrustedEndings \subseteq Seq(Entries)
  <2>1. <<"connect", "negotiate", "-> userpass", "auth", "-> auth ok", "timeout">> \in Seq(Entries)
    BY DEF Entries
  <2>2. <<"connect", "negotiate", "-> userpass", "auth", "-> auth ok", "-> refused">> \in Seq(Entries)
    BY DEF Entries
  <2> QED BY <1>1, <2>1, <2>2, Zenon DEF TrustedEndings
<1>5. HttpEndings \subseteq Seq(Entries)
  <2>1. Challenge \in Seq(Entries)
    BY DEF Challenge, Entries
  <2>2. <<"connect", "negotiate", "auth", "-> 407">> \in Seq(Entries)
    BY DEF Entries
  <2>3. <<"connect", "negotiate", "auth", "-> 502/403">> \in Seq(Entries)
    BY DEF Entries
  <2> QED BY <1>1, <2>1, <2>2, <2>3, Zenon DEF HttpEndings, HttpVerdicts
<1> QED BY <1>1, <1>2, <1>3, <1>4, <1>5

\* An answer leads to the stage it names or ends the session.
LEMMA ReplyIsTyped ==
    ASSUME NEW events, NEW reply, NEW after, NEW stage,
           EmitAndReply(events, reply, after, stage)
    PROVE  cut' \in BOOLEAN /\ pc' \in {stage, "done"}
BY DEF EmitAndReply, MustRead, HeaderComplete, Contains

\* An HTTP header gives one of four kinds.
LEMMA AuthIsTyped == \A data : ProxyAuth(data) \in Credentials
BY DEF ProxyAuth, NoCreds, HttpCreds, Credentials

\* The state keeps its type whatever step is taken.
LEMMA NextTypeOK == TypeOK /\ Told /\ Unnamed /\ [Next]_vars => TypeOK' /\ Unnamed'
<1> SUFFICES ASSUME TypeOK, Told, Unnamed, [Next]_vars PROVE TypeOK' /\ Unnamed'
  OBVIOUS
<1>0. /\ config \in Configs /\ stream \in Streams /\ rest \in Seq(Nat) /\ buf \in Seq(Nat)
      /\ pc \in Stages /\ need \in Nat /\ creds \in Credentials /\ cut \in BOOLEAN
      /\ Len(buf) \in Nat /\ Len(rest) \in Nat
  BY DEF TypeOK, Credentials
<1> DEFINE Typed == /\ config' \in Configs /\ stream' \in Streams /\ rest' \in Seq(Nat)
                    /\ buf' \in Seq(Nat) /\ pc' \in Stages /\ need' \in Nat
                    /\ creds' \in Credentials /\ cut' \in BOOLEAN
<1>1. Typed => TypeOK'
  <2>1. Told'
    BY NextTold
  <2>2. pc' \in Stages => log' \in Seq(Entries)
    BY <2>1, LogsAreTyped DEF Told, Stages, HttpEndings
  <2> QED BY <2>2 DEF TypeOK, Credentials
<1> SUFFICES Typed /\ Unnamed'
  BY <1>1
<1>2. ASSUME NEW n \in 0 .. Len(buf)
      PROVE  SubSeq(buf, n + 1, Len(buf)) \in Seq(Nat) /\ SubSeq(buf, 1, n) \in Seq(Nat)
  BY <1>0, CutTyped
<1>3. ASSUME NEW n \in 1 .. Len(rest)
      PROVE  SubSeq(rest, n + 1, Len(rest)) \in Seq(Nat) /\ SubSeq(rest, 1, n) \in Seq(Nat)
  BY <1>0, CutTyped
<1>5. CASE FirstChunk
  <2>1. PICK n \in 1 .. Len(rest) :
            /\ buf' = SubSeq(rest, 1, n) /\ rest' = SubSeq(rest, n + 1, Len(rest))
            /\ pc' \in {"done", "greeting", "header"}
    BY <1>5 DEF FirstChunk, Finish
  <2>2. UNCHANGED <<config, stream, need, creds, cut>> /\ creds = NoCreds
    BY <1>5 DEF FirstChunk, Unnamed
  <2> QED BY <1>0, <1>3, <2>1, <2>2 DEF Stages, Unnamed
<1>6. CASE ReadMore
  <2>1. PICK n \in 1 .. Len(rest) :
            buf' = buf \o SubSeq(rest, 1, n) /\ rest' = SubSeq(rest, n + 1, Len(rest))
    BY <1>6 DEF ReadMore
  <2>2. UNCHANGED <<config, stream, pc, need, creds, cut>>
    BY <1>6 DEF ReadMore
  <2>3. Len(buf') >= Len(buf) /\ buf' \in Seq(Nat)
    BY <1>0, <1>3, <2>1
  <2> QED BY <1>0, <1>3, <2>1, <2>2, <2>3 DEF Unnamed
<1>7. CASE ReadTimesOut \/ ReadEnds
  BY <1>0, <1>7 DEF ReadTimesOut, ReadEnds, Finish, Stages, Unnamed
<1>8. CASE Greeting
  BY <1>0, <1>8 DEF Greeting, AtStage, Wanted, Stages, Unnamed
<1>9. CASE Methods
  <2>1. pc = "methods" /\ Len(buf) >= Wanted /\ Wanted = 2 + buf[2] /\ Len(buf) >= 2
    BY <1>9 DEF Methods, AtStage, Wanted, Unnamed
  <2>2. /\ buf' = SubSeq(buf, Wanted + 1, Len(buf)) /\ UNCHANGED <<config, stream, rest, need, creds>>
        /\ cut' \in BOOLEAN /\ pc' \in {"authHead", "done"}
    BY <1>9, ReplyIsTyped DEF Methods
  <2>3. Wanted \in 0 .. Len(buf)
    BY <1>0, <2>1
  <2>4. buf' \in Seq(Nat)
    BY <1>2, <2>2, <2>3
  <2> QED BY <1>0, <2>1, <2>2, <2>4 DEF Stages, Unnamed
<1>10. CASE BadAuthVersion
  <2>1. buf' = SubSeq(buf, 2 + 1, Len(buf)) /\ Len(buf) >= 2
    BY <1>10 DEF BadAuthVersion, AtStage, Wanted
  <2> QED BY <1>0, <1>2, <1>10, <2>1 DEF BadAuthVersion, Finish, Stages, Unnamed
<1>11. CASE AuthHead
  <2>1. /\ buf' = SubSeq(buf, 2 + 1, Len(buf)) /\ Len(buf) >= 2 /\ pc = "authHead"
        /\ need' = buf[2]
    BY <1>11 DEF AuthHead, AtStage, Wanted, Consume
  <2>2. need' \in Nat
    BY <1>0, <2>1
  <2> QED BY <1>0, <1>2, <1>11, <2>1, <2>2 DEF AuthHead, Consume, Stages, Unnamed
<1>12. CASE Username
  <2>1. /\ buf' = SubSeq(buf, need + 1, Len(buf)) /\ Len(buf) >= need /\ pc = "username"
        /\ creds' = [creds EXCEPT !.user = SubSeq(buf, 1, need)]
        /\ pc' = "plen" /\ UNCHANGED <<config, stream, rest, need, cut>>
    BY <1>12 DEF Username, AtStage, Wanted, Consume
  <2>2. creds = NoCreds
    BY <2>1 DEF Unnamed
  <2>3. SubSeq(buf, 1, need) \in Seq(Nat) /\ buf' \in Seq(Nat)
    BY <1>0, <1>2, <2>1
  <2>4. creds' \in Credentials
    BY <2>1, <2>2, <2>3 DEF NoCreds, Credentials
  <2> QED BY <1>0, <2>1, <2>3, <2>4 DEF Stages, Unnamed
<1>13. CASE PasswordLength
  <2>1. /\ buf' = SubSeq(buf, 1 + 1, Len(buf)) /\ Len(buf) >= 1 /\ need' = buf[1]
        /\ pc' = "password" /\ UNCHANGED <<config, stream, rest, creds, cut>>
    BY <1>13 DEF PasswordLength, AtStage, Wanted, Consume
  <2>2. need' \in Nat
    BY <1>0, <2>1
  <2> QED BY <1>0, <1>2, <2>1, <2>2 DEF Stages, Unnamed
<1>14. CASE Password
  <2>1. /\ buf' = SubSeq(buf, need + 1, Len(buf)) /\ Len(buf) >= need
        /\ creds' = SocksCreds(creds.user, SubSeq(buf, 1, need))
        /\ UNCHANGED <<config, stream, rest, need>>
    BY <1>14 DEF Password, AtStage, Wanted
  <2>2. cut' \in BOOLEAN /\ pc' \in {"request", "done"}
    BY <1>14, ReplyIsTyped DEF Password, AuthReply
  <2>3. SubSeq(buf, 1, need) \in Seq(Nat) /\ buf' \in Seq(Nat)
    BY <1>0, <1>2, <2>1
  <2>4. creds.user \in Seq(Nat)
    BY <1>0, EmptySeq DEF Credentials
  <2>5. creds' \in Credentials
    BY <2>1, <2>3, <2>4 DEF SocksCreds, Credentials
  <2> QED BY <1>0, <2>1, <2>2, <2>3, <2>5 DEF Stages, Unnamed
<1>15. CASE Request
  <2>1. /\ buf' = SubSeq(buf, 4 + 1, Len(buf)) /\ Len(buf) >= 4 /\ need' \in {6, 18, 0}
        /\ pc' \in {"address", "domain", "done"}
        /\ UNCHANGED <<config, stream, rest, creds, cut>>
    BY <1>15 DEF Request, AtStage, Wanted, Consume
  <2> QED BY <1>0, <1>2, <2>1 DEF Stages, Unnamed
<1>16. CASE DomainLength
  <2>1. /\ buf' = SubSeq(buf, 1 + 1, Len(buf)) /\ Len(buf) >= 1 /\ need' = buf[1] + 2
        /\ pc' = "address" /\ UNCHANGED <<config, stream, rest, creds, cut>>
    BY <1>16 DEF DomainLength, AtStage, Wanted, Consume
  <2>2. need' \in Nat
    BY <1>0, <2>1
  <2> QED BY <1>0, <1>2, <2>1, <2>2 DEF Stages, Unnamed
<1>17. CASE Address
  <2>1. /\ buf' = SubSeq(buf, need + 1, Len(buf)) /\ Len(buf) >= need
        /\ UNCHANGED <<config, stream, rest, need, creds>>
        /\ cut' \in BOOLEAN /\ pc' = "done"
    BY <1>17, ReplyIsTyped DEF Address, AtStage, Wanted
  <2> QED BY <1>0, <1>2, <2>1 DEF Stages, Unnamed
<1>18. CASE HttpRequest \/ HttpTruncated
  <2>1. Answer(buf)
    BY <1>18 DEF HttpRequest, HttpTruncated
  <2>2. /\ creds' \in Credentials /\ cut' \in BOOLEAN /\ pc' = "done"
        /\ UNCHANGED <<config, stream, rest, buf, need>>
    BY <2>1, AuthIsTyped, ReplyIsTyped DEF Answer
  <2> QED BY <1>0, <2>2 DEF Stages, Unnamed
<1>19. CASE UNCHANGED vars
  BY <1>0, <1>19 DEF vars, Unnamed
<1> QED BY <1>5, <1>6, <1>7, <1>8, <1>9, <1>10, <1>11, <1>12, <1>13, <1>14, <1>15, <1>16,
           <1>17, <1>18, <1>19 DEF Next, Socks5

(***************************************************************************)
(* The properties of a log                                                 *)
(***************************************************************************)

\* What may stand in which place of a log.
Form(l) ==
    /\ Len(l) \in 1 .. 6 /\ DOMAIN l = 1 .. Len(l)
    /\ l[1] = "connect"
    /\ Len(l) >= 2 => \/ l[2] = "negotiate"
                      \/ l[2] \in {"timeout", "probe", "reject"} /\ Len(l) = 2
    /\ Len(l) >= 3 => \/ l[3] \in {"-> userpass", "-> no method"}
                      \/ l[3] = "-> 407" /\ Len(l) = 3
                      \/ l[3] = "auth" /\ Len(l) = 4 /\ l[4] \in {"-> 407", "-> 502/403"}
    /\ Len(l) >= 4 => \/ l[4] = "auth" /\ l[3] = "-> userpass"
                      \/ l[4] \in {"timeout", "error", "reject"} /\ Len(l) = 4
                      \/ l[4] \in {"-> 407", "-> 502/403"} /\ Len(l) = 4 /\ l[3] = "auth"
    /\ Len(l) >= 5 => \/ l[5] = "-> auth ok" /\ l[4] = "auth"
                      \/ l[5] = "-> auth failed" /\ l[4] = "auth" /\ Len(l) = 5
    /\ Len(l) = 6 => l[6] \in {"timeout", "-> refused"}

\* Every log has this form.
LEMMA LogsHaveForm ==
    /\ Form(Opened) /\ Form(Negotiated) /\ Form(Verdict)
    /\ \A l \in EarlyEndings \cup LoginEndings \cup TrustedEndings \cup HttpEndings : Form(l)
<1>1. Form(Opened)
  BY DEF Opened, Form
<1>2. Form(Negotiated)
  BY DEF Negotiated, Form
<1>3. Form(Verdict)
  BY DEF Verdict, Form
<1>4. \A l \in EarlyEndings : Form(l)
  <2>1. Form(<<"connect", "timeout">>)
    BY DEF Form
  <2>2. Form(<<"connect", "probe">>)
    BY DEF Form
  <2>3. Form(<<"connect", "reject">>)
    BY DEF Form
  <2>4. Form(<<"connect", "negotiate", "-> no method", "reject">>)
    BY DEF Form
  <2>5. Form(<<"connect", "negotiate", "-> no method">>)
    BY DEF Form
  <2> QED BY <1>1, <1>2, <1>3, <2>1, <2>2, <2>3, <2>4, <2>5, Zenon DEF EarlyEndings
<1>5. \A l \in LoginEndings : Form(l)
  <2>1. Form(<<"connect", "negotiate", "-> userpass", "timeout">>)
    BY DEF Form
  <2>2. Form(<<"connect", "negotiate", "-> userpass", "error">>)
    BY DEF Form
  <2>3. Form(<<"connect", "negotiate", "-> userpass", "auth", "-> auth failed">>)
    BY DEF Form
  <2> QED BY <1>1, <1>2, <1>3, <2>1, <2>2, <2>3, Zenon DEF LoginEndings
<1>6. \A l \in TrustedEndings : Form(l)
  <2>1. Form(<<"connect", "negotiate", "-> userpass", "auth", "-> auth ok", "timeout">>)
    BY DEF Form
  <2>2. Form(<<"connect", "negotiate", "-> userpass", "auth", "-> auth ok", "-> refused">>)
    BY DEF Form
  <2> QED BY <1>1, <1>2, <1>3, <2>1, <2>2, Zenon DEF TrustedEndings
<1>7. \A l \in HttpEndings : Form(l)
  <2>1. Form(Challenge)
    BY DEF Challenge, Form
  <2>2. Form(<<"connect", "negotiate", "auth", "-> 407">>)
    BY DEF Form
  <2>3. Form(<<"connect", "negotiate", "auth", "-> 502/403">>)
    BY DEF Form
  <2> QED BY <1>1, <1>2, <1>3, <2>1, <2>2, <2>3, Zenon DEF HttpEndings, HttpVerdicts
<1> QED BY <1>1, <1>2, <1>3, <1>4, <1>5, <1>6, <1>7

\* A 407 in the third place is the challenge's.
Unchallenged(l) == Len(l) < 3 \/ l[3] # "-> 407"

\* In a log of this form every verdict has its record, success is followed by
\* a refusal, a timeout or nothing, and what ends a session is said last.
LEMMA FormIsSound ==
    ASSUME NEW l, Form(l)
    PROVE  /\ \A i \in DOMAIN l : l[i] \in {"-> auth failed", "-> auth ok", "-> 502/403"} =>
                  \E j \in 1 .. i - 1 : l[j] = "auth"
           /\ \A i \in DOMAIN l : l[i] = "-> 407" =>
                  ~Unchallenged(l) \/ \E j \in 1 .. i - 1 : l[j] = "auth"
           /\ \A i \in DOMAIN l : l[i] = "-> auth ok" =>
                  /\ i = 5
                  /\ i = Len(l) \/ (i + 1 = Len(l) /\ l[i + 1] \in {"-> refused", "timeout"})
           /\ \A i, j \in DOMAIN l : i < j =>
                  /\ l[i] \notin {"timeout", "probe", "reject", "error"}
                  /\ ~(l[i] = "auth" /\ l[j] = "auth")
<1>0. Len(l) \in 1 .. 6 /\ DOMAIN l = 1 .. Len(l)
  BY DEF Form
<1>1. \A i \in DOMAIN l : i = 1 \/ i = 2 \/ i = 3 \/ i = 4 \/ i = 5 \/ i = 6
  <2>1. \A n \in 1 .. 6 : \A i \in 1 .. n : i = 1 \/ i = 2 \/ i = 3 \/ i = 4 \/ i = 5 \/ i = 6
    OBVIOUS
  <2> QED BY <1>0, <2>1
<1>2. ASSUME NEW i \in DOMAIN l PROVE i \in Nat /\ Len(l) \in Nat /\ i <= Len(l) /\ Len(l) <= 6
  BY <1>0
<1>3. /\ l[1] = "connect"
      /\ 2 \in DOMAIN l => l[2] = "negotiate" \/ l[2] \in {"timeout", "probe", "reject"}
      /\ 3 \in DOMAIN l => l[2] = "negotiate"
      /\ 3 \in DOMAIN l => l[3] \in {"-> userpass", "-> no method", "-> 407", "auth"}
      /\ 4 \in DOMAIN l => l[3] \in {"-> userpass", "-> no method", "auth"}
      /\ 4 \in DOMAIN l => \/ l[4] = "auth" /\ l[3] = "-> userpass"
                           \/ l[4] \in {"timeout", "error", "reject"}
                           \/ l[4] \in {"-> 407", "-> 502/403"} /\ l[3] = "auth"
      /\ 5 \in DOMAIN l => l[4] = "auth" /\ l[3] = "-> userpass"
      /\ 5 \in DOMAIN l => l[5] \in {"-> auth ok", "-> auth failed"}
      /\ 6 \in DOMAIN l => l[5] = "-> auth ok" /\ Len(l) = 6 
      /\ 6 \in DOMAIN l => l[6] \in {"timeout", "-> refused"}
  <2>1. \A n \in 1 .. 6 : /\ 2 \in 1 .. n => n >= 2
                          /\ 3 \in 1 .. n => n >= 3 /\ n >= 2 /\ n # 2
                          /\ 4 \in 1 .. n => n >= 4 /\ n >= 3 /\ n # 3
                          /\ 5 \in 1 .. n => n >= 5 /\ n >= 4 /\ n >= 3 /\ n # 4 /\ n # 3
                          /\ 6 \in 1 .. n => n = 6 /\ n >= 5 /\ n # 5
    OBVIOUS
  <2>2. /\ 2 \in DOMAIN l => Len(l) >= 2
        /\ 3 \in DOMAIN l => Len(l) >= 3 /\ Len(l) >= 2 /\ Len(l) # 2
        /\ 4 \in DOMAIN l => Len(l) >= 4 /\ Len(l) >= 3 /\ Len(l) # 3
        /\ 5 \in DOMAIN l => Len(l) >= 5 /\ Len(l) >= 4 /\ Len(l) >= 3 /\ Len(l) # 4 /\ Len(l) # 3
        /\ 6 \in DOMAIN l => Len(l) = 6 /\ Len(l) >= 5 /\ Len(l) # 5
    BY <1>0, <2>1
  <2> QED BY <2>2 DEF Form
<1>4. ASSUME NEW i \in DOMAIN l, l[i] \in {"-> auth failed", "-> auth ok", "-> 502/403"}
      PROVE  \E j \in 1 .. i - 1 : l[j] = "auth"
  <2>1. (i = 4 /\ l[3] = "auth") \/ (i = 5 /\ l[4] = "auth")
    BY <1>1, <1>3, <1>4
  <2>2. 3 \in 1 .. 4 - 1 /\ 4 \in 1 .. 5 - 1
    OBVIOUS
  <2> QED BY <2>1, <2>2, Zenon
<1>5. ASSUME NEW i \in DOMAIN l, l[i] = "-> auth ok"
      PROVE  /\ i = 5
             /\ i = Len(l) \/ (i + 1 = Len(l) /\ l[i + 1] \in {"-> refused", "timeout"})
  <2>1. i = 5
    BY <1>1, <1>3, <1>5
  <2>2. 5 + 1 = 6 /\ (Len(l) = 5 \/ (6 \in DOMAIN l /\ Len(l) = 6))
    BY <1>0, <2>1
  <2> QED BY <1>3, <2>1, <2>2
<1>6. ASSUME NEW i \in DOMAIN l, NEW j \in DOMAIN l, i < j
      PROVE  /\ l[i] \notin {"timeout", "probe", "reject", "error"}
             /\ ~(l[i] = "auth" /\ l[j] = "auth")
  <2>1. i + 1 \in DOMAIN l /\ i # j
    BY <1>0, <1>6
  <2>2. /\ i = 1 => 2 \in DOMAIN l
        /\ i = 2 => 3 \in DOMAIN l
        /\ i = 3 => 4 \in DOMAIN l
        /\ i = 4 => 5 \in DOMAIN l
        /\ i = 5 => 6 \in DOMAIN l
        /\ i # 6
    BY <1>0, <2>1
  <2>3. l[i] \notin {"timeout", "probe", "reject", "error"}
    BY <1>1, <1>3, <2>2
  <2>4. l[i] = "auth" => (i = 3 /\ l[3] = "auth") \/ (i = 4 /\ l[3] = "-> userpass")
    BY <1>1, <1>3
  <2>5. l[j] = "auth" => (j = 3 /\ l[3] = "auth") \/ (j = 4 /\ l[3] = "-> userpass")
    BY <1>1, <1>3
  <2>6. ~(l[i] = "auth" /\ l[j] = "auth")
    BY <2>1, <2>4, <2>5
  <2> QED BY <2>3, <2>6
<1>7. ASSUME NEW i \in DOMAIN l, l[i] = "-> 407"
      PROVE  ~Unchallenged(l) \/ \E j \in 1 .. i - 1 : l[j] = "auth"
  <2>1. (i = 3 /\ l[3] = "-> 407") \/ (i = 4 /\ l[3] = "auth")
    BY <1>1, <1>3, <1>7
  <2>2. 3 \in 1 .. 4 - 1
    OBVIOUS
  <2>3. i = 3 => ~(Len(l) < 3)
    BY <1>0
  <2> QED BY <2>1, <2>2, <2>3 DEF Unchallenged
<1> QED BY <1>4, <1>5, <1>6, <1>7

\* Success can only be the fifth word.
Unsuccessful(l) == Len(l) < 5 \/ l[5] = "-> auth failed"

\* Where no verdict was given, or a failure, it is not.
LEMMA OnlyTrustedSucceed ==
    \A l \in {Opened, Negotiated} \cup EarlyEndings \cup LoginEndings \cup HttpEndings :
        Unsuccessful(l)
<1>1. Unsuccessful(Opened) /\ Unsuccessful(Negotiated)
  BY DEF Opened, Negotiated, Unsuccessful
<1>2. \A l \in EarlyEndings : Unsuccessful(l)
  <2>1. Unsuccessful(<<"connect", "timeout">>)
    BY DEF Unsuccessful
  <2>2. Unsuccessful(<<"connect", "probe">>)
    BY DEF Unsuccessful
  <2>3. Unsuccessful(<<"connect", "reject">>)
    BY DEF Unsuccessful
  <2>4. Unsuccessful(<<"connect", "negotiate", "-> no method", "reject">>)
    BY DEF Unsuccessful
  <2>5. Unsuccessful(<<"connect", "negotiate", "-> no method">>)
    BY DEF Unsuccessful
  <2> QED BY <1>1, <2>1, <2>2, <2>3, <2>4, <2>5, Zenon DEF EarlyEndings
<1>3. \A l \in LoginEndings : Unsuccessful(l)
  <2>1. Unsuccessful(<<"connect", "negotiate", "-> userpass", "timeout">>)
    BY DEF Unsuccessful
  <2>2. Unsuccessful(<<"connect", "negotiate", "-> userpass", "error">>)
    BY DEF Unsuccessful
  <2>3. Unsuccessful(<<"connect", "negotiate", "-> userpass", "auth", "-> auth failed">>)
    BY DEF Unsuccessful
  <2> QED BY <1>1, <2>1, <2>2, <2>3, Zenon DEF LoginEndings
<1>4. \A l \in HttpEndings : Unsuccessful(l)
  <2>1. Unsuccessful(Challenge)
    BY DEF Challenge, Unsuccessful
  <2>2. Unsuccessful(<<"connect", "negotiate", "auth", "-> 407">>)
    BY DEF Unsuccessful
  <2>3. Unsuccessful(<<"connect", "negotiate", "auth", "-> 502/403">>)
    BY DEF Unsuccessful
  <2> QED BY <1>1, <2>1, <2>2, <2>3, Zenon DEF HttpEndings, HttpVerdicts
<1> QED BY <1>1, <1>2, <1>3, <1>4

\* Every log but the challenge has none there.
LEMMA OnlyChallengeAsks ==
    \A l \in {Opened, Negotiated, Verdict}
              \cup EarlyEndings \cup LoginEndings \cup TrustedEndings \cup HttpVerdicts :
        Unchallenged(l)
<1>1. Unchallenged(Opened) /\ Unchallenged(Negotiated) /\ Unchallenged(Verdict)
  BY DEF Opened, Negotiated, Verdict, Unchallenged
<1>2. \A l \in EarlyEndings : Unchallenged(l)
  <2>1. Unchallenged(<<"connect", "timeout">>)
    BY DEF Unchallenged
  <2>2. Unchallenged(<<"connect", "probe">>)
    BY DEF Unchallenged
  <2>3. Unchallenged(<<"connect", "reject">>)
    BY DEF Unchallenged
  <2>4. Unchallenged(<<"connect", "negotiate", "-> no method", "reject">>)
    BY DEF Unchallenged
  <2>5. Unchallenged(<<"connect", "negotiate", "-> no method">>)
    BY DEF Unchallenged
  <2> QED BY <1>1, <2>1, <2>2, <2>3, <2>4, <2>5, Zenon DEF EarlyEndings
<1>3. \A l \in LoginEndings : Unchallenged(l)
  <2>1. Unchallenged(<<"connect", "negotiate", "-> userpass", "timeout">>)
    BY DEF Unchallenged
  <2>2. Unchallenged(<<"connect", "negotiate", "-> userpass", "error">>)
    BY DEF Unchallenged
  <2>3. Unchallenged(<<"connect", "negotiate", "-> userpass", "auth", "-> auth failed">>)
    BY DEF Unchallenged
  <2> QED BY <1>1, <2>1, <2>2, <2>3, Zenon DEF LoginEndings
<1>4. \A l \in TrustedEndings : Unchallenged(l)
  <2>1. Unchallenged(<<"connect", "negotiate", "-> userpass", "auth", "-> auth ok", "timeout">>)
    BY DEF Unchallenged
  <2>2. Unchallenged(<<"connect", "negotiate", "-> userpass", "auth", "-> auth ok", "-> refused">>)
    BY DEF Unchallenged
  <2> QED BY <1>1, <2>1, <2>2, Zenon DEF TrustedEndings
<1>5. \A l \in HttpVerdicts : Unchallenged(l)
  <2>1. Unchallenged(<<"connect", "negotiate", "auth", "-> 407">>)
    BY DEF Unchallenged
  <2>2. Unchallenged(<<"connect", "negotiate", "auth", "-> 502/403">>)
    BY DEF Unchallenged
  <2> QED BY <2>1, <2>2, Zenon DEF HttpVerdicts
<1> QED BY <1>1, <1>2, <1>3, <1>4, <1>5

\* Every log a session can show has a stage's or an ending's words.
LEMMA ToldLogs ==
    ASSUME TypeOK, Told
    PROVE  log \in {Opened, Negotiated, Verdict}
                    \cup EarlyEndings \cup LoginEndings \cup TrustedEndings \cup HttpEndings
BY DEF TypeOK, Told, Stages, HttpEndings

\* What holds of every log holds of the session's.
LEMMA LogIsSound ==
    ASSUME TypeOK, Told
    PROVE  RecordedBeforeVerdict /\ NeverOpen /\ OneEnding
<1>1. Form(log)
  BY ToldLogs, LogsHaveForm
<1>2. RecordedBeforeVerdict
  <2>1. creds # NoCreds => Unchallenged(log)
    <3>1. creds # NoCreds =>
              log \in {Opened, Negotiated, Verdict}
                       \cup EarlyEndings \cup LoginEndings \cup TrustedEndings \cup HttpVerdicts
      BY DEF TypeOK, Told, Stages
    <3> QED BY <3>1, OnlyChallengeAsks
  <2> QED BY <1>1, <2>1, FormIsSound DEF RecordedBeforeVerdict
<1>3. OneEnding
  BY <1>1, FormIsSound DEF OneEnding
<1>4. (\E i \in DOMAIN log : log[i] = "-> auth ok") => config.mode = "accept_then_fail"
  <2>1. ASSUME NEW i \in DOMAIN log, log[i] = "-> auth ok"
        PROVE  log \notin {Opened, Negotiated} \cup EarlyEndings \cup LoginEndings \cup HttpEndings
    <3>1. Len(log) \in 1 .. 6 /\ DOMAIN log = 1 .. Len(log)
      BY <1>1 DEF Form
    <3>2. i = 5
      BY <1>1, <2>1, FormIsSound
    <3>3. ~(Len(log) < 5)
      BY <3>1, <3>2
    <3>4. log[5] # "-> auth failed"
      BY <2>1, <3>2
    <3>5. ~Unsuccessful(log)
      BY <3>3, <3>4 DEF Unsuccessful
    <3> QED BY <3>5, OnlyTrustedSucceed
  <2> QED BY <2>1 DEF TypeOK, Told, Stages, HttpEndings
<1>5. NeverOpen
  <2>1. \A i \in DOMAIN log : log[i] = "-> auth ok" =>
          i = Len(log) \/ (i + 1 = Len(log) /\ log[i + 1] \in {"-> refused", "timeout"})
    BY <1>1, FormIsSound
  <2> QED BY <1>4, <2>1 DEF NeverOpen
<1> QED BY <1>2, <1>3, <1>5

(***************************************************************************)
(* Chunks: what has been consumed, what waits in the buffer and what has   *)
(* not been sent are the stream, in this order                             *)
(***************************************************************************)

\* What follows the first at tokens of s is b, then r.
Placed(s, b, r, at) ==
    /\ at + Len(b) + Len(r) = Len(s)
    /\ \A i \in 1 .. Len(b) : b[i] = s[at + i]
    /\ \A i \in 1 .. Len(r) : r[i] = s[at + Len(b) + i]

\* The tokens of s after the first m, up to the n-th.
LEMMA CutShows ==
    ASSUME NEW s \in Seq(Nat), NEW n \in 0 .. Len(s), NEW m \in 0 .. n
    PROVE  /\ SubSeq(s, m + 1, n) \in Seq(Nat) /\ Len(SubSeq(s, m + 1, n)) = n - m
           /\ \A i \in 1 .. n - m : SubSeq(s, m + 1, n)[i] = s[m + i]
<1> DEFINE x == SubSeq(s, m + 1, n)
<1>1. m + 1 \in Int /\ n \in Int /\ \A i \in m + 1 .. n : s[i] \in Nat
  OBVIOUS
<1>2. /\ x \in Seq(Nat) /\ Len(x) = IF m + 1 <= n THEN n - (m + 1) + 1 ELSE 0
      /\ \A i \in 1 .. n - (m + 1) + 1 : x[i] = s[(m + 1) + i - 1]
  BY <1>1, SubSeqProperties
<1> HIDE DEF x
<1>3. x \in Seq(Nat) /\ Len(x) = n - m /\ \A i \in 1 .. n - m : x[i] = s[m + i]
  BY <1>2
<1> QED BY <1>3 DEF x

\* A read moves tokens from what was not sent to the buffer.
LEMMA ReadPlaces ==
    ASSUME NEW s \in Seq(Nat), NEW b \in Seq(Nat), NEW r \in Seq(Nat), NEW at \in Nat,
           NEW n \in 1 .. Len(r), Placed(s, b, r, at)
    PROVE  Placed(s, b \o SubSeq(r, 1, n), SubSeq(r, n + 1, Len(r)), at)
<1> DEFINE more == SubSeq(r, 1, n)
           left == SubSeq(r, n + 1, Len(r))
           both == b \o more
<1>1. /\ more \in Seq(Nat) /\ Len(more) = n /\ \A i \in 1 .. n : more[i] = r[i]
      /\ left \in Seq(Nat) /\ Len(left) = Len(r) - n
      /\ \A i \in 1 .. Len(r) - n : left[i] = r[n + i]
  <2>1. /\ SubSeq(r, 0 + 1, n) \in Seq(Nat) /\ Len(SubSeq(r, 0 + 1, n)) = n - 0
        /\ \A i \in 1 .. n - 0 : SubSeq(r, 0 + 1, n)[i] = r[0 + i]
    BY CutShows
  <2>2. left \in Seq(Nat) /\ Len(left) = Len(r) - n /\ \A i \in 1 .. Len(r) - n : left[i] = r[n + i]
    BY CutShows
  <2> HIDE DEF left
  <2> QED BY <2>1, <2>2
<1> HIDE DEF more, left
<1>2. /\ both \in Seq(Nat) /\ Len(both) = Len(b) + n
      /\ \A i \in 1 .. Len(b) : both[i] = b[i]
      /\ \A i \in 1 .. n : both[Len(b) + i] = more[i]
  <2>1. /\ b \o more \in Seq(Nat) /\ Len(b \o more) = Len(b) + Len(more)
        /\ \A i \in 1 .. Len(b) + Len(more) :
              (b \o more)[i] = IF i <= Len(b) THEN b[i] ELSE more[i - Len(b)]
    BY <1>1, ConcatProperties
  <2>2. Len(b) \in Nat /\ n \in Nat
    OBVIOUS
  <2> HIDE DEF both
  <2>3. both \in Seq(Nat) /\ Len(both) = Len(b) + n
    BY <1>1, <2>1 DEF both
  <2>4. ASSUME NEW i \in 1 .. Len(b) PROVE both[i] = b[i]
    <3>1. i \in 1 .. Len(b) + Len(more) /\ i <= Len(b)
      BY <1>1, <2>2
    <3> QED BY <2>1, <3>1 DEF both
  <2>5. ASSUME NEW i \in 1 .. n PROVE both[Len(b) + i] = more[i]
    <3>1. /\ Len(b) + i \in 1 .. Len(b) + Len(more) /\ ~(Len(b) + i <= Len(b))
          /\ (Len(b) + i) - Len(b) = i
      BY <1>1, <2>2
    <3> QED BY <2>1, <3>1 DEF both
  <2> QED BY <2>3, <2>4, <2>5
<1> HIDE DEF both
<1>3. ASSUME NEW i \in 1 .. Len(both) PROVE both[i] = s[at + i]
  <2>1. CASE i \in 1 .. Len(b)
    BY <1>2, <2>1 DEF Placed
  <2>2. CASE i - Len(b) \in 1 .. n
    <3> DEFINE k == i - Len(b)
    <3>1. both[Len(b) + k] = r[k] /\ k \in 1 .. Len(r)
      BY <1>1, <1>2, <2>2
    <3>2. r[k] = s[at + Len(b) + k]
      BY <3>1 DEF Placed
    <3> QED BY <3>1, <3>2
  <2> QED BY <1>2, <2>1, <2>2
<1>4. ASSUME NEW i \in 1 .. Len(left) PROVE left[i] = s[at + Len(both) + i]
  <2>1. left[i] = r[n + i] /\ n + i \in 1 .. Len(r)
    BY <1>1
  <2>2. r[n + i] = s[at + Len(b) + (n + i)]
    BY <2>1 DEF Placed
  <2> QED BY <1>2, <2>1, <2>2
<1>5. at + Len(both) + Len(left) = Len(s)
  <2> DEFINE lb == Len(b)  lr == Len(r)  lx == Len(both)  ll == Len(left)  ls == Len(s)
  <2>1. at + lb + lr = ls /\ lb \in Nat /\ lr \in Nat /\ n \in Nat
    BY DEF Placed
  <2>2. lx = lb + n
    BY <1>2
  <2>3. ll = lr - n
    BY <1>1
  <2> HIDE DEF lb, lr, lx, ll, ls
  <2>4. at + lx + ll = ls
    BY <2>1, <2>2, <2>3
  <2> QED BY <2>4 DEF lx, ll, ls
<1> QED BY <1>3, <1>4, <1>5 DEF Placed, both, more, left

\* Consuming n tokens of the buffer moves the place by n.
LEMMA ConsumePlaces ==
    ASSUME NEW s \in Seq(Nat), NEW b \in Seq(Nat), NEW r \in Seq(Nat), NEW at \in Nat,
           NEW n \in 0 .. Len(b), Placed(s, b, r, at)
    PROVE  Placed(s, SubSeq(b, n + 1, Len(b)), r, at + n)
<1> DEFINE left == SubSeq(b, n + 1, Len(b))
<1>1. /\ left \in Seq(Nat) /\ Len(left) = Len(b) - n
      /\ \A i \in 1 .. Len(b) - n : left[i] = b[n + i]
  BY CutShows
<1> HIDE DEF left
<1>2. ASSUME NEW i \in 1 .. Len(left) PROVE left[i] = s[(at + n) + i]
  <2>1. left[i] = b[n + i] /\ n + i \in 1 .. Len(b)
    BY <1>1
  <2>2. b[n + i] = s[at + (n + i)]
    BY <2>1 DEF Placed
  <2> QED BY <2>1, <2>2
<1>3. ASSUME NEW i \in 1 .. Len(r) PROVE r[i] = s[(at + n) + Len(left) + i]
  <2>1. r[i] = s[at + Len(b) + i]
    BY DEF Placed
  <2> QED BY <1>1, <2>1
<1>4. (at + n) + Len(left) + Len(r) = Len(s)
  <2> DEFINE lb == Len(b)  lr == Len(r)  ll == Len(left)  ls == Len(s)
  <2>1. /\ at + lb + lr = ls /\ lb \in Nat /\ lr \in Nat /\ n \in Nat
        /\ ll = lb - n
    BY <1>1 DEF Placed
  <2> HIDE DEF lb, lr, ll, ls
  <2>2. (at + n) + ll + lr = ls
    BY <2>1
  <2> QED BY <2>2 DEF lr, ll, ls
<1> QED BY <1>2, <1>3, <1>4 DEF Placed, left

\* What the buffer holds is what the stream has there.
LEMMA BufferShows ==
    ASSUME NEW s \in Seq(Nat), NEW b \in Seq(Nat), NEW r \in Seq(Nat), NEW at \in Nat,
           Placed(s, b, r, at)
    PROVE  /\ \A i \in 1 .. Len(b) : b[i] = s[at + i] /\ at + i \in 1 .. Len(s) /\ s[at + i] \in Nat
           /\ \A n \in 0 .. Len(b) : SubSeq(b, 1, n) = SubSeq(s, at + 1, at + n)
<1>1. ASSUME NEW i \in 1 .. Len(b)
      PROVE  b[i] = s[at + i] /\ at + i \in 1 .. Len(s) /\ s[at + i] \in Nat
  BY DEF Placed
<1>2. ASSUME NEW n \in 0 .. Len(b) PROVE SubSeq(b, 1, n) = SubSeq(s, at + 1, at + n)
  <2> DEFINE x == SubSeq(b, 1, n)  y == SubSeq(s, at + 1, at + n)
  <2>1. at + n <= Len(s)
    BY DEF Placed
  <2>2. x \in Seq(Nat) /\ Len(x) = n /\ \A i \in 1 .. n : x[i] = b[i]
    <3>1. /\ SubSeq(b, 0 + 1, n) \in Seq(Nat) /\ Len(SubSeq(b, 0 + 1, n)) = n - 0
          /\ \A i \in 1 .. n - 0 : SubSeq(b, 0 + 1, n)[i] = b[0 + i]
      BY CutShows
    <3> QED BY <3>1
  <2>3. y \in Seq(Nat) /\ Len(y) = n /\ \A i \in 1 .. n : y[i] = s[at + i]
    <3>1. /\ y \in Seq(Nat) /\ Len(y) = (at + n) - at
          /\ \A i \in 1 .. (at + n) - at : y[i] = s[at + i]
      <4>1. at + n \in 0 .. Len(s) /\ at \in 0 .. at + n
        BY <2>1
      <4> QED BY <4>1, CutShows
    <3> HIDE DEF y
    <3> QED BY <3>1
  <2> HIDE DEF x, y
  <2>4. ASSUME NEW i \in 1 .. n PROVE x[i] = y[i]
    <3>1. i \in 1 .. Len(b)
      OBVIOUS
    <3> QED BY <1>1, <2>2, <2>3, <3>1
  <2>5. x = y
    BY <2>2, <2>3, <2>4, SeqEqual
  <2> QED BY <2>5 DEF x, y
<1> QED BY <1>1, <1>2

(***************************************************************************)
(* The fields of a SOCKS5 login, by their place in the stream              *)
(***************************************************************************)

NameAt(s) == s[2] + 4                           \* the length of the name
PassAt(s) == NameAt(s) + 1 + s[NameAt(s)]       \* the length of the password
TypeAt(s) == PassAt(s) + s[PassAt(s)] + 4       \* the type of the address

Offered(s) == {s[i] : i \in 3 .. 2 + s[2]}
Invited == 2 \in Offered(stream) /\ (config.prefer \/ 0 \notin Offered(stream))

\* The stages after the client has been asked for its name, after it has been
\* found to speak the right version of the login, and after its password.
Asked == {"authHead", "username", "plen", "password", "request", "domain", "address"}
Named == Asked \ {"authHead"}
Trusted == {"request", "domain", "address"}

\* Where in the stream each stage reads, and what it knows of what is behind.
Understood ==
    /\ pc = "first" => rest = stream
    /\ pc \in {"greeting", "methods"} => stream[1] = 5 /\ Placed(stream, buf, rest, 0)
    /\ pc = "header" => stream[1] # 5 /\ Placed(stream, buf, rest, 0)
    /\ pc \in Asked => stream[1] = 5 /\ stream[2] \in Nat /\ Invited
    /\ pc = "authHead" => Placed(stream, buf, rest, stream[2] + 2)
    /\ pc \in Named => stream[stream[2] + 3] = 1 /\ stream[NameAt(stream)] \in Nat
    /\ pc = "username" =>
          need = stream[NameAt(stream)] /\ Placed(stream, buf, rest, NameAt(stream))
    /\ pc \in {"plen", "password"} => creds.user = UserOf(stream)
    /\ pc = "plen" =>
          Placed(stream, buf, rest, NameAt(stream) + stream[NameAt(stream)])
    /\ pc = "password" =>
          /\ need = stream[PassAt(stream)] /\ need \in Nat
          /\ Placed(stream, buf, rest, PassAt(stream))
    /\ pc \in Trusted =>
          /\ stream[PassAt(stream)] \in Nat
          /\ creds = SocksCreds(UserOf(stream), PasswordOf(stream))
    /\ pc = "request" =>
          Placed(stream, buf, rest, PassAt(stream) + stream[PassAt(stream)])
    /\ pc \in {"domain", "address"} => stream[TypeAt(stream)] \in {1, 3, 4}
    /\ SegmentationIrrelevant

\* A verdict joined to a log of four.
LEMMA JoinOneToFour ==
    ASSUME NEW a, NEW b, NEW c, NEW d, NEW e
    PROVE  <<a, b, c, d>> \o <<e>> = <<a, b, c, d, e>>
<1> DEFINE S == {a, b, c, d, e}
           l == <<a, b, c, d>> \o <<e>>
           r == <<a, b, c, d, e>>
<1>1. /\ l \in Seq(S) /\ r \in Seq(S) /\ Len(l) = 5 /\ Len(r) = 5
      /\ \A i \in 1 .. 5 : l[i] = r[i]
  OBVIOUS
<1> HIDE DEF l, r
<1>2. l = r
  BY <1>1, SeqEqual
<1> QED BY <1>2 DEF l, r

\* A verdict and what follows it joined to a log of four.
LEMMA JoinTwoToFour ==
    ASSUME NEW a, NEW b, NEW c, NEW d, NEW e, NEW f
    PROVE  <<a, b, c, d>> \o <<e, f>> = <<a, b, c, d, e, f>>
<1> DEFINE S == {a, b, c, d, e, f}
           l == <<a, b, c, d>> \o <<e, f>>
           r == <<a, b, c, d, e, f>>
<1>1. /\ l \in Seq(S) /\ r \in Seq(S) /\ Len(l) = 6 /\ Len(r) = 6
      /\ \A i \in 1 .. 6 : l[i] = r[i]
  OBVIOUS
<1> HIDE DEF l, r
<1>2. l = r
  BY <1>1, SeqEqual
<1> QED BY <1>2 DEF l, r

\* What a whole SOCKS5 stream says, by the fields that decide it.
LEMMA SocksLogSays ==
    ASSUME stream[2] \in Nat, stream[NameAt(stream)] \in Nat, stream[PassAt(stream)] \in Nat
    PROVE  Invited /\ stream[stream[2] + 3] = 1 /\ config.mode = "accept_then_fail" =>
             SocksLog(stream) = IF stream[TypeAt(stream)] \in {1, 3, 4}
               THEN <<"connect", "negotiate", "-> userpass", "auth", "-> auth ok", "-> refused">>
               ELSE Verdict
<1> DEFINE n == stream[2]  u == stream[n + 4]  p == stream[n + 5 + u]
<1>1. NameAt(stream) = n + 4 /\ u \in Nat
  BY DEF NameAt
<1>2. PassAt(stream) = n + 5 + u /\ p \in Nat
  BY <1>1 DEF PassAt, NameAt
<1>3. TypeAt(stream) = n + 5 + u + p + 4
  BY <1>2 DEF TypeAt
<1>4. SUFFICES ASSUME Invited, stream[n + 3] = 1, config.mode = "accept_then_fail"
               PROVE  SocksLog(stream) = IF stream[n + 5 + u + p + 4] \in {1, 3, 4}
                 THEN <<"connect", "negotiate", "-> userpass", "auth", "-> auth ok", "-> refused">>
                 ELSE Verdict
  BY <1>3
<1>5. SocksLog(stream) = <<"connect", "negotiate", "-> userpass", "auth">> \o
        (IF stream[n + 5 + u + p + 4] \in {1, 3, 4}
           THEN <<"-> auth ok", "-> refused">> ELSE <<"-> auth ok">>)
  BY <1>4, Zenon DEF SocksLog, Invited, Offered
<1>6. CASE stream[n + 5 + u + p + 4] \in {1, 3, 4}
  <2>1. SocksLog(stream)
          = <<"connect", "negotiate", "-> userpass", "auth">> \o <<"-> auth ok", "-> refused">>
    BY <1>5, <1>6
  <2>2. <<"connect", "negotiate", "-> userpass", "auth">> \o <<"-> auth ok", "-> refused">>
          = <<"connect", "negotiate", "-> userpass", "auth", "-> auth ok", "-> refused">>
    <3> DEFINE Joined(a, b, c, d, e, f) == <<a, b, c, d>> \o <<e, f>> = <<a, b, c, d, e, f>>
    <3>1. ASSUME NEW a, NEW b, NEW c, NEW d, NEW e, NEW f PROVE Joined(a, b, c, d, e, f)
      BY JoinTwoToFour
    <3> HIDE DEF Joined
    <3>2. Joined("connect", "negotiate", "-> userpass", "auth", "-> auth ok", "-> refused")
      BY <3>1
    <3> QED BY <3>2, Zenon DEF Joined
  <2>3. SocksLog(stream)
          = <<"connect", "negotiate", "-> userpass", "auth", "-> auth ok", "-> refused">>
    BY <2>1, <2>2, Zenon
  <2> QED BY <1>6, <2>3
<1>7. CASE stream[n + 5 + u + p + 4] \notin {1, 3, 4}
  <2>1. SocksLog(stream)
          = <<"connect", "negotiate", "-> userpass", "auth">> \o <<"-> auth ok">>
    BY <1>5, <1>7
  <2>2. SocksLog(stream) = Verdict
    BY <2>1, JoinOneToFour, Zenon DEF Verdict
  <2> QED BY <1>7, <2>2
<1> QED BY <1>6, <1>7

\* A stream that does not get as far as its password.
LEMMA SocksLogEarly ==
    /\ ~Invited => SocksLog(stream) = <<"connect", "negotiate", "-> no method", "reject">>
    /\ Invited /\ stream[stream[2] + 3] # 1 =>
          SocksLog(stream) = <<"connect", "negotiate", "-> userpass", "error">>
    /\ Invited /\ stream[stream[2] + 3] = 1 /\ config.mode = "always_fail" =>
          SocksLog(stream)
            = <<"connect", "negotiate", "-> userpass", "auth", "-> auth failed">>
<1>1. ASSUME ~Invited
      PROVE  SocksLog(stream) = <<"connect", "negotiate", "-> no method", "reject">>
  BY <1>1, Zenon DEF SocksLog, Invited, Offered
<1>2. ASSUME Invited, stream[stream[2] + 3] # 1
      PROVE  SocksLog(stream) = <<"connect", "negotiate", "-> userpass", "error">>
  BY <1>2, Zenon DEF SocksLog, Invited, Offered
<1>3. ASSUME Invited, stream[stream[2] + 3] = 1, config.mode = "always_fail"
      PROVE  SocksLog(stream)
               = <<"connect", "negotiate", "-> userpass", "auth", "-> auth failed">>
  <2>1. SocksLog(stream) = <<"connect", "negotiate", "-> userpass", "auth">> \o <<"-> auth failed">>
    BY <1>3, Zenon DEF SocksLog, Invited, Offered
  <2> QED BY <2>1, JoinOneToFour, Zenon
<1> QED BY <1>1, <1>2, <1>3

\* What was offered is what the buffer shows of it.
LEMMA OffersShow ==
    ASSUME NEW s \in Seq(Nat), NEW b \in Seq(Nat), NEW r \in Seq(Nat), Placed(s, b, r, 0),
           s[2] \in Nat, 2 + s[2] <= Len(b), NEW m
    PROVE  Contains(SubSeq(b, 3, 2 + s[2]), m) <=> m \in Offered(s)
<1>0. s[2] \in Nat /\ Len(b) \in Nat /\ 2 + s[2] <= Len(b)
  OBVIOUS
<1> DEFINE n == s[2]  x == SubSeq(b, 3, 2 + n)
<1>1. /\ x \in Seq(Nat) /\ Len(x) = n /\ \A i \in 1 .. n : x[i] = b[2 + i]
  <2>1. 2 + n \in 0 .. Len(b) /\ 2 \in 0 .. 2 + n /\ (2 + n) - 2 = n /\ 2 + 1 = 3
    BY <1>0
  <2>2. /\ SubSeq(b, 2 + 1, 2 + n) \in Seq(Nat) /\ Len(SubSeq(b, 2 + 1, 2 + n)) = (2 + n) - 2
        /\ \A i \in 1 .. (2 + n) - 2 : SubSeq(b, 2 + 1, 2 + n)[i] = b[2 + i]
    BY <2>1, CutShows
  <2> QED BY <2>1, <2>2
<1>2. \A i \in 1 .. n : x[i] = s[2 + i]
  <2> SUFFICES ASSUME NEW i \in 1 .. n PROVE x[i] = s[2 + i]
    OBVIOUS
  <2>1. 2 + i \in 1 .. Len(b) /\ 0 + (2 + i) = 2 + i
    BY <1>0
  <2>2. b[2 + i] = s[0 + (2 + i)]
    BY <2>1 DEF Placed
  <2> QED BY <1>1, <2>1, <2>2
<1> HIDE DEF x
<1>3. Contains(x, m) <=> \E i \in 1 .. n : s[2 + i] = m
  BY <1>1, <1>2 DEF Contains
<1>4. (\E i \in 1 .. n : s[2 + i] = m) <=> m \in Offered(s)
  <2>1. ASSUME NEW i \in 1 .. n, s[2 + i] = m PROVE m \in Offered(s)
    <3>1. 2 + i \in 3 .. 2 + n
      OBVIOUS
    <3> QED BY <2>1, <3>1 DEF Offered
  <2>2. ASSUME m \in Offered(s) PROVE \E i \in 1 .. n : s[2 + i] = m
    <3>1. PICK j \in 3 .. 2 + n : m = s[j]
      BY <2>2 DEF Offered
    <3>2. j - 2 \in 1 .. n /\ 2 + (j - 2) = j
      OBVIOUS
    <3> QED BY <3>1, <3>2
  <2> QED BY <2>1, <2>2
<1> QED BY <1>3, <1>4 DEF x

\* Words that are not in a log.
LEMMA NotSaid ==
    /\ ~Contains(Opened, "negotiate")
    /\ ~Contains(<<"connect", "probe">>, "negotiate")
    /\ ~Contains(<<"connect", "reject">>, "negotiate")
    /\ ~Contains(<<"connect", "negotiate", "-> no method", "reject">>, "auth")
    /\ ~Contains(<<"connect", "negotiate", "-> userpass", "error">>, "auth")
<1>0. \A i \in 1 .. 4 : i = 1 \/ i = 2 \/ i = 3 \/ i = 4
  OBVIOUS
<1>1. ~Contains(Opened, "negotiate")
  BY DEF Contains, Opened
<1>2. ~Contains(<<"connect", "probe">>, "negotiate")
  BY DEF Contains
<1>3. ~Contains(<<"connect", "reject">>, "negotiate")
  BY DEF Contains
<1>4. ~Contains(<<"connect", "negotiate", "-> no method", "reject">>, "auth")
  <2> DEFINE l == <<"connect", "negotiate", "-> no method", "reject">>
  <2>1. Len(l) = 4 /\ l[1] # "auth" /\ l[2] # "auth" /\ l[3] # "auth" /\ l[4] # "auth"
    OBVIOUS
  <2> HIDE DEF l
  <2>2. ~Contains(l, "auth")
    BY <1>0, <2>1 DEF Contains
  <2> QED BY <2>2 DEF l
<1>5. ~Contains(<<"connect", "negotiate", "-> userpass", "error">>, "auth")
  <2> DEFINE l == <<"connect", "negotiate", "-> userpass", "error">>
  <2>1. Len(l) = 4 /\ l[1] # "auth" /\ l[2] # "auth" /\ l[3] # "auth" /\ l[4] # "auth"
    OBVIOUS
  <2> HIDE DEF l
  <2>2. ~Contains(l, "auth")
    BY <1>0, <2>1 DEF Contains
  <2> QED BY <2>2 DEF l
<1> QED BY <1>1, <1>2, <1>3, <1>4, <1>5

\* A set of positions that is not empty has a first and a last.
LEMMA FirstAndLast ==
    ASSUME NEW n \in Nat, NEW I, I \subseteq 1 .. n, I # {}
    PROVE  /\ Min(I) \in I /\ \A j \in I : Min(I) <= j
           /\ Max(I) \in I /\ \A j \in I : j <= Max(I)
<1>0. I \subseteq Nat /\ \A x \in I : n - x \in Nat
  OBVIOUS
<1>1. \E x \in I : \A y \in I : x <= y
  <2>1. PICK x \in I : \A y \in I : ~(<<y, x>> \in OpToRel(<, Nat))
    BY <1>0, WFMin, NatLessThanWellFounded
  <2>2. ASSUME NEW y \in I PROVE x <= y
    <3>1. <<y, x>> \in Nat \X Nat
      OBVIOUS
    <3>2. ~(y < x)
      BY <2>1, <3>1 DEF OpToRel
    <3> QED BY <3>2
  <2> QED BY <2>2
<1>2. \E x \in I : \A y \in I : y <= x
  <2> DEFINE J == {n - x : x \in I}
  <2>1. J \subseteq Nat /\ J # {}
    BY <1>0
  <2>2. PICK z \in J : \A y \in J : ~(<<y, z>> \in OpToRel(<, Nat))
    <3> HIDE DEF J
    <3> QED BY <2>1, WFMin, NatLessThanWellFounded
  <2>3. PICK x \in I : z = n - x
    OBVIOUS
  <2>4. ASSUME NEW y \in I PROVE y <= x
    <3>1. n - y \in J /\ <<n - y, z>> \in Nat \X Nat
      BY <2>1
    <3>2. ~(n - y < z)
      BY <2>2, <3>1 DEF OpToRel
    <3> QED BY <2>3, <3>2
  <2> QED BY <2>4
<1> QED BY <1>1, <1>2 DEF Min, Max

\* The header block ends before the first blank line.
LEMMA FirstBlank ==
    ASSUME NEW b \in Seq(Nat), Contains(b, Blank)
    PROVE  \E k \in 1 .. Len(b) :
              /\ HeaderBlock(b) = SubSeq(b, 1, k - 1)
              /\ b[k] = Blank /\ \A j \in 1 .. k - 1 : b[j] # Blank
<1> DEFINE I == {i \in 1 .. Len(b) : b[i] = Blank}
           k == Min(I)
<1>1. I \subseteq 1 .. Len(b) /\ I # {} /\ Len(b) \in Nat
  BY DEF Contains
<1>2. SelectInSeq(b, LAMBDA t : t = Blank) = k
  BY <1>1 DEF SelectInSeq
<1>3. k \in I /\ \A j \in I : k <= j
  <2> HIDE DEF I
  <2> QED BY <1>1, FirstAndLast
<1>4. \A j \in 1 .. k - 1 : b[j] # Blank
  <2> SUFFICES ASSUME NEW j \in 1 .. k - 1, b[j] = Blank PROVE FALSE
    OBVIOUS
  <2>1. k \in 1 .. Len(b) /\ j \in 1 .. Len(b) /\ j < k
    BY <1>3
  <2> QED BY <1>3, <2>1
<1>5. HeaderBlock(b) = SubSeq(b, 1, k - 1)
  BY <1>2 DEF HeaderBlock
<1> QED BY <1>3, <1>4, <1>5

\* The last authorization line of a block, or none.
LEMMA LastAuth ==
    ASSUME NEW b \in Seq(Nat)
    PROVE  LET last == SelectLastInSeq(b, LAMBDA t : t \in AuthLines) IN
           \/ last = 0 /\ \A j \in 1 .. Len(b) : b[j] \notin AuthLines
           \/ /\ last \in 1 .. Len(b) /\ last # 0 /\ b[last] \in AuthLines
              /\ \A j \in 1 .. Len(b) : b[j] \in AuthLines => j <= last
<1> DEFINE I == {i \in 1 .. Len(b) : b[i] \in AuthLines}
           last == SelectLastInSeq(b, LAMBDA t : t \in AuthLines)
<1>1. last = IF I # {} THEN Max(I) ELSE 0
  BY DEF SelectLastInSeq
<1>2. I \subseteq 1 .. Len(b) /\ Len(b) \in Nat
  OBVIOUS
<1> HIDE DEF last
<1> DEFINE Goal == \/ last = 0 /\ \A j \in 1 .. Len(b) : b[j] \notin AuthLines
                   \/ /\ last \in 1 .. Len(b) /\ last # 0 /\ b[last] \in AuthLines
                      /\ \A j \in 1 .. Len(b) : b[j] \in AuthLines => j <= last
<1> SUFFICES Goal
  BY Zenon DEF last
<1>3. CASE I = {}
  <2>1. last = 0
    BY <1>1, <1>3
  <2> QED BY <1>3, <2>1
<1>4. CASE I # {}
  <2>1. Max(I) \in I /\ \A j \in I : j <= Max(I)
    <3> HIDE DEF I
    <3> QED BY <1>2, <1>4, FirstAndLast
  <2>2. last = Max(I)
    BY <1>1, <1>4
  <2>3. last \in I /\ \A j \in I : j <= last
    BY <2>1, <2>2
  <2>4. last # 0
    BY <1>2, <2>3
  <2> QED BY <2>3, <2>4
<1> QED BY <1>3, <1>4

\* Once the blank line has arrived, what the header says is what the whole
\* request says.
LEMMA HeaderSays ==
    ASSUME NEW s \in Streams, NEW b \in Seq(Nat), NEW r \in Seq(Nat), Placed(s, b, r, 0),
           Contains(b, Blank)
    PROVE  ProxyAuth(HeaderBlock(b)) = HttpCreds(SchemeOf(s))
<1>1. PICK k \in 1 .. Len(b) :
          /\ HeaderBlock(b) = SubSeq(b, 1, k - 1)
          /\ b[k] = Blank /\ \A j \in 1 .. k - 1 : b[j] # Blank
  BY FirstBlank
<1> DEFINE block == SubSeq(b, 1, k - 1)
<1>2. s \in Seq(Nat) /\ Len(s) \in Nat /\ Len(b) \in Nat /\ DOMAIN s = 1 .. Len(s)
  BY StreamsAreTokens
<1>3. /\ block \in Seq(Nat) /\ Len(block) = k - 1
      /\ \A i \in 1 .. k - 1 : block[i] = b[i]
  <2>1. k - 1 \in 0 .. Len(b) /\ 0 \in 0 .. k - 1 /\ 0 + 1 = 1 /\ (k - 1) - 0 = k - 1
    BY <1>2
  <2>2. /\ SubSeq(b, 0 + 1, k - 1) \in Seq(Nat) /\ Len(SubSeq(b, 0 + 1, k - 1)) = (k - 1) - 0
        /\ \A i \in 1 .. (k - 1) - 0 : SubSeq(b, 0 + 1, k - 1)[i] = b[0 + i]
    BY <2>1, CutShows
  <2>3. \A i \in 1 .. k - 1 : b[0 + i] = b[i]
    OBVIOUS
  <2> QED BY <2>1, <2>2, <2>3
<1>4. \A i \in 1 .. Len(b) : b[i] = s[i] /\ i \in 1 .. Len(s)
  <2> SUFFICES ASSUME NEW i \in 1 .. Len(b) PROVE b[i] = s[i] /\ i \in 1 .. Len(s)
    OBVIOUS
  <2>1. b[i] = s[0 + i] /\ 0 + i \in 1 .. Len(s) /\ 0 + i = i
    BY <1>2, BufferShows
  <2> QED BY <2>1
<1> HIDE DEF block
<1>5. k \in 1 .. Len(s) /\ s[k] = Blank /\ \A j \in 1 .. k - 1 : s[j] # Blank /\ j \in 1 .. Len(b)
  <2>1. \A j \in 1 .. k - 1 : j \in 1 .. Len(b)
    BY <1>2
  <2> QED BY <1>1, <1>4, <2>1
<1>6. AuthLinesOf(s) = {i \in 1 .. k - 1 : block[i] \in AuthLines}
  <2>1. ASSUME NEW i \in AuthLinesOf(s) PROVE i \in 1 .. k - 1 /\ block[i] \in AuthLines
    <3>1. i \in 1 .. Len(s) /\ s[i] \in AuthLines /\ \A j \in 1 .. i : s[j] # Blank
      BY <1>2 DEF AuthLinesOf
    <3>2. k \notin 1 .. i
      BY <1>5, <3>1
    <3>3. i \in 1 .. k - 1 /\ i \in 1 .. Len(b)
      BY <1>2, <3>1, <3>2
    <3> QED BY <1>3, <1>4, <3>1, <3>3
  <2>2. ASSUME NEW i \in 1 .. k - 1, block[i] \in AuthLines PROVE i \in AuthLinesOf(s)
    <3>1. i \in 1 .. Len(s) /\ s[i] \in AuthLines
      BY <1>3, <1>4, <1>5, <2>2
    <3>2. \A j \in 1 .. i : j \in 1 .. k - 1
      OBVIOUS
    <3> QED BY <1>2, <1>5, <3>1, <3>2 DEF AuthLinesOf
  <2> QED BY <2>1, <2>2
<1> DEFINE last == SelectLastInSeq(block, LAMBDA t : t \in AuthLines)
<1>7. \/ last = 0 /\ \A j \in 1 .. Len(block) : block[j] \notin AuthLines
      \/ /\ last \in 1 .. Len(block) /\ last # 0 /\ block[last] \in AuthLines
         /\ \A j \in 1 .. Len(block) : block[j] \in AuthLines => j <= last
  BY <1>3, LastAuth, Zenon
<1>8. ProxyAuth(block) =
         IF last = 0 \/ block[last] = NoAuth THEN NoCreds
         ELSE IF block[last] = OtherAuth THEN HttpCreds("other")
         ELSE IF last < Len(block) /\ block[last + 1] = Basic2 THEN HttpCreds("basic")
         ELSE HttpCreds("truncated")
  BY Zenon DEF ProxyAuth
<1> HIDE DEF last
<1> DEFINE LastIs(kinds) == \E i \in AuthLinesOf(s) :
                               s[i] \in kinds /\ \A j \in AuthLinesOf(s) : j <= i
<1>9. SchemeOf(s) = CASE LastIs({Basic1}) -> "basic" [] LastIs({OtherAuth}) -> "other"
                      [] OTHER -> "none"
  BY DEF SchemeOf
<1>10. NoCreds = HttpCreds("none")
  BY DEF NoCreds, HttpCreds
<1>11. Basic1 # OtherAuth /\ Basic1 # NoAuth /\ OtherAuth # NoAuth /\ Basic2 # Blank
       /\ AuthLines = {Basic1, OtherAuth, NoAuth}
  BY DEF Basic1, OtherAuth, NoAuth, Basic2, Blank, AuthLines
<1>12. CASE last = 0
  <2>1. AuthLinesOf(s) = {}
    BY <1>3, <1>6, <1>7, <1>12
  <2>2. SchemeOf(s) = "none"
    BY <1>9, <2>1
  <2> QED BY <1>1, <1>8, <1>10, <1>12, <2>2 DEF block
<1>13. CASE last # 0
  <2>1. /\ last \in AuthLinesOf(s) /\ last \in 1 .. k - 1 /\ s[last] = block[last]
        /\ \A j \in AuthLinesOf(s) : j <= last
    <3>1. last \in 1 .. k - 1 /\ block[last] \in AuthLines
      BY <1>3, <1>7, <1>13
    <3>2. last \in AuthLinesOf(s) /\ \A j \in AuthLinesOf(s) : j <= last
      BY <1>3, <1>6, <1>7, <1>13, <3>1
    <3> QED BY <1>3, <1>4, <1>5, <3>1, <3>2
  <2>2. \A kinds : LastIs(kinds) <=> s[last] \in kinds
    <3>1. ASSUME NEW i \in AuthLinesOf(s), \A j \in AuthLinesOf(s) : j <= i PROVE i = last
      <4>1. i <= last /\ last <= i /\ i \in Nat /\ last \in Nat
        BY <1>6, <2>1, <3>1
      <4> QED BY <4>1
    <3> QED BY <2>1, <3>1
  <2> HIDE DEF LastIs
  <2>3. CASE s[last] = NoAuth
    <3>1. SchemeOf(s) = "none"
      BY <1>9, <1>11, <2>2, <2>3
    <3> QED BY <1>1, <1>8, <1>10, <2>1, <2>3, <3>1 DEF block
  <2>4. CASE s[last] = OtherAuth
    <3>1. SchemeOf(s) = "other"
      BY <1>9, <1>11, <2>2, <2>4
    <3> QED BY <1>1, <1>8, <1>11, <1>13, <2>1, <2>4, <3>1 DEF block
  <2>5. CASE s[last] = Basic1
    <3>1. SchemeOf(s) = "basic"
      BY <1>9, <1>11, <2>2, <2>5
    <3>2. last \in 1 .. Len(s) - 1 /\ last + 1 \in 1 .. Len(s) /\ last + 1 <= k
      BY <1>2, <1>5, <2>1
    <3>3. s[last + 1] = Basic2
      BY <2>5, <3>2, CredentialsAreWhole
    <3>4. last + 1 # k
      BY <1>5, <1>11, <3>3
    <3>5. last + 1 \in 1 .. k - 1 /\ last < k - 1
      BY <2>1, <3>2, <3>4
    <3>6. block[last + 1] = Basic2 /\ last < Len(block)
      BY <1>3, <1>4, <1>5, <3>3, <3>5
    <3> QED BY <1>1, <1>8, <1>11, <1>13, <2>1, <2>5, <3>1, <3>6 DEF block
  <2>6. s[last] \in AuthLines
    BY <1>7, <1>13, <2>1
  <2> QED BY <1>11, <2>3, <2>4, <2>5, <2>6
<1> QED BY <1>12, <1>13

\* What the whole stream says depends on nothing that a step changes.
LEMMA WholeKeeps ==
    ASSUME UNCHANGED <<config, stream>>
    PROVE  /\ SocksLog(stream)' = SocksLog(stream) /\ HttpLog(stream)' = HttpLog(stream)
           /\ Invited' <=> Invited
<1>1. SocksLog(stream)' = SocksLog(stream)
  BY Zenon DEF SocksLog
<1>2. HttpLog(stream)' = HttpLog(stream)
  BY Zenon DEF HttpLog
<1>3. Invited' <=> Invited
  BY Zenon DEF Invited
<1> QED BY <1>1, <1>2, <1>3

\* A session that a failure cuts short, or that goes on, has nothing to answer for.
LEMMA CutIsExcused == pc' # "done" \/ cut' = TRUE => SegmentationIrrelevant'
BY DEF SegmentationIrrelevant

\* Nor has one that never negotiated.
LEMMA SilentIsExcused == ~Contains(log', "negotiate") => SegmentationIrrelevant'
BY DEF SegmentationIrrelevant, InLog

\* The places of a login are numbers as soon as they are known.
LEMMA PlacesAreNumbers ==
    ASSUME Understood
    PROVE  /\ pc \in Asked => stream[2] + 2 \in Nat /\ NameAt(stream) \in Nat
           /\ pc \in Named => NameAt(stream) + stream[NameAt(stream)] \in Nat
                              /\ PassAt(stream) \in Nat
           /\ pc \in Trusted => PassAt(stream) + stream[PassAt(stream)] \in Nat
<1>1. pc \in Asked => stream[2] \in Nat /\ stream[2] + 2 \in Nat /\ NameAt(stream) \in Nat
  BY DEF Understood, NameAt
<1>2. pc \in Named => NameAt(stream) + stream[NameAt(stream)] \in Nat /\ PassAt(stream) \in Nat
  BY <1>1 DEF Understood, PassAt, Named
<1>3. pc \in Trusted => PassAt(stream) + stream[PassAt(stream)] \in Nat
  BY <1>2 DEF Understood, Trusted, Named, Asked
<1> QED BY <1>1, <1>2, <1>3

\* The first read, and the reads that bring more or nothing.
LEMMA ReadsUnderstand ==
    ASSUME TypeOK, Told, Understood, FirstChunk \/ ReadMore \/ ReadTimesOut \/ ReadEnds
    PROVE  Understood'
<1>0. /\ stream \in Seq(Nat) /\ rest \in Seq(Nat) /\ buf \in Seq(Nat)
      /\ Len(buf) \in Nat /\ Len(rest) \in Nat /\ pc \in Stages
  BY StreamsAreTokens DEF TypeOK
<1>1. CASE FirstChunk
  <2>1. PICK n \in 1 .. Len(rest) :
            /\ buf' = SubSeq(rest, 1, n) /\ rest' = SubSeq(rest, n + 1, Len(rest))
            /\ \/ Finish(<<"probe">>)
               \/ Finish(<<"reject">>)
               \/ /\ pc' = IF Detected(SubSeq(rest, 1, n)) = "socks5" THEN "greeting"
                                                                   ELSE "header"
                  /\ UNCHANGED log
    BY <1>1 DEF FirstChunk
  <2>2. rest = stream /\ log = Opened /\ UNCHANGED <<config, stream>>
    BY <1>1 DEF FirstChunk, Understood, Told
  <2>3. CASE pc' = "done"
    <3>1. log' = <<"connect", "probe">> \/ log' = <<"connect", "reject">>
      BY <2>1, <2>2, <2>3, OpenedGrows DEF Finish
    <3>2. ~Contains(log', "negotiate")
      BY <3>1, NotSaid, Zenon
    <3>3. SegmentationIrrelevant'
      BY <3>2, SilentIsExcused
    <3> QED BY <2>3, <3>3 DEF Understood, Asked, Named, Trusted
  <2>4. CASE pc' # "done"
    <3>1. /\ pc' \in {"greeting", "header"}
          /\ pc' = "greeting" <=> Detected(SubSeq(rest, 1, n)) = "socks5"
      BY <2>1, <2>4 DEF Finish
    <3>2. Detected(SubSeq(rest, 1, n)) = "socks5" <=> SubSeq(rest, 1, n)[1] = 5
      BY DEF Detected
    <3>3. Placed(stream, <<>>, rest, 0)
      <4>1. Len(<<>>) = 0 /\ \A i \in 1 .. Len(<<>>) : FALSE
        OBVIOUS
      <4>2. 0 + Len(<<>>) + Len(rest) = Len(stream)
        BY <1>0, <2>2, <4>1
      <4>3. \A i \in 1 .. Len(rest) : rest[i] = stream[0 + Len(<<>>) + i]
        BY <1>0, <2>2, <4>1
      <4> QED BY <4>1, <4>2, <4>3 DEF Placed
    <3>4. Placed(stream, <<>> \o SubSeq(rest, 1, n), SubSeq(rest, n + 1, Len(rest)), 0)
      <4>1. <<>> \in Seq(Nat) /\ 0 \in Nat
        OBVIOUS
      <4> QED BY <1>0, <3>3, <4>1, ReadPlaces, Zenon
    <3>5. <<>> \o SubSeq(rest, 1, n) = SubSeq(rest, 1, n) /\ SubSeq(rest, 1, n) \in Seq(Nat)
          /\ Len(SubSeq(rest, 1, n)) = n /\ SubSeq(rest, 1, n)[1] = stream[1]
      <4>1. /\ SubSeq(rest, 0 + 1, n) \in Seq(Nat) /\ Len(SubSeq(rest, 0 + 1, n)) = n - 0
            /\ \A i \in 1 .. n - 0 : SubSeq(rest, 0 + 1, n)[i] = rest[0 + i]
        BY <1>0, CutShows
      <4>2. 1 \in 1 .. n - 0 /\ 0 + 1 = 1 /\ n - 0 = n
        OBVIOUS
      <4> QED BY <2>2, <4>1, <4>2
    <3>6. Placed(stream, buf', rest', 0)
      BY <2>1, <3>4, <3>5
    <3>7. SegmentationIrrelevant'
      BY <2>4, CutIsExcused
    <3> QED BY <2>2, <3>1, <3>2, <3>5, <3>6, <3>7 DEF Understood, Asked, Named, Trusted
  <2> QED BY <2>3, <2>4
<1>2. CASE ReadMore
  <2>1. PICK n \in 1 .. Len(rest) :
            buf' = buf \o SubSeq(rest, 1, n) /\ rest' = SubSeq(rest, n + 1, Len(rest))
    BY <1>2 DEF ReadMore
  <2>2. UNCHANGED <<config, stream, pc, need, creds, log, cut>> /\ pc # "first" /\ pc # "done"
    BY <1>2 DEF ReadMore, MustRead
  <2>3. ASSUME NEW at \in Nat, Placed(stream, buf, rest, at)
        PROVE  Placed(stream, buf', rest', at)
    BY <1>0, <2>1, <2>3, ReadPlaces
  <2>4. SegmentationIrrelevant'
    BY <2>2, CutIsExcused
  <2>5. Invited' <=> Invited
    BY <2>2, WholeKeeps
  <2>6. UserOf(stream)' = UserOf(stream) /\ PasswordOf(stream)' = PasswordOf(stream)
        /\ NameAt(stream)' = NameAt(stream) /\ PassAt(stream)' = PassAt(stream)
        /\ TypeAt(stream)' = TypeAt(stream)
    BY <2>2
  <2>7. /\ pc = "authHead" => Placed(stream, buf', rest', stream[2] + 2)
        /\ pc = "username" => Placed(stream, buf', rest', NameAt(stream))
        /\ pc = "plen" => Placed(stream, buf', rest', NameAt(stream) + stream[NameAt(stream)])
        /\ pc = "password" => Placed(stream, buf', rest', PassAt(stream))
        /\ pc = "request" => Placed(stream, buf', rest', PassAt(stream) + stream[PassAt(stream)])
        /\ pc \in {"greeting", "methods", "header"} => Placed(stream, buf', rest', 0)
    BY <2>3, PlacesAreNumbers DEF Understood, Asked, Named, Trusted
  <2> QED BY <2>2, <2>4, <2>5, <2>6, <2>7 DEF Understood
<1>3. CASE ReadTimesOut \/ ReadEnds
  <2>1. pc' = "done" /\ cut' = TRUE
    BY <1>3 DEF ReadTimesOut, ReadEnds, Finish
  <2>2. SegmentationIrrelevant'
    BY <2>1, CutIsExcused
  <2> QED BY <2>1, <2>2 DEF Understood, Asked, Named, Trusted
<1> QED BY <1>1, <1>2, <1>3

\* What a session must answer for when it ends whole.
LEMMA AnsweredIsUnderstood ==
    ASSUME stream[1] = 5, UNCHANGED <<config, stream>>, log' = SocksLog(stream),
           Contains(log', "auth") => creds' = SocksCreds(UserOf(stream), PasswordOf(stream))
    PROVE  SegmentationIrrelevant'
<1>1. SocksLog(stream)' = SocksLog(stream)
  BY WholeKeeps
<1>2. UserOf(stream)' = UserOf(stream) /\ PasswordOf(stream)' = PasswordOf(stream)
  OBVIOUS
<1> QED BY <1>1, <1>2 DEF SegmentationIrrelevant, InLog

\* A session that has ended keeps only this to answer for.
LEMMA DoneIsUnderstood == pc' = "done" /\ SegmentationIrrelevant' => Understood'
BY DEF Understood, Asked, Named, Trusted

\* The greeting and the methods.
LEMMA GreetingUnderstands ==
    ASSUME TypeOK, Told, Unnamed, Understood, Greeting \/ Methods
    PROVE  Understood'
<1>0. /\ stream \in Seq(Nat) /\ rest \in Seq(Nat) /\ buf \in Seq(Nat)
      /\ Len(buf) \in Nat /\ Len(rest) \in Nat /\ pc \in Stages
  BY StreamsAreTokens DEF TypeOK
<1>1. CASE Greeting
  <2>1. pc = "greeting" /\ pc' = "methods" /\ UNCHANGED <<config, stream, rest, buf, need, creds>>
    BY <1>1 DEF Greeting, AtStage
  <2>2. SegmentationIrrelevant'
    BY <2>1, CutIsExcused
  <2> QED BY <2>1, <2>2 DEF Understood, Asked, Named, Trusted
<1>2. CASE Methods
  <2>1. /\ pc = "methods" /\ Wanted = 2 + buf[2] /\ Len(buf) >= 2 + buf[2] /\ Len(buf) >= 2
        /\ buf' = SubSeq(buf, 2 + buf[2] + 1, Len(buf)) /\ UNCHANGED <<config, stream, rest, creds>>
    BY <1>2 DEF Methods, AtStage, Wanted, Unnamed
  <2>2. stream[1] = 5 /\ Placed(stream, buf, rest, 0) /\ log = Opened
    BY <2>1 DEF Understood, Told
  <2>3. buf[2] = stream[2] /\ stream[2] \in Nat /\ 2 + stream[2] \in 0 .. Len(buf)
    <3>1. 2 \in 1 .. Len(buf) /\ 0 + 2 = 2
      BY <1>0, <2>1
    <3>2. buf[2] = stream[0 + 2] /\ stream[0 + 2] \in Nat
      BY <1>0, <2>2, <3>1, BufferShows
    <3>3. buf[2] = stream[2] /\ stream[2] \in Nat
      BY <3>1, <3>2
    <3>4. Len(buf) >= 2 + stream[2]
      BY <2>1, <3>3
    <3> QED BY <1>0, <3>3, <3>4
  <2> DEFINE methods == SubSeq(buf, 3, Wanted)
  <2>4. \A m : Contains(methods, m) <=> m \in Offered(stream)
    BY <1>0, <2>1, <2>2, <2>3, OffersShow
  <2>5. Placed(stream, buf', rest', stream[2] + 2)
    <3>1. Placed(stream, SubSeq(buf, (2 + stream[2]) + 1, Len(buf)), rest, 0 + (2 + stream[2]))
      BY <1>0, <2>2, <2>3, ConsumePlaces
    <3>2. 0 + (2 + stream[2]) = stream[2] + 2
      BY <2>3
    <3> QED BY <2>1, <2>3, <3>1, <3>2
  <2>6. IF Invited
          THEN EmitAndReply(<<"negotiate">>, "-> userpass", <<>>, "authHead")
          ELSE EmitAndReply(<<"negotiate">>, "-> no method", <<"reject">>, "done")
    <3> HIDE DEF methods
    <3>1. IF OffersUserpass(methods) /\ (config.prefer \/ ~Contains(methods, 0))
            THEN EmitAndReply(<<"negotiate">>, "-> userpass", <<>>, "authHead")
            ELSE EmitAndReply(<<"negotiate">>, "-> no method", <<"reject">>, "done")
      BY <1>2 DEF Methods, methods
    <3>2. OffersUserpass(methods) /\ (config.prefer \/ ~Contains(methods, 0)) <=> Invited
      BY <2>4 DEF OffersUserpass, Invited
    <3> QED BY <3>1, <3>2
  <2>7. CASE pc' # "done"
    <3>1. pc' = "authHead" /\ Invited
      BY <2>6, <2>7 DEF EmitAndReply
    <3>2. Invited' /\ SegmentationIrrelevant'
      BY <2>1, <2>7, <3>1, WholeKeeps, CutIsExcused
    <3> QED BY <2>1, <2>2, <2>3, <2>5, <3>1, <3>2 DEF Understood, Asked, Named, Trusted
  <2>8. CASE pc' = "done"
    <3>1. cut' = TRUE \/ (~Invited /\ log' = Opened \o <<"negotiate">> \o <<"-> no method">> \o <<"reject">>)
      BY <2>2, <2>6, <2>8 DEF EmitAndReply
    <3>2. CASE cut' = TRUE
      BY <2>8, <3>2, CutIsExcused, DoneIsUnderstood
    <3>3. CASE cut' # TRUE
      <4>1. log' = <<"connect", "negotiate", "-> no method", "reject">> /\ ~Invited
        BY <3>1, <3>3, OpenedGrows
      <4>2. log' = SocksLog(stream) /\ ~Contains(log', "auth")
        BY <4>1, SocksLogEarly, NotSaid, Zenon
      <4> QED BY <2>1, <2>2, <2>8, <4>2, AnsweredIsUnderstood, DoneIsUnderstood
    <3> QED BY <3>2, <3>3
  <2> QED BY <2>7, <2>8
<1> QED BY <1>1, <1>2

\* The head of the login and the name.
LEMMA NameUnderstands ==
    ASSUME TypeOK, Told, Unnamed, Understood, BadAuthVersion \/ AuthHead \/ Username
    PROVE  Understood'
<1>0. /\ stream \in Seq(Nat) /\ rest \in Seq(Nat) /\ buf \in Seq(Nat)
      /\ Len(buf) \in Nat /\ Len(rest) \in Nat /\ pc \in Asked
      /\ UNCHANGED <<config, stream, rest>> /\ Invited /\ stream[1] = 5 /\ stream[2] \in Nat
  <2>1. pc \in Asked /\ UNCHANGED <<config, stream, rest>>
    BY DEF BadAuthVersion, AuthHead, Username, AtStage, Asked
  <2>2. Invited /\ stream[1] = 5 /\ stream[2] \in Nat
    BY <2>1 DEF Understood
  <2> QED BY <2>1, <2>2, StreamsAreTokens DEF TypeOK
<1>1. CASE BadAuthVersion \/ AuthHead
  <2>1. pc = "authHead" /\ Len(buf) >= 2 /\ Placed(stream, buf, rest, stream[2] + 2) /\ log = Negotiated
    BY <1>1 DEF BadAuthVersion, AuthHead, AtStage, Wanted, Understood, Told
  <2>2. /\ buf[1] = stream[stream[2] + 3] /\ buf[2] = stream[NameAt(stream)]
        /\ stream[NameAt(stream)] \in Nat
    <3>0. Len(buf) >= 2 /\ Len(buf) \in Nat /\ stream[2] \in Nat
      BY <1>0, <2>1
    <3>1. 1 \in 1 .. Len(buf) /\ 2 \in 1 .. Len(buf) /\ stream[2] + 2 \in Nat
      BY <3>0
    <3> DEFINE at == stream[2] + 2
    <3>2. at + 1 = stream[2] + 3 /\ at + 2 = NameAt(stream) /\ at \in Nat
      BY <3>0 DEF NameAt
    <3>3. Placed(stream, buf, rest, at)
      BY <2>1
    <3> HIDE DEF at
    <3>4. \A i \in 1 .. Len(buf) : buf[i] = stream[at + i] /\ stream[at + i] \in Nat
      BY <1>0, <3>2, <3>3, BufferShows
    <3> QED BY <3>1, <3>2, <3>4
  <2>3. CASE BadAuthVersion
    <3>1. log' = <<"connect", "negotiate", "-> userpass", "error">> /\ pc' = "done"
      BY <2>1, <2>3, NegotiatedGrows DEF BadAuthVersion, Finish
    <3>2. stream[stream[2] + 3] # 1
      BY <2>2, <2>3 DEF BadAuthVersion
    <3>3. log' = SocksLog(stream) /\ ~Contains(log', "auth")
      BY <1>0, <3>1, <3>2, SocksLogEarly, NotSaid, Zenon
    <3> QED BY <1>0, <3>1, <3>3, AnsweredIsUnderstood, DoneIsUnderstood
  <2>4. CASE AuthHead
    <3>1. /\ pc' = "username" /\ need' = buf[2] /\ buf[1] = 1
          /\ buf' = SubSeq(buf, 2 + 1, Len(buf)) /\ UNCHANGED creds
      BY <2>4 DEF AuthHead, Consume
    <3>2. Placed(stream, buf', rest', NameAt(stream))
      <4>1. 2 \in 0 .. Len(buf) /\ stream[2] + 2 \in Nat /\ (stream[2] + 2) + 2 = stream[2] + 4
        BY <1>0, <2>1
      <4>2. Placed(stream, SubSeq(buf, 2 + 1, Len(buf)), rest, (stream[2] + 2) + 2)
        BY <1>0, <2>1, <4>1, ConsumePlaces
      <4> QED BY <1>0, <3>1, <4>1, <4>2 DEF NameAt
    <3>3. Invited' /\ SegmentationIrrelevant'
      BY <1>0, <3>1, WholeKeeps, CutIsExcused
    <3>4. NameAt(stream)' = NameAt(stream)
      BY <1>0
    <3> QED BY <1>0, <2>2, <3>1, <3>2, <3>3, <3>4 DEF Understood, Asked, Named, Trusted
  <2> QED BY <1>1, <2>3, <2>4
<1>2. CASE Username
  <2>1. /\ pc = "username" /\ Len(buf) >= need /\ creds = NoCreds /\ need \in Nat
        /\ creds' = [creds EXCEPT !.user = SubSeq(buf, 1, need)]
        /\ buf' = SubSeq(buf, need + 1, Len(buf)) /\ pc' = "plen"
    BY <1>2 DEF Username, Consume, AtStage, Wanted, Unnamed, TypeOK
  <2>2. /\ stream[stream[2] + 3] = 1 /\ need = stream[NameAt(stream)]
        /\ Placed(stream, buf, rest, NameAt(stream)) /\ NameAt(stream) \in Nat
        /\ need \in 0 .. Len(buf)
    BY <1>0, <2>1, PlacesAreNumbers DEF Understood, Named, Asked
  <2>3. creds'.user = UserOf(stream)
    <3>1. SubSeq(buf, 1, need) = SubSeq(stream, NameAt(stream) + 1, NameAt(stream) + need)
      BY <1>0, <2>2, BufferShows
    <3>2. NameAt(stream) + 1 = stream[2] + 5 /\ NameAt(stream) + need = stream[2] + 4 + need
      BY <1>0 DEF NameAt
    <3>3. UserOf(stream) = SubSeq(stream, stream[2] + 5, stream[2] + 4 + need)
      BY <2>2 DEF UserOf, NameAt
    <3> QED BY <2>1, <3>1, <3>2, <3>3 DEF NoCreds
  <2>4. Placed(stream, buf', rest', NameAt(stream) + stream[NameAt(stream)])
    BY <1>0, <2>1, <2>2, ConsumePlaces
  <2>5. Invited' /\ SegmentationIrrelevant'
    BY <1>0, <2>1, WholeKeeps, CutIsExcused
  <2>6. NameAt(stream)' = NameAt(stream) /\ UserOf(stream)' = UserOf(stream)
    BY <1>0
  <2> QED BY <1>0, <2>1, <2>2, <2>3, <2>4, <2>5, <2>6 DEF Understood, Asked, Named, Trusted
<1> QED BY <1>1, <1>2

\* The password's length and the password.
LEMMA PasswordUnderstands ==
    ASSUME TypeOK, Told, Unnamed, Understood, PasswordLength \/ Password
    PROVE  Understood'
<1>0. /\ stream \in Seq(Nat) /\ rest \in Seq(Nat) /\ buf \in Seq(Nat)
      /\ Len(buf) \in Nat /\ Len(rest) \in Nat /\ pc \in Named /\ pc \in Asked
      /\ UNCHANGED <<config, stream, rest>> /\ Invited /\ stream[1] = 5 /\ stream[2] \in Nat
      /\ stream[stream[2] + 3] = 1 /\ stream[NameAt(stream)] \in Nat
      /\ creds.user = UserOf(stream)
  <2>1. /\ pc \in Asked /\ pc \in Named /\ UNCHANGED <<config, stream, rest>>
        /\ pc \in {"plen", "password"}
    BY DEF PasswordLength, Password, AtStage, Asked, Named
  <2>2. /\ Invited /\ stream[1] = 5 /\ stream[2] \in Nat /\ stream[stream[2] + 3] = 1
        /\ stream[NameAt(stream)] \in Nat /\ creds.user = UserOf(stream)
    BY <2>1 DEF Understood
  <2> QED BY <2>1, <2>2, StreamsAreTokens DEF TypeOK
<1>1. /\ NameAt(stream) \in Nat /\ PassAt(stream) \in Nat
      /\ NameAt(stream) + stream[NameAt(stream)] \in Nat
  BY <1>0, PlacesAreNumbers
<1>2. CASE PasswordLength
  <2> DEFINE at == NameAt(stream) + stream[NameAt(stream)]
  <2>1. /\ pc = "plen" /\ pc' = "password" /\ need' = buf[1] /\ UNCHANGED creds
        /\ buf' = SubSeq(buf, 1 + 1, Len(buf))
    BY <1>2 DEF PasswordLength, Consume, AtStage
  <2>2. Len(buf) >= 1
    BY <1>2 DEF PasswordLength, AtStage, Wanted
  <2>3. at \in Nat /\ at + 1 = PassAt(stream)
    BY <1>0, <1>1 DEF PassAt
  <2>4. Placed(stream, buf, rest, at)
    BY <2>1 DEF Understood
  <2> HIDE DEF at
  <2>5. buf[1] = stream[PassAt(stream)] /\ stream[PassAt(stream)] \in Nat
    <3>1. 1 \in 1 .. Len(buf)
      BY <1>0, <2>2
    <3>2. at \in Nat /\ stream \in Seq(Nat) /\ buf \in Seq(Nat) /\ rest \in Seq(Nat)
      BY <1>0, <2>3
    <3>3. \A i \in 1 .. Len(buf) : buf[i] = stream[at + i] /\ stream[at + i] \in Nat
      BY <2>4, <3>2, BufferShows
    <3> QED BY <2>3, <3>1, <3>3
  <2>6. Placed(stream, buf', rest', PassAt(stream))
    <3>1. 1 \in 0 .. Len(buf)
      BY <1>0, <2>2
    <3>2. Placed(stream, SubSeq(buf, 1 + 1, Len(buf)), rest, at + 1)
      BY <1>0, <2>3, <2>4, <3>1, ConsumePlaces
    <3> QED BY <1>0, <2>1, <2>3, <3>2
  <2>7. Invited' /\ SegmentationIrrelevant'
    BY <1>0, <2>1, WholeKeeps, CutIsExcused
  <2>8. NameAt(stream)' = NameAt(stream) /\ UserOf(stream)' = UserOf(stream)
        /\ PassAt(stream)' = PassAt(stream)
    BY <1>0
  <2> QED BY <1>0, <2>1, <2>5, <2>6, <2>7, <2>8 DEF Understood, Asked, Named, Trusted
<1>3. CASE Password
  <2>1. /\ pc = "password" /\ Len(buf) >= need
        /\ creds' = SocksCreds(creds.user, SubSeq(buf, 1, need))
        /\ AuthReply /\ buf' = SubSeq(buf, need + 1, Len(buf))
    BY <1>3 DEF Password, AtStage, Wanted
  <2>2. need = stream[PassAt(stream)] /\ need \in Nat /\ Placed(stream, buf, rest, PassAt(stream))
    BY <2>1 DEF Understood
  <2>3. need \in 0 .. Len(buf)
    BY <1>0, <2>1, <2>2
  <2>4. creds' = SocksCreds(UserOf(stream), PasswordOf(stream))
    <3>1. SubSeq(buf, 1, need) = SubSeq(stream, PassAt(stream) + 1, PassAt(stream) + need)
      <4> DEFINE at == PassAt(stream)
      <4>1. at \in Nat /\ Placed(stream, buf, rest, at)
        BY <1>1, <2>2
      <4> HIDE DEF at
      <4>2. \A n \in 0 .. Len(buf) : SubSeq(buf, 1, n) = SubSeq(stream, at + 1, at + n)
        BY <1>0, <4>1, BufferShows
      <4>3. SubSeq(buf, 1, need) = SubSeq(stream, at + 1, at + need)
        BY <2>3, <4>2
      <4> QED BY <4>3 DEF at
    <3>2. PassAt(stream) = stream[2] + 5 + stream[stream[2] + 4]
      <4>1. stream[2] + 4 = NameAt(stream) /\ NameAt(stream) + 1 = stream[2] + 5
        BY <1>0 DEF NameAt
      <4>2. PassAt(stream) = NameAt(stream) + 1 + stream[NameAt(stream)]
        BY Zenon DEF PassAt
      <4> QED BY <4>1, <4>2
    <3>3. PasswordOf(stream) = SubSeq(stream, PassAt(stream) + 1, PassAt(stream) + need)
      BY <2>2, <3>2 DEF PasswordOf
    <3> QED BY <1>0, <2>1, <3>1, <3>3
  <2>5. Placed(stream, buf', rest', PassAt(stream) + stream[PassAt(stream)])
    BY <1>0, <1>1, <2>1, <2>2, <2>3, ConsumePlaces
  <2>6. NameAt(stream)' = NameAt(stream) /\ UserOf(stream)' = UserOf(stream)
        /\ PassAt(stream)' = PassAt(stream) /\ PasswordOf(stream)' = PasswordOf(stream)
    BY <1>0
  <2>7. CASE pc' # "done"
    <3>1. pc' = "request"
      BY <2>1, <2>7 DEF AuthReply, EmitAndReply
    <3>2. Invited' /\ SegmentationIrrelevant'
      BY <1>0, <2>7, WholeKeeps, CutIsExcused
    <3> QED BY <1>0, <2>2, <2>4, <2>5, <2>6, <3>1, <3>2 DEF Understood, Asked, Named, Trusted
  <2>8. CASE pc' = "done" /\ cut' = TRUE
    BY <2>8, CutIsExcused, DoneIsUnderstood
  <2>9. CASE pc' = "done" /\ cut' # TRUE
    <3>1. log = Negotiated
      BY <2>1 DEF Told
    <3>2. /\ config.mode = "always_fail"
          /\ log' = log \o <<"auth">> \o <<"-> auth failed">> \o <<>>
      BY <2>1, <2>9 DEF AuthReply, EmitAndReply
    <3>3. log' = SocksLog(stream)
      BY <1>0, <3>1, <3>2, NegotiatedGrows, SocksLogEarly
    <3> QED BY <1>0, <2>4, <2>9, <3>3, AnsweredIsUnderstood, DoneIsUnderstood
  <2> QED BY <2>7, <2>8, <2>9
<1> QED BY <1>2, <1>3

\* The request of a client that believes it is in.
LEMMA RequestUnderstands ==
    ASSUME TypeOK, Told, Unnamed, Understood, Request \/ DomainLength \/ Address
    PROVE  Understood'
<1>0. /\ stream \in Seq(Nat) /\ rest \in Seq(Nat) /\ buf \in Seq(Nat)
      /\ Len(buf) \in Nat /\ Len(rest) \in Nat /\ pc \in Trusted /\ pc \in Named
      /\ UNCHANGED <<config, stream, rest, creds>> /\ Invited /\ stream[1] = 5
      /\ stream[2] \in Nat /\ stream[stream[2] + 3] = 1 /\ stream[NameAt(stream)] \in Nat
      /\ stream[PassAt(stream)] \in Nat
      /\ creds = SocksCreds(UserOf(stream), PasswordOf(stream))
  <2>1. /\ pc \in Asked /\ pc \in Named /\ pc \in Trusted
        /\ UNCHANGED <<config, stream, rest, creds>>
    BY DEF Request, DomainLength, Address, AtStage, Asked, Named, Trusted
  <2>2. /\ Invited /\ stream[1] = 5 /\ stream[2] \in Nat /\ stream[stream[2] + 3] = 1
        /\ stream[NameAt(stream)] \in Nat /\ stream[PassAt(stream)] \in Nat
        /\ creds = SocksCreds(UserOf(stream), PasswordOf(stream))
    BY <2>1 DEF Understood
  <2> QED BY <2>1, <2>2, StreamsAreTokens DEF TypeOK
<1>1. PassAt(stream) \in Nat /\ PassAt(stream) + stream[PassAt(stream)] \in Nat
  BY <1>0, PlacesAreNumbers
<1>2. log = Verdict /\ config.mode = "accept_then_fail"
  BY <1>0 DEF Told, Trusted
<1>3. NameAt(stream)' = NameAt(stream) /\ UserOf(stream)' = UserOf(stream)
      /\ PassAt(stream)' = PassAt(stream) /\ PasswordOf(stream)' = PasswordOf(stream)
      /\ TypeAt(stream)' = TypeAt(stream)
  BY <1>0
<1>4. CASE Request
  <2>1. /\ pc = "request" /\ pc' = CASE buf[4] \in {1, 4} -> "address"
                                     [] buf[4] = 3 -> "domain" [] OTHER -> "done"
        /\ log' = log
    BY <1>4 DEF Request, Consume, AtStage
  <2>2. Len(buf) >= 4
    BY <1>4 DEF Request, AtStage, Wanted
  <2> DEFINE at == PassAt(stream) + stream[PassAt(stream)]
  <2>3. at \in Nat /\ at + 4 = TypeAt(stream)
    BY <1>0, <1>1 DEF TypeAt
  <2>4. Placed(stream, buf, rest, at)
    BY <2>1 DEF Understood
  <2> HIDE DEF at
  <2>5. buf[4] = stream[TypeAt(stream)]
    <3>1. 4 \in 1 .. Len(buf)
      BY <1>0, <2>2
    <3>2. \A i \in 1 .. Len(buf) : buf[i] = stream[at + i]
      BY <1>0, <2>3, <2>4, BufferShows
    <3> QED BY <2>3, <3>1, <3>2
  <2>6. CASE stream[TypeAt(stream)] \in {1, 3, 4}
    <3>1. pc' \in {"address", "domain"}
      BY <2>1, <2>5, <2>6
    <3>2. Invited' /\ SegmentationIrrelevant'
      BY <1>0, <3>1, WholeKeeps, CutIsExcused
    <3> QED BY <1>0, <1>3, <2>6, <3>1, <3>2 DEF Understood, Asked, Named, Trusted
  <2>7. CASE stream[TypeAt(stream)] \notin {1, 3, 4}
    <3>1. pc' = "done"
      BY <2>1, <2>5, <2>7
    <3>2. log' = SocksLog(stream)
      BY <1>0, <1>2, <2>1, <2>7, SocksLogSays
    <3> QED BY <1>0, <3>1, <3>2, AnsweredIsUnderstood, DoneIsUnderstood
  <2> QED BY <2>6, <2>7
<1>5. CASE DomainLength
  <2>1. pc = "domain" /\ pc' = "address"
    BY <1>5 DEF DomainLength, Consume, AtStage
  <2>2. stream[TypeAt(stream)] \in {1, 3, 4}
    BY <2>1 DEF Understood
  <2>3. Invited' /\ SegmentationIrrelevant'
    BY <1>0, <2>1, WholeKeeps, CutIsExcused
  <2> QED BY <1>0, <1>3, <2>1, <2>2, <2>3 DEF Understood, Asked, Named, Trusted
<1>6. CASE Address
  <2>1. pc = "address" /\ EmitAndReply(<<>>, "-> refused", <<>>, "done")
    BY <1>6 DEF Address, AtStage
  <2>2. pc' = "done" /\ (cut' = TRUE \/ log' = Verdict \o <<>> \o <<"-> refused">> \o <<>>)
    BY <1>2, <2>1 DEF EmitAndReply
  <2>3. CASE cut' = TRUE
    BY <2>2, <2>3, CutIsExcused, DoneIsUnderstood
  <2>4. CASE log' = Verdict \o <<>> \o <<"-> refused">> \o <<>>
    <3>1. stream[TypeAt(stream)] \in {1, 3, 4}
      BY <2>1 DEF Understood
    <3>2. log' = SocksLog(stream)
      BY <1>0, <1>2, <2>4, <3>1, VerdictGrows, SocksLogSays
    <3> QED BY <1>0, <2>2, <3>2, AnsweredIsUnderstood, DoneIsUnderstood
  <2> QED BY <2>2, <2>3, <2>4
<1> QED BY <1>4, <1>5, <1>6

\* The answer to an HTTP request.
LEMMA HttpUnderstands ==
    ASSUME TypeOK, Told, Understood, HttpRequest \/ HttpTruncated
    PROVE  Understood'
<1>0. /\ stream \in Seq(Nat) /\ stream \in Streams /\ rest \in Seq(Nat) /\ buf \in Seq(Nat)
      /\ Len(buf) \in Nat /\ Len(rest) \in Nat
  BY StreamsAreTokens DEF TypeOK
<1>1. /\ pc = "header" /\ Answer(buf) /\ stream[1] # 5 /\ Placed(stream, buf, rest, 0)
      /\ log = Opened /\ UNCHANGED <<config, stream>>
  BY DEF HttpRequest, HttpTruncated, Answer, Understood, Told
<1> DEFINE auth == ProxyAuth(HeaderBlock(buf))
           events == <<"negotiate">> \o (IF auth = NoCreds THEN <<>> ELSE <<"auth">>)
           reply == IF config.mode = "always_fail" \/ auth = NoCreds
                      THEN "-> 407" ELSE "-> 502/403"
<1>2. creds' = auth /\ EmitAndReply(events, reply, <<>>, "done")
  BY <1>1 DEF Answer
<1> HIDE DEF auth, events, reply
<1>3. pc' = "done" /\ (cut' = TRUE \/ (log' = Opened \o events \o <<reply>> \o <<>> /\ cut' = MustRead))
  BY <1>1, <1>2 DEF EmitAndReply
<1>4. CASE cut' = TRUE
  BY <1>3, <1>4, CutIsExcused, DoneIsUnderstood
<1>5. CASE cut' # TRUE /\ Len(stream) <= MaxHeader
  <2>1. HeaderComplete
    BY <1>1, <1>3, <1>5 DEF MustRead
  <2>2. Contains(buf, Blank)
    <3>1. Len(buf) <= Len(stream)
      <4> DEFINE lb == Len(buf)  lr == Len(rest)  ls == Len(stream)
      <4>1. 0 + lb + lr = ls /\ lb \in Nat /\ lr \in Nat
        BY <1>0, <1>1 DEF Placed
      <4> HIDE DEF lb, lr, ls
      <4>2. lb <= ls
        BY <4>1
      <4> QED BY <4>2 DEF lb, ls
    <3>2. ~(Len(buf) > MaxHeader)
      <4>1. Len(stream) \in Nat /\ MaxHeader \in Nat
        BY <1>0, HeaderBound
      <4> QED BY <1>0, <1>5, <3>1, <4>1
    <3> QED BY <2>1, <3>2 DEF HeaderComplete
  <2>3. auth = HttpCreds(SchemeOf(stream))
    BY <1>0, <1>1, <2>2, HeaderSays DEF auth
  <2>4. auth = NoCreds <=> SchemeOf(stream) = "none"
    <3>1. NoCreds = HttpCreds("none")
      BY DEF NoCreds, HttpCreds
    <3>2. \A k : HttpCreds(k) = HttpCreds("none") => k = "none"
      BY DEF HttpCreds
    <3> QED BY <2>3, <3>1, <3>2
  <2>5. log' = HttpLog(stream)
    <3>1. CASE auth = NoCreds
      <4>1. log' = <<"connect">> \o (<<"negotiate">> \o <<>>) \o <<"-> 407">> \o <<>>
        BY <1>3, <1>5, <3>1 DEF events, reply, Opened
      <4>2. log' = <<"connect", "negotiate", "-> 407">>
        BY <4>1, JoinTwoToOne, Zenon
      <4> QED BY <2>4, <3>1, <4>2 DEF HttpLog
    <3>2. CASE auth # NoCreds
      <4>1. log' = <<"connect">> \o (<<"negotiate">> \o <<"auth">>) \o <<reply>> \o <<>>
        BY <1>3, <1>5, <3>2 DEF events, Opened
      <4>2. log' = <<"connect", "negotiate", "auth", reply>>
        BY <4>1, JoinThreeToOne, Zenon
      <4>3. reply = IF config.mode = "always_fail" THEN "-> 407" ELSE "-> 502/403"
        BY <3>2 DEF reply
      <4> QED BY <2>4, <3>2, <4>2, <4>3 DEF HttpLog
    <3> QED BY <3>1, <3>2
  <2>6. HttpLog(stream)' = HttpLog(stream) /\ HttpCreds(SchemeOf(stream))' = HttpCreds(SchemeOf(stream))
    BY <1>1, WholeKeeps
  <2>7. SegmentationIrrelevant'
    BY <1>1, <1>2, <2>3, <2>5, <2>6 DEF SegmentationIrrelevant
  <2> QED BY <1>3, <2>7, DoneIsUnderstood
<1>6. CASE ~(Len(stream) <= MaxHeader)
  <2>1. SegmentationIrrelevant'
    BY <1>1, <1>6 DEF SegmentationIrrelevant
  <2> QED BY <1>3, <2>1, DoneIsUnderstood
<1> QED BY <1>4, <1>5, <1>6

\* Every step leaves the session knowing what it has read.
LEMMA NextUnderstood == TypeOK /\ Told /\ Unnamed /\ Understood /\ [Next]_vars => Understood'
<1> SUFFICES ASSUME TypeOK, Told, Unnamed, Understood, [Next]_vars PROVE Understood'
  OBVIOUS
<1>1. CASE FirstChunk \/ ReadMore \/ ReadTimesOut \/ ReadEnds
  BY <1>1, ReadsUnderstand
<1>2. CASE Greeting \/ Methods
  BY <1>2, GreetingUnderstands
<1>3. CASE BadAuthVersion \/ AuthHead \/ Username
  BY <1>3, NameUnderstands
<1>4. CASE PasswordLength \/ Password
  BY <1>4, PasswordUnderstands
<1>5. CASE Request \/ DomainLength \/ Address
  BY <1>5, RequestUnderstands
<1>6. CASE HttpRequest \/ HttpTruncated
  BY <1>6, HttpUnderstands
<1>7. CASE UNCHANGED vars
  <2>1. Invited' <=> Invited
    BY <1>7, WholeKeeps DEF vars
  <2>2. SegmentationIrrelevant' <=> SegmentationIrrelevant
    BY <1>7, WholeKeeps DEF vars, SegmentationIrrelevant, InLog
  <2>3. UNCHANGED <<rest, stream, buf, pc, need, creds>>
    BY <1>7 DEF vars
  <2> QED BY <2>1, <2>2, <2>3 DEF Understood
<1> QED BY <1>1, <1>2, <1>3, <1>4, <1>5, <1>6, <1>7 DEF Next, Socks5

(***************************************************************************)
(* The theorems                                                            *)
(***************************************************************************)

Safe == TypeOK /\ Told /\ Unnamed

\* At first nothing has arrived and only the connection is recorded.
LEMMA InitSafe == Init => Safe
<1> SUFFICES ASSUME Init PROVE Safe
  OBVIOUS
<1>1. Told /\ Unnamed
  BY DEF Init, Told, Unnamed, Opened
<1>2. stream \in Seq(Nat) /\ rest \in Seq(Nat) /\ buf \in Seq(Nat)
  BY StreamsAreTokens DEF Init
<1>3. log \in Seq(Entries)
  BY LogsAreTyped DEF Init, Opened
<1>4. NoCreds \in Credentials
  BY DEF NoCreds, Credentials
<1> QED BY <1>1, <1>2, <1>3, <1>4 DEF Init, Safe, TypeOK, Stages, Credentials

\* In every reachable state.
LEMMA SafeHolds == Spec => []Safe
<1>1. Safe /\ [Next]_vars => Safe'
  BY NextTypeOK, NextTold DEF Safe
<1> QED BY <1>1, InitSafe, PTL DEF Spec

\* The session's state and what it records are well typed.
THEOREM TypeCorrect == Spec => []TypeOK
<1>1. Safe => TypeOK
  BY DEF Safe
<1> QED BY <1>1, SafeHolds, PTL

\* Credentials are recorded before the client is told anything about them.
THEOREM RecordPrecedesVerdict == Spec => []RecordedBeforeVerdict
<1>1. Safe => RecordedBeforeVerdict
  BY LogIsSound DEF Safe
<1> QED BY <1>1, SafeHolds, PTL

\* No session says success of anything but the authentication, or outside
\* accept-then-fail mode, and after it only refuses.
THEOREM NeverAnOpenProxy == Spec => []NeverOpen
<1>1. Safe => NeverOpen
  BY LogIsSound DEF Safe
<1> QED BY <1>1, SafeHolds, PTL

\* A session has one auth event at most, and one ending, which is last.
THEOREM EndsOnce == Spec => []OneEnding
<1>1. Safe => OneEnding
  BY LogIsSound DEF Safe
<1> QED BY <1>1, SafeHolds, PTL

\* How the network cuts the stream does not matter once the protocol has been
\* recognised.
THEOREM CutsDoNotMatter == Spec => []SegmentationIrrelevant
<1>1. Init => Understood
  BY DEF Init, Understood, Asked, Named, Trusted, SegmentationIrrelevant
<1>2. Safe /\ Understood /\ [Next]_vars => Understood'
  BY NextUnderstood DEF Safe
<1>3. Understood => SegmentationIrrelevant
  BY DEF Understood
<1> QED BY <1>1, <1>2, <1>3, SafeHolds, PTL DEF Spec
=============================================================================
