--------------------------- MODULE MCProxySession ---------------------------
(***************************************************************************)
(* The clients that TLC lets talk to ProxySession.                         *)
(***************************************************************************)
EXTENDS ProxySession

Userpass == <<5, 1, 2>>             \* greeting: username/password only
Both == <<5, 2, 0, 2>>              \* greeting: also without authentication
Login == <<1, 2, 65, 66, 1, 67>>
NoName == <<1, 0, 1, 67>>
NoPassword == <<1, 1, 65, 0>>
ToIPv4 == <<5, 1, 0, 1, 9, 9, 9, 9, 0, 80>>
ToDomain == <<5, 1, 0, 3, 2, 70, 71, 0, 80>>
ToIPv6 == <<5, 1, 0, 4>> \o [i \in 1 .. 18 |-> 6]
ToNowhere == <<5, 1, 0, 9, 1>>

SocksStreams ==
    { Userpass \o Login \o ToIPv4,
      Both \o NoName \o ToDomain,
      Userpass \o NoPassword \o ToIPv6,
      Userpass \o Login \o ToNowhere,
      <<5, 1, 0>>, <<5, 0>>,
      Userpass \o <<2, 1, 65, 1, 66>> }

RequestLine == <<Method1, Method2, Target>>

HttpStreams ==
    { RequestLine \o <<Header, Basic1, Basic2, Blank>>,
      RequestLine \o <<Header, Blank, Basic1, Basic2>>,
      RequestLine \o <<OtherAuth, Header, Blank>>,
      RequestLine \o <<Basic1, Basic2, OtherAuth, NoAuth, Blank>>,
      RequestLine \o <<OtherAuth, Basic1, Basic2, Blank, Header>>,
      RequestLine \o [i \in 1 .. 8 |-> Header],
      <<Method1, Method2, Header, Blank>> }

AllStreams == SocksStreams \cup HttpStreams \cup {<<22, 3, 1>>}
=============================================================================
