------------------------------ MODULE MCHttpd -------------------------------
(***************************************************************************)
(* A small instance of Httpd for TLC.                                      *)
(***************************************************************************)
EXTENDS Httpd, TLC

CONSTANTS c1, c2
MCClients == {c1, c2}

Get(target) == <<"GET", " ">> \o target \o <<" ", "HTTP/1.0">>

\* One well formed request for each page, then a name that is too long for
\* the response, no name, no second word, and a request that fills the buffer.
MCSite ==
  Get(<<"/">>) :> <<"myhttpd running">> @@ Get(<<"/hello">>) :> <<"Hello!">> @@
  Get(<<"/hello", "?", "bob">>) :> <<"Hello, ", "bob">> @@
  Get(<<"/date">>) :> <<"date">> @@
  Get(<<"/nonexistent">>) :> <<"404 Page Not Found">> @@ Get(<<"/x">>) :> <<>>

MCRequests == c2 :> {Get(<<"/hello">>), <<"GET", " ">>} @@ c1 :> DOMAIN MCSite \cup
  {Get(<<"/hello", "?", "?", "a", "b">>), Get(<<"/hello", "?">>), <<"GET", " ">>,
   Get(<<"/hello", "?", "a", "b", "c", "d">>)}

ASSUME MCSiteServed == SiteServed
=============================================================================
