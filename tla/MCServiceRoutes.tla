-------------------------- MODULE MCServiceRoutes --------------------------
(***************************************************************************)
(* A small instance of ServiceRoutes for TLC: a token of each kind, a URL  *)
(* for each rule, DNS answers with each kind of address.                   *)
(***************************************************************************)
EXTENDS ServiceRoutes, TLC

CONSTANTS c1, c2, k1

UserToken    == [kid |-> k1, signed |-> TRUE, expires |-> 2, issuer |-> TRUE,
                 client |-> FALSE, scope |-> FALSE, aud |-> "none"]
ServiceToken == [kid |-> k1, signed |-> TRUE, expires |-> MaxTime + 1, issuer |-> TRUE,
                 client |-> TRUE, scope |-> TRUE, aud |-> "api"]
SomeTokens == {UserToken, ServiceToken,
               [ServiceToken EXCEPT !.signed = FALSE],
               [UserToken EXCEPT !.aud = "other"],
               [UserToken EXCEPT !.issuer = FALSE]}

SomeHosts == {<<"imgur", "com">>, <<"cdn", "shopflow", "local">>}
Web(host) == [form |-> "web", host |-> host]
SomeUrls  == {Web(<<"i", "imgur", "com">>), Web(<<"imgur", "com", "example">>),
              [form |-> "scheme", host |-> <<"imgur", "com">>]}

V4(a, b) == [family |-> "v4", head |-> <<a, b>>]
Mapped(a, b) == [family |-> "mapped", head |-> <<a, b>>]
V6(d) == [family |-> "v6", head |-> d]
SomeAnswers == {{V4(8, 8), V6(<<2, 0, 0, 1>>)}, {V4(8, 8), Mapped(10, 0)},
                {V4(172, 31)}, {V6(<<15, 14, 11, 15>>)}}

Symmetry == Permutations(Calls)
=============================================================================
