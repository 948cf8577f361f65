---------------------------- MODULE MCFrontDoor ----------------------------
(* A key that is published from the start, one that is published later, and *)
(* every way config.validate accepts, and one it refuses.  Three requests   *)
(* of two clients meet the limiter, two that name keys meet the key cache.  *)
EXTENDS FrontDoor, TLC

S(t, i, a, l, b) ==
  [token |-> t, issuer |-> i, audience |-> a, loopback |-> l, limits |-> b]
MCSettings == {S(TRUE, FALSE, FALSE, FALSE, TRUE), S(FALSE, TRUE, TRUE, FALSE, FALSE),
               S(FALSE, FALSE, FALSE, TRUE, TRUE), S(FALSE, TRUE, FALSE, FALSE, FALSE)}
Visit(who, from, what) == [who -> [client : from, carries : what]]
MCVisits(s) ==
  IF s.issuer THEN UNION {Visit(Requests \ {r}, {CHOOSE c \in Clients : TRUE}, Kids)
                          : r \in Requests}
  ELSE Visit(Requests, Clients, IF s.token THEN {"none", "token"} ELSE {"none"})
Perms == Permutations(Requests)
=============================================================================
