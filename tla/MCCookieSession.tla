--------------------------- MODULE MCCookieSession ---------------------------
(* Two tabs, one role, and an operation that refuses it: a user without roles *)
(* is served, so that what makes a user one without roles shows.              *)
EXTENDS CookieSession

MCRules == {[NoRule EXCEPT !.denyMatchAll = Roles, !.denyMatchAny = Roles]}
=============================================================================
