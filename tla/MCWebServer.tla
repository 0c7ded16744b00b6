----------------------------- MODULE MCWebServer ----------------------------
(* WebServer with bodies below, at and above the content limit.            *)
EXTENDS WebServer

OwnPages == {"notAllowed"}
OwnErrorPage == {"internal"}
=============================================================================
