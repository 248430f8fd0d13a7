----------------------------- MODULE MCWebRadio -----------------------------
(* Small instances of WebRadio for TLC.                                    *)
EXTENDS WebRadio, TLC

UrlSet == {"http://a", "https://b"}
TlsUrlSet == {"https://b"}
=============================================================================
