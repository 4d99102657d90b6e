----------------------------- MODULE MCHTTPClient -----------------------------
(* HTTPClient for TLC: a cached request without a body, a reader that can be *)
(* read once, a form whose content type is derived, and a timeout.           *)
EXTENDS HTTPClient

MCRequests ==
    {[body |-> "none",   header |-> FALSE, timeout |-> FALSE, useCache |-> TRUE],
     [body |-> "reader", header |-> TRUE,  timeout |-> FALSE, useCache |-> FALSE],
     [body |-> "form",   header |-> FALSE, timeout |-> TRUE,  useCache |-> TRUE]}

===============================================================================
