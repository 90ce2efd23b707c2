-------------------------------- MODULE MCServer --------------------------------
(* The settings a process may start with, one per case a gate tells apart. *)
EXTENDS Server

Base == [posix |-> TRUE, command |-> "serve", transport |-> "stdio", host |-> "protected",
         resolves |-> TRUE, token |-> None, shortSecret |-> FALSE, stored |-> "missing",
         creds |-> {"typesafe"}, unexpanded |-> FALSE, explicit |-> "auto", sdk |-> TRUE]
Http == [Base EXCEPT !.transport = "http"]

MCSetupConfigs == { [Http EXCEPT !.creds = {}, !.sdk = FALSE, !.stored = "oversized"] }

MCConfigs ==
  MCSetupConfigs
  \cup { Base, Http,
         [Http EXCEPT !.token = "ok", !.host = "other", !.explicit = "openrouter",
                      !.creds = {"typesafe", "openrouter"}],
         [Http EXCEPT !.creds = {"vercel", "compatible"}] }
  \cup { [Base EXCEPT !.posix = FALSE], [Base EXCEPT !.command = "install"],
         [Base EXCEPT !.command = "judge"], [Base EXCEPT !.shortSecret = TRUE],
         [Base EXCEPT !.stored = "short"],
         [Base EXCEPT !.unexpanded = TRUE, !.stored = "ok", !.sdk = FALSE],
         [Http EXCEPT !.token = "short"], [Http EXCEPT !.host = "other"],
         [Http EXCEPT !.resolves = FALSE] }
================================================================================
